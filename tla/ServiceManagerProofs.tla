------------------------ MODULE ServiceManagerProofs ------------------------
(***************************************************************************)
(* srv, for every set of providers, apps, names and notifications: it      *)
(* serves one caller at a time, panics only where it is documented to,     *)
(* keeps nothing it has made for a caller, and the sessions it gives lead  *)
(* to the provider that was the first to register the name.                *)
(***************************************************************************)
EXTENDS ServiceManager, IpcProofs

-----------------------------------------------------------------------------
(* The inductive invariant *)

\* A handle table of which n handles have been drawn.
HandleTable(f, n) ==
    /\ f = [h \in DOMAIN f |-> f[h]] /\ DOMAIN f \subseteq 1..n
    /\ \A h \in DOMAIN f : f[h] \in Kind \X Nat

Tables(t, d) ==
    /\ d \in [Process -> Nat] /\ t = [p \in Process |-> t[p]]
    /\ \A p \in Process : HandleTable(t[p], d[p])

Buffers(data) == data \in [Process -> Seq(Nat)] /\ \A p \in Process : Len(data[p]) = BufferWords

\* What srv knows.
RegistryTypes ==
    /\ services \in Seq([name : Name, port : Nat]) /\ Len(services) = ports
    /\ seen \subseteq Notification
    /\ ports \in Nat /\ events \in Nat
    /\ sessions \in Seq(1..ports)
    /\ queued \in Seq(Seq(Nat)) /\ Len(queued) = ports
    /\ knocking \in Seq(Client)

PhaseType == phase \in [Client -> {"start", "connecting", "idle", "asking", "answered", "using",
                                   "serving", "accepting", "busy"}]

\* Where srv and its clients are.
LoopTypes ==
    /\ serving \in Client \cup {Nobody} /\ current \in Process \cup {Nobody}
    /\ stage \in {"waiting", "knocked", "woken", "handle", "connecting", "connected", "reply"}
    /\ panic \in {"none", "service not found", "not implemented", "no port", "no handle"}

CallTypesOK ==
    /\ calls \in [Client -> Nat] /\ \A c \in Client : calls[c] <= MaxCalls[c]
    /\ asked \in [Client -> [call : Call, word : Nat]]
    /\ user \in [Provider -> App \cup {Nobody}]

\* Tables, buffers and counters.
Types == /\ Tables(table, drawn) /\ Buffers(ipcData)
         /\ RegistryTypes /\ PhaseType /\ LoopTypes /\ CallTypesOK

\* An app draws two handles when it connects and at most one for every call.
FewHandles == \A a \in App :
    /\ drawn[a] + (IF phase[a] = "asking" THEN 1 ELSE 0) <= calls[a] + 2
    /\ phase[a] = "start" => drawn[a] = 0

\* Before a client's first call has returned.
New == {"start", "connecting", "idle", "asking"}
AppPhase == New \cup {"answered", "using"}

\* Who may run when: srv before providers before apps.
Order ==
    /\ stage \in {"waiting", "knocked"} <=> serving = Nobody
    /\ serving # Nobody => phase[serving] = "asking"
    /\ \A c \in Client : phase[c] = "asking" => serving = c
    /\ current # Nobody => current = Srv \/ current \in App
    /\ current = Srv => stage \notin {"waiting", "knocked"}
    /\ current \in App => stage = "waiting" /\ \A p \in Provider : phase[p] = "serving"
    /\ \A p \in Provider : /\ phase[p] # "using" /\ (phase[p] = "accepting" => stage = "connecting")
                           /\ (phase[p] = "busy" => stage = "waiting")
    /\ \A a \in App : phase[a] \in AppPhase
    /\ \A a \in App : phase[a] # "start" =>
           \A p \in Provider : phase[p] \in {"serving", "accepting", "busy"}
    /\ \A p, q \in Provider : p < q /\ phase[p] \in New => phase[q] = "start"

\* A client that connects is the one whose session is queued at srv's port.
Knocking ==
    /\ \A c \in Client : phase[c] = "connecting" => stage = "knocked" /\ knocking = <<c>>
    /\ IF stage = "knocked" THEN \E c \in Client : phase[c] = "connecting" /\ knocking = <<c>>
                            ELSE knocking = <<>>

\* Every app that uses a service has a provider of its own.
Using ==
    /\ \A p \in Provider : phase[p] = "busy" => user[p] \in App /\ phase[user[p]] = "using"
    /\ \A a \in App : phase[a] = "using" => \E p \in Provider : phase[p] = "busy" /\ user[p] = a
    /\ \A p, q \in Provider : phase[p] = "busy" /\ phase[q] = "busy" /\ user[p] = user[q] => p = q

\* What a client has asked is a call of its own.
Asks == \A c \in Client :
        phase[c] \in {"asking", "answered"} \/ (c \in Provider /\ phase[c] \notin New) =>
            asked[c].call \in CallsOf(c) /\ asked[c].word \in WordsOf(asked[c].call)

\* A provider's registration, from the moment srv has made its port.
Registered(p) == phase[p] \notin New \/ (serving = p /\ stage = "reply")
PortOf(p) == IF phase[p] = "asking" THEN ports ELSE table[p][3][2]

Registration(p) == Registered(p) => /\ PortOf(p) \in 1..ports
                                    /\ services[PortOf(p)].name = asked[p].word

\* A provider's table: its port, and sessions that it has accepted.
ProviderTable(p) ==
    /\ phase[p] = "start" => drawn[p] = 0
    /\ phase[p] \in New \ {"start"} => drawn[p] = 2
    /\ phase[p] \notin New => 3 \in DOMAIN table[p] /\ table[p][3][1] = "server port"
    /\ \A h \in DOMAIN table[p] : h # 3 => table[p][h][1] # "server port"

Registry ==
    /\ \A p \in Provider : Registration(p) /\ ProviderTable(p)
    /\ \A i \in 1..ports : \E p \in Provider : Registered(p) /\ PortOf(p) = i
    /\ \A p, q \in Provider : Registered(p) /\ Registered(q) /\ p < q => PortOf(p) < PortOf(q)

\* The handle that srv has drawn for the caller and has yet to send.
Extra ==
    IF stage \in {"connecting", "connected"} THEN drawn[Srv]
    ELSE IF stage # "reply" THEN NoHandle
    ELSE IF asked[serving].call = "RegisterService" THEN drawn[Srv] - 1
    ELSE IF asked[serving].call \in {"EnableNotification", "GetServiceHandle"} THEN drawn[Srv]
    ELSE NoHandle

ExtraObject ==
    IF asked[serving].call = "RegisterService" THEN Obj("server port", ports)
    ELSE IF asked[serving].call = "GetServiceHandle" THEN Obj("client session", Len(sessions))
    ELSE Obj("event", events)

SrvTable ==
    /\ 1 \in DOMAIN table[Srv] /\ table[Srv][1] = Obj("srv port", 0)
    /\ \A i \in 1..ports : /\ services[i].port \in DOMAIN table[Srv]
                           /\ table[Srv][services[i].port] = Obj("client port", i)
    /\ \A h \in DOMAIN table[Srv] : h = 1 \/ h = Extra \/ (\E i \in 1..ports : h = services[i].port)
           \/ \E c \in Client : Accepted(c) /\ table[Srv][h] = Obj("srv server session", c)
    /\ Extra # NoHandle => Extra \in DOMAIN table[Srv] /\ table[Srv][Extra] = ExtraObject

\* One session with every client that has connected.
SrvSessions ==
    /\ \A c \in Client : Accepted(c) =>
           \E h \in DOMAIN table[Srv] : table[Srv][h] = Obj("srv server session", c)
    /\ \A c \in Client, g, h \in DOMAIN table[Srv] :
           /\ table[Srv][g] = Obj("srv server session", c)
           /\ table[Srv][h] = Obj("srv server session", c)
           => g = h

\* The messages.
CommandOf(call) ==
    CASE call = "RegisterClient" -> 1      [] call = "EnableNotification" -> 2
      [] call = "RegisterService" -> 3     [] call = "GetServiceHandle" -> 5
      [] call = "Subscribe" -> 9           [] call = "ReceiveNotification" -> 11
      [] call = "PublishToSubscriber" -> 12 [] call = "PublishAndGetSubscriber" -> 13

NormalsOf(call, word) ==
    CASE call = "RegisterService" -> <<word, 0, 4, 255>>
      [] call = "GetServiceHandle" -> <<word, 0, 4, 0>>
      [] call \in {"Subscribe", "PublishAndGetSubscriber"} -> <<word>>
      [] call = "PublishToSubscriber" -> <<word, 0>>
      [] OTHER -> <<>>

ParamsOf(call) == IF call = "RegisterClient" THEN <<HandleParam(FALSE, TRUE, <<CurrentProcess>>)>>
                                             ELSE <<>>

SizeOf(call) == IF call = "RegisterClient" THEN 2 ELSE 0

Requests(b, a) == ReadsAs(b, FALSE, CommandOf(a.call), <<>>, NormalsOf(a.call, a.word),
                          ParamsOf(a.call), SizeOf(a.call))

Given(handle) == IF handle = NoHandle THEN <<>> ELSE Moved(handle)

Answers(b, handle) ==
    /\ ReadsAs(b, TRUE, HeaderCode(b[1]).command, <<0>>, Read(b, TRUE).normals, Given(handle),
               HeaderCode(b[1]).translate)
    /\ HeaderCode(b[1]).command \in Nat
    /\ Read(b, TRUE).normals \in Seq(Nat) /\ Len(Read(b, TRUE).normals) <= 2
    /\ handle # NoHandle => Read(b, TRUE).normals = <<>>

Messages ==
    /\ stage = "woken" => Requests(ipcData[serving], asked[serving])
    /\ stage \in {"handle", "connecting", "connected"} => Requests(ipcData[Srv], asked[serving])
    /\ stage \in {"connecting", "connected"} => asked[serving].call = "GetServiceHandle"
    /\ stage = "reply" => Answers(ipcData[Srv], Extra)

\* Sessions.
First(p, word) == asked[p].word = word /\ \A q \in Provider : q < p => asked[q].word # word

Leads(n, word) ==
    \E p \in Provider :
        /\ phase[p] \notin New /\ First(p, word)
        /\ \E h \in DOMAIN table[p] : table[p][h] = Obj("server session", n)
        /\ table[p][3] = Obj("server port", sessions[n])

Queues == \A i \in 1..ports :
    queued[i] = IF stage = "connecting" /\ i = sessions[Len(sessions)] THEN <<Len(sessions)>> ELSE <<>>

Connecting ==
    /\ stage = "connecting" =>
           /\ Len(sessions) >= 1
           /\ \E p \in Provider : phase[p] = "accepting" /\ First(p, asked[serving].word)
    /\ \A p \in Provider : phase[p] = "accepting" => table[p][3] = Obj("server port", sessions[Len(sessions)])
    /\ stage = "connected" \/ (stage = "reply" /\ asked[serving].call = "GetServiceHandle") =>
           Len(sessions) >= 1 /\ Leads(Len(sessions), asked[serving].word)

\* A client that was given a handle finds it.
GivenTo(c, h) ==
    /\ Read(ipcData[c], TRUE).params = Moved(h)
    /\ asked[c].call = "GetServiceHandle" =>
           \E n \in 1..Len(sessions) : table[c][h] = Obj("client session", n) /\ Leads(n, asked[c].word)

Finds ==
    \A c \in Client :
        phase[c] = "answered" /\ asked[c].call \in {"RegisterService", "GetServiceHandle"} =>
            \E h \in DOMAIN table[c] : GivenTo(c, h)

Inv ==
    /\ Types /\ FewHandles /\ Order /\ Knocking /\ Using /\ Asks /\ Registry /\ SrvTable
    /\ SrvSessions /\ Messages /\ Queues /\ Connecting /\ Finds /\ PanicsAreJustified

USE DEF New, AppPhase

-----------------------------------------------------------------------------
(* Handle tables *)

\* T and D are t and d with one more object in p's table.
Inserted(t, d, T, D, p, o) ==
    /\ \A q \in Process : q # p => T[q] = t[q] /\ D[q] = d[q]
    /\ D[p] = d[p] + 1 /\ DOMAIN T[p] = DOMAIN t[p] \cup {d[p] + 1}
    /\ T[p][d[p] + 1] = o /\ \A h \in DOMAIN t[p] : T[p][h] = t[p][h]
    /\ d[p] + 1 \notin DOMAIN t[p]

\* T is t without a handle of p.
Removed(t, T, p, handle) ==
    /\ \A q \in Process : q # p => T[q] = t[q]
    /\ DOMAIN T[p] = DOMAIN t[p] \ {handle}
    /\ \A h \in DOMAIN T[p] : T[p][h] = t[p][h]

LEMMA InsertHandleOK ==
    ASSUME NEW t, NEW d, Tables(t, d), NEW p \in Process, NEW o \in Kind \X Nat,
           NEW r, r = InsertHandle(t, d, p, o)
    PROVE  Tables(r.table, r.drawn) /\ Inserted(t, d, r.table, r.drawn, p, o)
<1>1. PICK n \in Nat : n = d[p]
  BY DEF Tables
<1>2. PICK f : f = t[p]
  OBVIOUS
<1>3. HandleTable(f, n)
  BY <1>1, <1>2 DEF Tables
<1>4. PICK g : g = [h \in DOMAIN f \cup {n + 1} |-> IF h = n + 1 THEN o ELSE f[h]]
  OBVIOUS
<1>5. DOMAIN g = DOMAIN f \cup {n + 1} /\ g[n + 1] = o /\ \A h \in DOMAIN f : h # n + 1 => g[h] = f[h]
  BY <1>4
<1>6. n + 1 \notin DOMAIN f
  BY <1>3 DEF HandleTable
<1>7. HandleTable(g, n + 1)
  <2>1. g = [h \in DOMAIN g |-> g[h]]
    BY <1>4
  <2>2. DOMAIN g \subseteq 1..(n + 1)
    <3>1. \A h \in DOMAIN f : h \in 1..n
      BY <1>3 DEF HandleTable
    <3>2. \A h \in 1..n : h \in 1..(n + 1)
      OBVIOUS
    <3>3. n + 1 \in 1..(n + 1)
      OBVIOUS
    <3>4. QED
      BY <1>5, <3>1, <3>2, <3>3, Zenon
  <2>3. ASSUME NEW h \in DOMAIN g PROVE g[h] \in Kind \X Nat
    <3>1. CASE h = n + 1
      BY <3>1, <1>5, Zenon
    <3>2. CASE h # n + 1
      <4>1. h \in DOMAIN f /\ g[h] = f[h]
        BY <3>2, <1>5, Zenon
      <4>2. QED
        BY <4>1, <1>3, Zenon DEF HandleTable
    <3>3. QED
      BY <3>1, <3>2
  <2>4. QED
    BY <2>1, <2>2, <2>3, Zenon DEF HandleTable
<1>8. r.table = [t EXCEPT ![p] = g] /\ r.drawn = [d EXCEPT ![p] = n + 1]
  BY <1>1, <1>2, <1>4 DEF InsertHandle
<1>9. PICK T : T = r.table
  OBVIOUS
<1>10. PICK D : D = r.drawn
  OBVIOUS
<1>11. T[p] = g /\ \A q \in Process : q # p => T[q] = t[q]
  BY <1>8, <1>9 DEF Tables
<1>12. D[p] = n + 1 /\ (\A q \in Process : q # p => D[q] = d[q]) /\ D \in [Process -> Nat]
  BY <1>8, <1>10 DEF Tables
<1>13. T = [q \in Process |-> T[q]]
  BY <1>8, <1>9 DEF Tables
<1>14. \A q \in Process : HandleTable(T[q], D[q])
  <2>1. \A q \in Process : q # p => HandleTable(T[q], D[q])
    BY <1>11, <1>12, Zenon DEF Tables
  <2>2. HandleTable(T[p], D[p])
    BY <1>7, <1>11, <1>12, Zenon
  <2>3. QED
    BY <2>1, <2>2, Zenon
<1>15. Tables(T, D)
  BY <1>12, <1>13, <1>14, Zenon DEF Tables
<1>16. Inserted(t, d, T, D, p, o)
  <2>1. \A h \in DOMAIN f : g[h] = f[h]
    BY <1>5, <1>6, Zenon
  <2>2. QED
    BY <1>1, <1>2, <1>5, <1>6, <1>11, <1>12, <2>1, Zenon DEF Inserted
<1>17. QED
  BY <1>9, <1>10, <1>15, <1>16, Zenon

LEMMA RemoveHandleOK ==
    ASSUME NEW t, NEW d, Tables(t, d), NEW p \in Process, NEW handle,
           NEW T, T = RemoveHandle(t, p, handle)
    PROVE  Tables(T, d) /\ Removed(t, T, p, handle)
<1>1. PICK n \in Nat : n = d[p]
  BY DEF Tables
<1>2. PICK f : f = t[p]
  OBVIOUS
<1>3. HandleTable(f, n)
  BY <1>1, <1>2 DEF Tables
<1>4. PICK g : g = [h \in DOMAIN f \ {handle} |-> f[h]]
  OBVIOUS
<1>5. DOMAIN g = DOMAIN f \ {handle} /\ \A h \in DOMAIN g : g[h] = f[h]
  BY <1>4
<1>6. HandleTable(g, n)
  <2>1. g = [h \in DOMAIN g |-> g[h]]
    BY <1>4
  <2>2. QED
    BY <2>1, <1>3, <1>5, Zenon DEF HandleTable
<1>7. T = [t EXCEPT ![p] = g]
  BY <1>2, <1>4 DEF RemoveHandle
<1>8. T[p] = g /\ (\A q \in Process : q # p => T[q] = t[q]) /\ T = [q \in Process |-> T[q]]
  BY <1>7 DEF Tables
<1>9. \A q \in Process : HandleTable(T[q], d[q])
  <2>1. \A q \in Process : q # p => HandleTable(T[q], d[q])
    BY <1>8, Zenon DEF Tables
  <2>2. HandleTable(T[p], d[p])
    BY <1>1, <1>6, <1>8, Zenon
  <2>3. QED
    BY <2>1, <2>2, Zenon
<1>10. QED
  BY <1>2, <1>5, <1>8, <1>9, Zenon DEF Tables, Removed

LEMMA InsertedOK ==
    ASSUME Tables(table, drawn), NEW p \in Process, NEW o \in Kind \X Nat, NewHandle(p, o)
    PROVE  Tables(table', drawn') /\ Inserted(table, drawn, table', drawn', p, o)
  BY InsertHandleOK, Zenon DEF NewHandle

-----------------------------------------------------------------------------
(* Messages *)

LEMMA Constants ==
    /\ BufferWords \in Nat /\ BufferWords >= 5 /\ CurrentProcess \in Nat /\ CurrentProcess # 0
    /\ Srv \in Process /\ Srv \in Nat /\ Client \subseteq Process
    /\ \A c \in Client : c \in Nat /\ Srv < c /\ c # Srv
    /\ \A p \in Provider, a \in App : p < a
    /\ Provider \subseteq Client /\ App \subseteq Client /\ Provider \cap App = {}
    /\ Nobody \notin Process /\ Nobody # Srv
    /\ Name \subseteq Nat /\ Notification \subseteq Nat /\ MaxCalls \in [Client -> Nat]
    /\ \A c \in Client : MaxCalls[c] + 2 < CurrentProcess
<1>1. \A c \in Client : c \in Nat /\ Srv < c /\ c # Srv
  BY ServiceManagerAssumption DEF Client
<1>2. Nobody \notin Process /\ Nobody # Srv
  BY ServiceManagerAssumption DEF Nobody
<1>3. \A p \in Provider, a \in App : p < a /\ p \in Nat
  BY ServiceManagerAssumption DEF Client
<1>4. Provider \cap App = {}
  BY <1>3
<1>5. CurrentProcess \in Nat /\ CurrentProcess # 0 /\ BufferWords \in Nat
  BY IpcAssumption DEF NoHandle
<1>6. QED
  BY <1>1, <1>2, <1>3, <1>4, <1>5, ServiceManagerAssumption DEF Client

LEMMA CallTypes ==
    ASSUME NEW call \in Call, call # "none", NEW word \in WordsOf(call)
    PROVE  /\ word \in Nat /\ CommandOf(call) \in Nat
           /\ NormalsOf(call, word) \in Seq(Nat) /\ Len(NormalsOf(call, word)) <= 4
           /\ call = "RegisterClient" => NormalsOf(call, word) = <<>>
<1>1. word \in Nat
  BY Constants DEF WordsOf, Call
<1>2. CommandOf(call) \in Nat
  BY DEF CommandOf, Call
<1>3. /\ <<word, 0, 4, 255>> \in Seq(Nat) /\ Len(<<word, 0, 4, 255>>) = 4
      /\ <<word, 0, 4, 0>> \in Seq(Nat) /\ Len(<<word, 0, 4, 0>>) = 4
      /\ <<word>> \in Seq(Nat) /\ Len(<<word>>) = 1
      /\ <<word, 0>> \in Seq(Nat) /\ Len(<<word, 0>>) = 2
      /\ <<>> \in Seq(Nat) /\ Len(<<>>) = 0
      /\ 4 <= 4 /\ 2 <= 4 /\ 1 <= 4 /\ 0 <= 4
  BY <1>1
<1>4. NormalsOf(call, word) \in {<<word, 0, 4, 255>>, <<word, 0, 4, 0>>, <<word>>, <<word, 0>>, <<>>}
  BY DEF NormalsOf, Call
<1>5. call = "RegisterClient" => NormalsOf(call, word) = <<>>
  BY DEF NormalsOf
<1>6. PICK ns : ns = NormalsOf(call, word)
  OBVIOUS
<1>7. ns \in Seq(Nat) /\ Len(ns) <= 4
  BY <1>3, <1>4, <1>6, Zenon
<1>8. QED
  BY <1>1, <1>2, <1>5, <1>6, <1>7, Zenon

LEMMA RequestOfWords ==
    ASSUME NEW call \in Call, call # "none", NEW word
    PROVE  RequestOf(call, word) = Written(CommandOf(call), <<>>, NormalsOf(call, word),
               IF call = "RegisterClient" THEN <<HandleParam(FALSE, TRUE, <<NoHandle>>)>> ELSE <<>>)
  BY DEF RequestOf, CommandOf, NormalsOf, RequestWords, Call

\* The handle of the calling process is read as that, whatever was written.
LEMMA SeenCalling ==
    ASSUME NEW h
    PROVE  Seen(HandleParam(FALSE, TRUE, <<h>>)) = HandleParam(FALSE, TRUE, <<CurrentProcess>>)
<1>1. [i \in 1..Len(<<h>>) |-> CurrentProcess] = <<CurrentProcess>>
  OBVIOUS
<1>2. /\ HandleParam(FALSE, TRUE, <<h>>).moved = FALSE /\ HandleParam(FALSE, TRUE, <<h>>).calling = TRUE
      /\ HandleParam(FALSE, TRUE, <<h>>).handles = <<h>>
  BY DEF HandleParam
<1>3. QED
  BY <1>1, <1>2 DEF Seen

LEMMA SeenMoved ==
    ASSUME NEW h
    PROVE  Seen(HandleParam(TRUE, FALSE, <<h>>)) = HandleParam(TRUE, FALSE, <<h>>)
  BY DEF Seen, HandleParam

LEMMA OneHandle ==
    ASSUME NEW moved \in BOOLEAN, NEW calling \in BOOLEAN, NEW h \in Nat
    PROVE  \E x \in Param : x = HandleParam(moved, calling, <<h>>) /\ x.handles = <<h>>
<1>1. <<h>> \in Seq(Nat)
  OBVIOUS
<1>2. HandleParam(moved, calling, <<h>>) \in Param /\ HandleParam(moved, calling, <<h>>).handles = <<h>>
  BY <1>1 DEF HandleParam, Param
<1>3. QED
  BY <1>2, Zenon

\* A message that was delivered and fits keeps the buffer's length.
LEMMA DeliveredFits ==
    ASSUME NEW o, NEW b, NEW reply, NEW command, NEW result, NEW normals, NEW params, NEW size,
           Delivered(o, b, reply, command, result, normals, params, size),
           result \in Seq(Nat), normals \in Seq(Nat), size \in Nat,
           ((1 + Len(result)) + Len(normals)) + size <= 5,
           Len(b) = BufferWords
    PROVE  /\ ReadsAs(o, reply, command, result, normals, params, size)
           /\ o \in Seq(Nat) /\ Len(o) = BufferWords
<1>1. PICK k \in Nat : k = ((1 + Len(result)) + Len(normals)) + size
  OBVIOUS
<1>2. k <= BufferWords
  BY <1>1, Constants
<1>3. QED
  BY <1>1, <1>2 DEF Delivered, ReadsAs

\* Ask puts the request in the client's buffer.
LEMMA AskWrites ==
    ASSUME NEW call \in Call, call # "none", NEW word \in WordsOf(call),
           NEW b \in Seq(Nat), Len(b) = BufferWords, NEW o, o = Over(b, RequestOf(call, word)),
           NEW a, a = [call |-> call, word |-> word]
    PROVE  Requests(o, a) /\ o \in Seq(Nat) /\ Len(o) = BufferWords
<1>1. PICK command \in Nat : command = CommandOf(call)
  BY CallTypes
<1>2. PICK normals \in Seq(Nat) : normals = NormalsOf(call, word) /\ Len(normals) <= 4
  BY CallTypes
<1>3. PICK result \in Seq(Nat) : result = <<>> /\ Len(result) = 0
  BY ListNone, Zenon
<1>4. HasResult(result, FALSE)
  BY <1>3 DEF HasResult
<1>5. Len(normals) < 64 /\ Len(normals) \in Nat
  BY <1>2
<1>6. ReadsAs(o, FALSE, command, result, normals, ParamsOf(call), SizeOf(call)) /\ o \in Seq(Nat)
      /\ Len(o) = BufferWords
  <2>1. CASE call = "RegisterClient"
    <3>1. NoHandle \in Nat
      BY DEF NoHandle
    <3>2. PICK x \in Param : x = HandleParam(FALSE, TRUE, <<NoHandle>>) /\ x.handles = <<NoHandle>>
      BY <3>1, OneHandle
    <3>3. Len(x.handles) \in 1..60 /\ 1 + Len(x.handles) = 2
      <4>1. Len(<<NoHandle>>) = 1 /\ 1 \in 1..60 /\ 1 + 1 = 2
        OBVIOUS
      <4>2. QED
        BY <3>2, <4>1, Zenon
    <3>4. RequestOf(call, word) = Written(command, result, normals, <<x>>)
      BY <1>1, <1>2, <1>3, <2>1, <3>2, RequestOfWords
    <3>5. Delivered(o, b, FALSE, command, result, normals, <<Seen(x)>>, 1 + Len(x.handles))
      BY <1>4, <1>5, <3>3, <3>4, WrittenOne, Zenon
    <3>6. <<Seen(x)>> = ParamsOf(call) /\ SizeOf(call) = 2
      BY <2>1, <3>2, SeenCalling DEF ParamsOf, SizeOf
    <3>7. Delivered(o, b, FALSE, command, result, normals, ParamsOf(call), 2)
      BY <3>3, <3>5, <3>6, Zenon
    <3>8. Len(normals) = 0
      BY <1>2, <2>1, CallTypes
    <3>9. ((1 + Len(result)) + Len(normals)) + 2 <= 5
      BY <1>3, <3>8
    <3>10. QED
      BY <3>6, <3>7, <3>9, DeliveredFits
  <2>2. CASE call # "RegisterClient"
    <3>1. RequestOf(call, word) = Written(command, result, normals, <<>>)
      BY <1>1, <1>2, <1>3, <2>2, RequestOfWords
    <3>2. Delivered(o, b, FALSE, command, result, normals, <<>>, 0)
      BY <1>4, <1>5, <3>1, WrittenNone, Zenon
    <3>3. <<>> = ParamsOf(call) /\ SizeOf(call) = 0
      BY <2>2 DEF ParamsOf, SizeOf
    <3>4. ((1 + Len(result)) + Len(normals)) + 0 <= 5
      BY <1>2, <1>3, <1>5
    <3>5. QED
      <4>1. /\ ReadsAs(o, FALSE, command, result, normals, <<>>, 0)
            /\ o \in Seq(Nat) /\ Len(o) = BufferWords
        BY <3>2, <3>4, DeliveredFits
      <4>2. QED
        BY <3>3, <4>1, Zenon
  <2>3. QED
    BY <2>1, <2>2
<1>7. a.call = call /\ a.word = word
  OBVIOUS
<1>8. QED
  BY <1>1, <1>2, <1>3, <1>6, <1>7, Zenon DEF Requests

\* A message arrives in q's buffer, and only there.
Arrives(q, o) == /\ ipcData' = [ipcData EXCEPT ![q] = o]
                 /\ o \in Seq(Nat) /\ Len(o) = BufferWords

\* Receive takes the request to srv, and no handle.
LEMMA ReceiveTakes ==
    ASSUME NEW c \in Process, NEW call \in Call, call # "none", NEW word \in WordsOf(call),
           NEW a, a.call = call, a.word = word,
           Tables(table, drawn), Buffers(ipcData), CurrentProcess \notin DOMAIN table[c],
           Requests(ipcData[c], a), TranslateIpc(c, Srv, FALSE)
    PROVE  /\ table' = table /\ drawn' = drawn
           /\ \E o : Arrives(Srv, o) /\ Requests(o, a)
<1>1. PICK command \in Nat : command = CommandOf(call)
  BY CallTypes
<1>2. PICK normals \in Seq(Nat) : normals = NormalsOf(call, word) /\ Len(normals) <= 4
  BY CallTypes
<1>3. PICK result \in Seq(Nat) : result = <<>> /\ Len(result) = 0
  BY ListNone, Zenon
<1>4. HasResult(result, FALSE)
  BY <1>3 DEF HasResult
<1>5. Len(normals) < 64 /\ Len(normals) \in Nat
  BY <1>2
<1>6. IpcTypes /\ Srv \in Process
  BY Constants DEF IpcTypes, Tables, Buffers
<1>7. Readable(c, FALSE, command, result, normals, ParamsOf(call))
  BY <1>1, <1>2, <1>3, <1>4, <1>5, Zenon DEF Readable, Requests
<1>8. Len(ipcData[Srv]) = BufferWords
  BY <1>6 DEF Buffers
<1>9. CASE call = "RegisterClient"
  <2>1. ParamsOf(call) = <<HandleParam(FALSE, TRUE, <<CurrentProcess>>)>> /\ SizeOf(call) = 2
    BY <1>9 DEF ParamsOf, SizeOf
  <2>2. CurrentProcess \in Nat /\ FALSE \in BOOLEAN /\ TRUE \in BOOLEAN
    BY Constants
  <2>3. PICK done : done = Translated(CurrentProcess, FALSE, c, Srv)
    OBVIOUS
  <2>4. /\ table' = done.table /\ drawn' = done.drawn
        /\ Delivers(Srv, FALSE, command, result, normals,
                    <<Seen(HandleParam(FALSE, TRUE, done.handles))>>, 2)
    <3>1. Readable(c, FALSE, command, result, normals, <<HandleParam(FALSE, TRUE, <<CurrentProcess>>)>>)
      BY <1>7, <2>1, Zenon
    <3>2. Passes(done, Srv, FALSE, command, result, normals, FALSE, TRUE)
      BY <1>6, <2>2, <2>3, <3>1, TranslateOne, Zenon
    <3>3. QED
      BY <3>2, Zenon DEF Passes
  <2>5. done = [table |-> table, drawn |-> drawn, handles |-> <<NoHandle>>]
    BY <1>6, <2>3, TranslatedOne
  <2>6. done.table = table /\ done.drawn = drawn /\ done.handles = <<NoHandle>>
    BY <2>5
  <2>7. Delivers(Srv, FALSE, command, result, normals, ParamsOf(call), 2)
    BY <2>1, <2>4, <2>6, SeenCalling, Zenon
  <2>8. PICK o : /\ ipcData' = [ipcData EXCEPT ![Srv] = o]
                 /\ Delivered(o, ipcData[Srv], FALSE, command, result, normals, ParamsOf(call), 2)
    BY <2>7 DEF Delivers
  <2>9. Len(normals) = 0
    BY <1>2, <1>9, CallTypes
  <2>10. ((1 + Len(result)) + Len(normals)) + 2 <= 5
    BY <1>3, <2>9
  <2>11. /\ ReadsAs(o, FALSE, command, result, normals, ParamsOf(call), 2)
         /\ o \in Seq(Nat) /\ Len(o) = BufferWords
    BY <1>8, <2>8, <2>10, DeliveredFits
  <2>12. QED
    BY <1>1, <1>2, <1>3, <2>1, <2>4, <2>6, <2>8, <2>11, Zenon DEF Requests, Arrives
<1>10. CASE call # "RegisterClient"
  <2>1. ParamsOf(call) = <<>> /\ SizeOf(call) = 0
    BY <1>10 DEF ParamsOf, SizeOf
  <2>2. /\ table' = table /\ drawn' = drawn
        /\ Delivers(Srv, FALSE, command, result, normals, <<>>, 0)
    BY <1>6, <1>7, <2>1, TranslateNone
  <2>3. PICK o : /\ ipcData' = [ipcData EXCEPT ![Srv] = o]
                 /\ Delivered(o, ipcData[Srv], FALSE, command, result, normals, <<>>, 0)
    BY <2>2 DEF Delivers
  <2>4. ((1 + Len(result)) + Len(normals)) + 0 <= 5
    BY <1>2, <1>3, <1>5
  <2>5. /\ ReadsAs(o, FALSE, command, result, normals, <<>>, 0)
        /\ o \in Seq(Nat) /\ Len(o) = BufferWords
    BY <1>8, <2>3, <2>4, DeliveredFits
  <2>6. QED
    BY <1>1, <1>2, <1>3, <2>1, <2>2, <2>3, <2>5, Zenon DEF Requests, Arrives
<1>11. QED
  BY <1>9, <1>10

LEMMA AnswersFrom ==
    ASSUME NEW o, NEW command \in Nat, NEW normals \in Seq(Nat), Len(normals) <= 2, NEW handle,
           NEW size, ReadsAs(o, TRUE, command, << 0 >>, normals, Given(handle), size),
           handle # NoHandle => normals = <<>>
    PROVE  Answers(o, handle) /\ Read(o, TRUE).params = Given(handle)
<1>1. PICK code : code = HeaderCode(o[1])
  OBVIOUS
<1>2. PICK m : m = Read(o, TRUE)
  OBVIOUS
<1>3. /\ code = [command |-> command, normal |-> Len(normals), translate |-> size]
      /\ m = [command |-> command, result |-> <<0>>, normals |-> normals, params |-> Given(handle)]
  BY <1>1, <1>2, Zenon DEF ReadsAs
<1>4. code.command = command /\ code.translate = size /\ m.normals = normals /\ m.params = Given(handle)
  BY <1>3
<1>5. QED
  BY <1>1, <1>2, <1>4, Zenon DEF Answers

\* A response of srv.
LEMMA ResponseAnswers ==
    ASSUME NEW b \in Seq(Nat), Len(b) = BufferWords, NEW command \in Nat,
           NEW normals \in Seq(Nat), Len(normals) <= 2, NEW handle \in Nat,
           handle # NoHandle => normals = <<>>,
           NEW o, o = Over(b, ResponseWords(command, normals, Given(handle)))
    PROVE  Answers(o, handle) /\ o \in Seq(Nat) /\ Len(o) = BufferWords
<1>1. PICK result \in Seq(Nat) : result = <<0>> /\ Len(result) = 1
  BY ListOne, Zenon
<1>2. HasResult(result, TRUE)
  BY <1>1 DEF HasResult
<1>3. Len(normals) < 64 /\ Len(normals) \in Nat
  OBVIOUS
<1>4. CASE handle = NoHandle
  <2>1. Given(handle) = <<>>
    BY <1>4 DEF Given
  <2>2. o = Over(b, Written(command, result, normals, <<>>))
    BY <1>1, <2>1, Zenon DEF ResponseWords
  <2>3. Delivered(o, b, TRUE, command, result, normals, <<>>, 0)
    BY <1>2, <1>3, <2>2, WrittenNone, Zenon
  <2>4. ((1 + Len(result)) + Len(normals)) + 0 <= 5
    BY <1>1, <1>3
  <2>5. /\ ReadsAs(o, TRUE, command, result, normals, <<>>, 0)
        /\ o \in Seq(Nat) /\ Len(o) = BufferWords
    BY <2>3, <2>4, DeliveredFits
  <2>6. ReadsAs(o, TRUE, command, <<0>>, normals, Given(handle), 0)
    BY <1>1, <2>1, <2>5, Zenon
  <2>7. QED
    BY <2>5, <2>6, AnswersFrom
<1>5. CASE handle # NoHandle
  <2>1. PICK x \in Param : x = HandleParam(TRUE, FALSE, <<handle>>) /\ x.handles = <<handle>>
    BY OneHandle
  <2>2. Len(x.handles) \in 1..60 /\ 1 + Len(x.handles) = 2
    <3>1. Len(<<handle>>) = 1 /\ 1 \in 1..60 /\ 1 + 1 = 2
      OBVIOUS
    <3>2. QED
      BY <2>1, <3>1, Zenon
  <2>3. Given(handle) = <<x>> /\ Seen(x) = x
    BY <1>5, <2>1, SeenMoved DEF Given, Moved
  <2>4. o = Over(b, Written(command, result, normals, <<x>>))
    BY <1>1, <2>3, Zenon DEF ResponseWords
  <2>5. Delivered(o, b, TRUE, command, result, normals, <<Seen(x)>>, 1 + Len(x.handles))
    BY <1>2, <1>3, <2>2, <2>4, WrittenOne, Zenon
  <2>6. Delivered(o, b, TRUE, command, result, normals, Given(handle), 2)
    BY <2>2, <2>3, <2>5, Zenon
  <2>7. Len(normals) = 0
    BY <1>5
  <2>8. ((1 + Len(result)) + Len(normals)) + 2 <= 5
    BY <1>1, <2>7
  <2>9. /\ ReadsAs(o, TRUE, command, result, normals, Given(handle), 2)
        /\ o \in Seq(Nat) /\ Len(o) = BufferWords
    BY <2>6, <2>8, DeliveredFits
  <2>10. ReadsAs(o, TRUE, command, <<0>>, normals, Given(handle), 2)
    BY <1>1, <2>9, Zenon
  <2>11. QED
    BY <2>9, <2>10, AnswersFrom
<1>6. QED
  BY <1>4, <1>5

\* Reply without a handle.
LEMMA ReplyNothing ==
    ASSUME NEW c \in Process, Tables(table, drawn), Buffers(ipcData),
           Answers(ipcData[Srv], NoHandle), TranslateIpc(Srv, c, TRUE)
    PROVE  /\ table' = table /\ drawn' = drawn
           /\ \E o : Arrives(c, o)
<1>1. PICK command \in Nat : command = HeaderCode(ipcData[Srv][1]).command
  BY DEF Answers
<1>2. PICK normals \in Seq(Nat) : normals = Read(ipcData[Srv], TRUE).normals /\ Len(normals) <= 2
  BY DEF Answers
<1>a. PICK k \in Nat : k = Len(normals)
  OBVIOUS
<1>3. PICK result \in Seq(Nat) : result = <<0>> /\ Len(result) = 1
  BY ListOne, Zenon
<1>4. HasResult(result, TRUE)
  BY <1>3 DEF HasResult
<1>b. k <= 2
  BY <1>2, <1>a, Zenon
<1>5. Len(normals) < 64 /\ Len(normals) \in Nat
  <2>1. k < 64
    BY <1>b
  <2>2. QED
    BY <1>a, <2>1, Zenon
<1>6. IpcTypes /\ Srv \in Process /\ Len(ipcData[c]) = BufferWords
  BY Constants DEF IpcTypes, Tables, Buffers
<1>7. Given(NoHandle) = <<>>
  BY DEF Given
<1>8. Readable(Srv, TRUE, command, result, normals, <<>>)
  BY <1>1, <1>2, <1>3, <1>4, <1>5, <1>7, Zenon DEF Readable, Answers
<1>9. /\ table' = table /\ drawn' = drawn
      /\ Delivers(c, TRUE, command, result, normals, <<>>, 0)
  BY <1>6, <1>8, TranslateNone
<1>10. PICK o : /\ ipcData' = [ipcData EXCEPT ![c] = o]
                /\ Delivered(o, ipcData[c], TRUE, command, result, normals, <<>>, 0)
  BY <1>9 DEF Delivers
<1>11. ((1 + Len(result)) + Len(normals)) + 0 <= 5
  <2>1. ((1 + 1) + k) + 0 <= 5
    BY <1>b
  <2>2. QED
    BY <1>3, <1>a, <2>1, Zenon
<1>12. o \in Seq(Nat) /\ Len(o) = BufferWords
  BY <1>6, <1>10, <1>11, DeliveredFits
<1>13. QED
  BY <1>9, <1>10, <1>12, Zenon DEF Arrives

\* Reply moves the handle that was made for the caller.
LEMMA ReplyMoves ==
    ASSUME NEW c \in Process, Tables(table, drawn), Buffers(ipcData),
           NEW handle \in Nat, handle # NoHandle, handle \in DOMAIN table[Srv],
           table[Srv][handle] \in Kind \X Nat, c # Srv,
           Answers(ipcData[Srv], handle),
           TranslateIpc(Srv, c, TRUE)
    PROVE  /\ Tables(table', drawn')
           /\ \E t : /\ Removed(table, t, Srv, handle)
                     /\ Inserted(t, drawn, table', drawn', c, table[Srv][handle])
           /\ \E o : Arrives(c, o) /\ Read(o, TRUE).params = Moved(drawn[c] + 1)
<1>1. PICK command \in Nat : command = HeaderCode(ipcData[Srv][1]).command
  BY DEF Answers
<1>2. PICK normals \in Seq(Nat) : normals = Read(ipcData[Srv], TRUE).normals /\ Len(normals) = 0
  BY DEF Answers
<1>a. PICK k \in Nat : k = Len(normals)
  OBVIOUS
<1>3. PICK result \in Seq(Nat) : result = <<0>> /\ Len(result) = 1
  BY ListOne, Zenon
<1>4. HasResult(result, TRUE)
  BY <1>3 DEF HasResult
<1>5. Len(normals) < 64 /\ Len(normals) \in Nat
  <2>1. 0 < 64 /\ 0 \in Nat
    OBVIOUS
  <2>2. QED
    BY <1>2, <2>1, Zenon
<1>6. IpcTypes /\ Srv \in Process /\ Len(ipcData[c]) = BufferWords /\ drawn[c] + 1 \in Nat
  <2>1. PICK n \in Nat : n = drawn[c]
    BY DEF Tables
  <2>2. n + 1 \in Nat
    OBVIOUS
  <2>3. IpcTypes /\ Srv \in Process /\ Len(ipcData[c]) = BufferWords
    BY Constants DEF IpcTypes, Tables, Buffers
  <2>4. QED
    BY <2>1, <2>2, <2>3, Zenon
<1>7. Given(handle) = <<HandleParam(TRUE, FALSE, <<handle>>)>>
  BY DEF Given, Moved
<1>8. Readable(Srv, TRUE, command, result, normals, <<HandleParam(TRUE, FALSE, <<handle>>)>>)
  BY <1>1, <1>2, <1>3, <1>4, <1>5, <1>7, Zenon DEF Readable, Answers
<1>9. PICK done : done = Translated(handle, TRUE, Srv, c)
  OBVIOUS
<1>10. /\ table' = done.table /\ drawn' = done.drawn
       /\ Delivers(c, TRUE, command, result, normals,
                   <<Seen(HandleParam(TRUE, FALSE, done.handles))>>, 2)
  <2>1. FALSE \in BOOLEAN /\ TRUE \in BOOLEAN
    OBVIOUS
  <2>2. QED
    <3>1. Passes(done, c, TRUE, command, result, normals, TRUE, FALSE)
      BY <1>6, <1>8, <1>9, <2>1, TranslateOne, Zenon
    <3>2. QED
      BY <3>1, Zenon DEF Passes
<1>11. PICK r : r = Into(handle, TRUE, Srv, c)
  OBVIOUS
<1>12. done = [table |-> r.table, drawn |-> r.drawn, handles |-> <<drawn[c] + 1>>]
  BY <1>6, <1>9, <1>11, TranslatedOne
<1>13. done.table = r.table /\ done.drawn = r.drawn /\ done.handles = <<drawn[c] + 1>>
  BY <1>12
<1>14. PICK t : t = RemoveHandle(table, Srv, handle)
  OBVIOUS
<1>15. Tables(t, drawn) /\ Removed(table, t, Srv, handle)
  BY <1>6, <1>14, RemoveHandleOK
<1>16. r = InsertHandle(t, drawn, c, table[Srv][handle])
  BY <1>11, <1>14 DEF Into
<1>17. Tables(r.table, r.drawn) /\ Inserted(t, drawn, r.table, r.drawn, c, table[Srv][handle])
  BY <1>15, <1>16, InsertHandleOK
<1>18. PICK o : /\ ipcData' = [ipcData EXCEPT ![c] = o]
                /\ Delivered(o, ipcData[c], TRUE, command, result, normals,
                             Moved(drawn[c] + 1), 2)
  BY <1>10, <1>13, SeenMoved, Zenon DEF Delivers, Moved
<1>19. ((1 + Len(result)) + Len(normals)) + 2 <= 5
  <2>1. ((1 + 1) + 0) + 2 <= 5
    OBVIOUS
  <2>2. QED
    BY <1>2, <1>3, <2>1, Zenon
<1>20. /\ ReadsAs(o, TRUE, command, result, normals, Moved(drawn[c] + 1), 2)
       /\ o \in Seq(Nat) /\ Len(o) = BufferWords
  BY <1>6, <1>18, <1>19, DeliveredFits
<1>21. Read(o, TRUE).params = Moved(drawn[c] + 1)
  <2>1. PICK m : m = Read(o, TRUE)
    OBVIOUS
  <2>2. m = [command |-> command, result |-> result, normals |-> normals,
             params |-> Moved(drawn[c] + 1)]
    BY <1>20, <2>1, Zenon DEF ReadsAs
  <2>3. m.params = Moved(drawn[c] + 1)
    BY <2>2
  <2>4. QED
    BY <2>1, <2>3, Zenon
<1>22. \E u : /\ Removed(table, u, Srv, handle)
              /\ Inserted(u, drawn, table', drawn', c, table[Srv][handle])
  BY <1>10, <1>13, <1>15, <1>17, Zenon
<1>23. \E u : Arrives(c, u) /\ Read(u, TRUE).params = Moved(drawn[c] + 1)
  BY <1>18, <1>20, <1>21, Zenon DEF Arrives
<1>24. QED
  BY <1>10, <1>13, <1>17, <1>22, <1>23, Zenon

-----------------------------------------------------------------------------
(* Who runs *)

\* An app runs only if srv waits for it and every provider waits for sessions.
LEMMA AppRuns ==
    ASSUME Inv, NEW c \in App, Runs(c)
    PROVE  stage = "waiting" /\ serving = Nobody /\ \A p \in Provider : phase[p] = "serving"
<1>1. CASE current = c
  BY <1>1 DEF Inv, Order
<1>2. CASE current = Nobody /\ \A q \in SurelyReady : c <= q
  <2>1. Srv \notin SurelyReady
    BY <1>2, Constants
  <2>2. \A p \in Provider : p \notin SurelyReady
    <3>1. \A p \in Provider : p \in Nat /\ c \in Nat /\ p < c
      BY Constants
    <3>2. \A x, y \in Nat : x < y => ~(y <= x)
      OBVIOUS
    <3>3. QED
      BY <1>2, <3>1, <3>2, Zenon
  <2>3. stage \in {"waiting", "connecting"}
    BY <2>1, Constants DEF SurelyReady
  <2>4. \A p \in Provider : p \in Process /\ phase[p] \notin {"start", "idle", "answered", "accepting", "busy"}
    BY <2>2, Constants DEF SurelyReady
  <2>5. stage = "waiting"
    BY <2>3, <2>4 DEF Inv, Connecting
  <2>6. serving = Nobody
    BY <2>5 DEF Inv, Order
  <2>7. ASSUME NEW p \in Provider PROVE phase[p] = "serving"
    <3>1. p \in Client /\ p # Nobody
      BY Constants
    <3>2. phase[p] # "asking" /\ phase[p] # "using"
      BY <2>6, <3>1 DEF Inv, Order
    <3>3. phase[p] # "connecting"
      BY <2>5, <3>1 DEF Inv, Knocking
    <3>4. phase[p] \in {"start", "connecting", "idle", "asking", "answered", "using", "serving",
                        "accepting", "busy"}
      BY <3>1 DEF Inv, Types, PhaseType
    <3>5. QED
      BY <2>4, <3>2, <3>3, <3>4
  <2>8. QED
    BY <2>5, <2>6, <2>7
<1>3. QED
  BY <1>1, <1>2 DEF Runs

\* A provider connects and registers while srv waits, after all that come before it.
LEMMA ProviderRuns ==
    ASSUME Inv, NEW c \in Provider, Runs(c), phase[c] \in {"start", "idle"}
    PROVE  /\ stage = "waiting" /\ serving = Nobody
           /\ \A p \in Provider : p < c => phase[p] \notin New
           /\ \A a \in App : phase[a] = "start"
<1>1. c \in Client /\ c # Nobody /\ c \notin App /\ c # Srv /\ c \in Nat
  BY Constants
<1>2. current = Nobody /\ \A q \in SurelyReady : c <= q
  <2>1. current # c
    BY <1>1 DEF Inv, Order
  <2>2. QED
    BY <2>1 DEF Runs
<1>3. \A a \in App : phase[a] = "start"
  BY DEF Inv, Order
<1>4. Srv \notin SurelyReady
  BY <1>2, Constants
<1>5. stage \in {"waiting", "connecting"}
  BY <1>4, Constants DEF SurelyReady
<1>6. stage = "waiting"
  <2>1. SUFFICES ASSUME stage = "connecting" PROVE FALSE
    BY <1>5
  <2>2. asked[serving].call = "GetServiceHandle"
    BY <2>1 DEF Inv, Messages
  <2>3. serving \in Client /\ phase[serving] = "asking"
    BY <2>1 DEF Inv, Order, Types, LoopTypes
  <2>4. asked[serving].call \in CallsOf(serving)
    BY <2>3 DEF Inv, Asks
  <2>5. serving \notin Provider
    BY <2>2, <2>4 DEF CallsOf
  <2>6. serving \in App
    BY <2>3, <2>5 DEF Client
  <2>7. QED
    BY <1>3, <2>3, <2>6
<1>7. serving = Nobody
  BY <1>6 DEF Inv, Order
<1>8. ASSUME NEW p \in Provider, p < c PROVE phase[p] \notin New
  <2>1. p \in Client /\ p \in Process /\ p # Nobody /\ p \in Nat
    BY Constants
  <2>2. phase[p] # "asking"
    BY <1>7, <2>1 DEF Inv, Order
  <2>3. p \notin SurelyReady
    BY <1>1, <1>2, <1>8, <2>1
  <2>4. phase[p] \notin {"start", "idle"}
    BY <2>1, <2>3 DEF SurelyReady
  <2>5. phase[p] # "connecting"
    BY <1>6, <2>1 DEF Inv, Knocking
  <2>6. QED
    BY <2>2, <2>4, <2>5
<1>9. QED
  BY <1>3, <1>6, <1>7, <1>8

-----------------------------------------------------------------------------
(* What is kept *)

\* A provider that has registered keeps what it has.
Stays(p) == phase[p] \notin New =>
    /\ phase'[p] \notin New /\ asked'[p] = asked[p]
    /\ \A h \in DOMAIN table[p] : h \in DOMAIN table'[p] /\ table'[p][h] = table[p][h]

SessionsStay == /\ Len(sessions) \in Nat /\ Len(sessions') \in Nat /\ Len(sessions) <= Len(sessions')
                /\ \A n \in 1..Len(sessions) : sessions'[n] = sessions[n]

LEMMA FirstKept ==
    ASSUME Inv, \A p \in Provider : Stays(p), NEW p \in Provider, NEW word,
           phase[p] \notin New, First(p, word)
    PROVE  First(p, word)'
<1>1. ASSUME NEW q \in Provider, q < p PROVE asked'[q] = asked[q]
  <2>1. phase[q] \notin New
    BY <1>1 DEF Inv, Order
  <2>2. QED
    BY <2>1 DEF Stays
<1>2. asked'[p] = asked[p]
  BY DEF Stays
<1>3. QED
  BY <1>1, <1>2 DEF First

LEMMA LeadsKept ==
    ASSUME Inv, \A p \in Provider : Stays(p), SessionsStay,
           NEW n \in 1..Len(sessions), NEW word, Leads(n, word)
    PROVE  Leads(n, word)'
<1>1. PICK p \in Provider :
        /\ phase[p] \notin New /\ First(p, word)
        /\ \E h \in DOMAIN table[p] : table[p][h] = Obj("server session", n)
        /\ table[p][3] = Obj("server port", sessions[n])
  BY DEF Leads
<1>2. First(p, word)'
  BY <1>1, FirstKept
<1>3. phase'[p] \notin New
  BY <1>1 DEF Stays
<1>4. \E h \in DOMAIN table'[p] : table'[p][h] = Obj("server session", n)
  BY <1>1 DEF Stays
<1>5. 3 \in DOMAIN table[p]
  BY <1>1 DEF Inv, Registry, ProviderTable
<1>6. table'[p][3] = Obj("server port", sessions'[n])
  BY <1>1, <1>5 DEF Stays, SessionsStay
<1>7. QED
  BY <1>2, <1>3, <1>4, <1>6 DEF Leads, Obj

\* A client that has its answer keeps it.
Same(c) == /\ phase[c] = "answered" /\ asked'[c] = asked[c]
           /\ ipcData'[c] = ipcData[c] /\ table'[c] = table[c]

LEMMA FindsKept ==
    ASSUME Inv, \A p \in Provider : Stays(p), SessionsStay, NEW c \in Client, Same(c),
           asked'[c].call \in {"RegisterService", "GetServiceHandle"}
    PROVE  \E h \in DOMAIN table'[c] : GivenTo(c, h)'
<1>1. PICK h \in DOMAIN table[c] : GivenTo(c, h)
  BY DEF Inv, Finds, Same
<1>2. h \in DOMAIN table'[c] /\ Read(ipcData'[c], TRUE).params = Moved(h)
  BY <1>1 DEF GivenTo, Same
<1>3. PICK word : word = asked[c].word
  OBVIOUS
<1>4. ASSUME asked'[c].call = "GetServiceHandle"
      PROVE  \E n \in 1..Len(sessions') : table'[c][h] = Obj("client session", n) /\ Leads(n, word)'
  <2>1. PICK n \in 1..Len(sessions) : table[c][h] = Obj("client session", n) /\ Leads(n, word)
    BY <1>1, <1>3, <1>4 DEF GivenTo, Same
  <2>2. Leads(n, word)'
    BY <2>1, LeadsKept
  <2>3. n \in 1..Len(sessions')
    <3>1. \A x, y \in Nat : x <= y => \A z \in 1..x : z \in 1..y
      OBVIOUS
    <3>2. QED
      BY <2>1, <3>1, Zenon DEF SessionsStay
  <2>4. table'[c][h] = Obj("client session", n)
    BY <2>1 DEF Same
  <2>5. QED
    BY <2>2, <2>3, <2>4
<1>5. asked'[c].word = word
  BY <1>3 DEF Same
<1>6. GivenTo(c, h)'
  BY <1>2, <1>4, <1>5 DEF GivenTo, Moved, Obj
<1>7. QED
  BY <1>2, <1>6

LEMMA FindsFrame ==
    ASSUME Inv, \A p \in Provider : Stays(p), SessionsStay,
           \A c \in Client : phase'[c] = "answered" => Same(c)
    PROVE  Finds'
<1>1. ASSUME NEW c \in Client, phase'[c] = "answered",
             asked'[c].call \in {"RegisterService", "GetServiceHandle"}
      PROVE  \E h \in DOMAIN table'[c] : GivenTo(c, h)'
  BY <1>1, FindsKept
<1>2. QED
  BY <1>1 DEF Finds

LEMMA SessionsSame == ASSUME Inv, sessions' = sessions PROVE SessionsStay
<1>1. Len(sessions) \in Nat
  BY DEF Inv, Types, RegistryTypes
<1>2. PICK n \in Nat : n = Len(sessions) /\ n <= n
  BY <1>1
<1>3. QED
  BY <1>2, Zenon DEF SessionsStay

\* What a step that only moves a client on leaves alone.
SrvStays == /\ table' = table /\ drawn' = drawn /\ ipcData' = ipcData /\ services' = services
            /\ seen' = seen /\ ports' = ports /\ sessions' = sessions /\ queued' = queued
            /\ events' = events /\ knocking' = knocking /\ stage' = stage /\ serving' = serving
            /\ asked' = asked

\* Nobody connects.
ArrivalsStay == \A c \in Client : /\ phase'[c] = "start" <=> phase[c] = "start"
                                  /\ phase'[c] = "connecting" <=> phase[c] = "connecting"

LEMMA AcceptedStays ==
    ASSUME ArrivalsStay, NEW c \in Client
    PROVE  Accepted(c)' <=> Accepted(c)
  BY DEF ArrivalsStay, Accepted

LEMMA KnockingFrame ==
    ASSUME Inv, ArrivalsStay, knocking' = knocking, stage' = "knocked" <=> stage = "knocked"
    PROVE  Knocking'
<1>1. ASSUME NEW c \in Client, phase'[c] = "connecting" PROVE stage' = "knocked" /\ knocking' = <<c>>
  BY <1>1 DEF ArrivalsStay, Inv, Knocking
<1>2. CASE stage = "knocked"
  <2>1. PICK c \in Client : phase[c] = "connecting" /\ knocking = <<c>>
    BY <1>2 DEF Inv, Knocking
  <2>2. phase'[c] = "connecting" /\ knocking' = <<c>>
    BY <2>1 DEF ArrivalsStay
  <2>3. QED
    BY <1>1, <1>2, <2>2 DEF Knocking
<1>3. CASE stage # "knocked"
  BY <1>1, <1>3 DEF Inv, Knocking
<1>4. QED
  BY <1>2, <1>3

\* srv's sessions are its sessions still.
SessionsKept == \A c \in Client, h \in Nat :
    (h \in DOMAIN table'[Srv] /\ table'[Srv][h] = Obj("srv server session", c))
        <=> (h \in DOMAIN table[Srv] /\ table[Srv][h] = Obj("srv server session", c))

LEMMA SrvHandles ==
    ASSUME NEW t, NEW d, Tables(t, d), NEW h \in DOMAIN t[Srv]
    PROVE  h \in Nat
<1>1. PICK n : n = d[Srv]
  OBVIOUS
<1>2. n \in Nat /\ DOMAIN t[Srv] \subseteq 1..n
  BY <1>1, Constants DEF Tables, HandleTable
<1>3. QED
  BY <1>2

LEMMA SrvSessionsFrame ==
    ASSUME Inv, Tables(table', drawn'), ArrivalsStay, SessionsKept
    PROVE  SrvSessions'
<1>1. ASSUME NEW c \in Client, Accepted(c)'
      PROVE  \E h \in DOMAIN table'[Srv] : table'[Srv][h] = Obj("srv server session", c)
  <2>1. Accepted(c)
    BY <1>1, AcceptedStays
  <2>2. PICK h \in DOMAIN table[Srv] : table[Srv][h] = Obj("srv server session", c)
    BY <2>1 DEF Inv, SrvSessions
  <2>3. h \in Nat
    BY SrvHandles DEF Inv, Types
  <2>4. QED
    BY <2>2, <2>3 DEF SessionsKept
<1>2. ASSUME NEW c \in Client, NEW g \in DOMAIN table'[Srv], NEW h \in DOMAIN table'[Srv],
             table'[Srv][g] = Obj("srv server session", c), table'[Srv][h] = Obj("srv server session", c)
      PROVE  g = h
  <2>1. g \in Nat /\ h \in Nat
    BY SrvHandles
  <2>2. /\ g \in DOMAIN table[Srv] /\ table[Srv][g] = Obj("srv server session", c)
        /\ h \in DOMAIN table[Srv] /\ table[Srv][h] = Obj("srv server session", c)
    BY <1>2, <2>1 DEF SessionsKept
  <2>3. QED
    BY <2>2 DEF Inv, SrvSessions
<1>3. QED
  BY <1>1, <1>2 DEF SrvSessions, Obj

LEMMA SrvTableFrame ==
    ASSUME Inv, Tables(table', drawn'), table'[Srv] = table[Srv], ports' = ports,
           services' = services, ArrivalsStay, Extra' = Extra,
           Extra = NoHandle \/ ExtraObject' = ExtraObject
    PROVE  SrvTable' /\ SrvSessions'
<1>1. SrvTable
  BY DEF Inv
<1>2. \A h \in DOMAIN table'[Srv] :
         \/ h = 1 \/ h = Extra' \/ (\E i \in 1..ports' : h = services'[i].port)
         \/ \E c \in Client : Accepted(c)' /\ table'[Srv][h] = Obj("srv server session", c)
  BY <1>1, AcceptedStays DEF SrvTable
<1>3. SrvTable'
  BY <1>1, <1>2 DEF SrvTable, Obj
<1>4. SessionsKept
  BY DEF SessionsKept
<1>5. QED
  BY <1>3, <1>4, SrvSessionsFrame

LEMMA SrvFrame ==
    ASSUME Inv, SrvStays, ArrivalsStay
    PROVE  /\ Tables(table', drawn') /\ Buffers(ipcData') /\ RegistryTypes'
           /\ Knocking' /\ SrvTable' /\ SrvSessions' /\ Messages' /\ Queues'
<1>1. Tables(table', drawn') /\ Buffers(ipcData') /\ RegistryTypes'
  BY DEF SrvStays, Inv, Types, RegistryTypes
<1>2. Extra' = Extra /\ ExtraObject' = ExtraObject
  BY DEF SrvStays, Extra, ExtraObject
<1>4. Messages'
  <2>1. Messages
    BY DEF Inv
  <2>2. QED
    BY <1>2, <2>1 DEF SrvStays, Messages, Answers, Requests, ReadsAs
<1>5. Queues'
  BY DEF SrvStays, Inv, Queues
<1>6. Knocking'
  BY KnockingFrame DEF SrvStays
<1>7. SrvTable' /\ SrvSessions'
  BY <1>1, <1>2, SrvTableFrame DEF SrvStays
<1>8. QED
  BY <1>1, <1>4, <1>5, <1>6, <1>7

SameRegistration(p) == /\ Registered(p)' = Registered(p)
                       /\ Registered(p) => PortOf(p)' = PortOf(p) /\ asked'[p].word = asked[p].word

LEMMA RegistryFrame ==
    ASSUME Inv, ports' = ports, services' = services, \A p \in Provider : SameRegistration(p),
           \A p \in Provider : ProviderTable(p)'
    PROVE  Registry'
<1>1. /\ \A p \in Provider : Registration(p)
      /\ \A i \in 1..ports : \E p \in Provider : Registered(p) /\ PortOf(p) = i
      /\ \A p, q \in Provider : Registered(p) /\ Registered(q) /\ p < q => PortOf(p) < PortOf(q)
  BY DEF Inv, Registry
<1>2. \A p \in Provider : Registered(p)' => Registered(p)
  BY DEF SameRegistration
<1>3. \A p \in Provider : Registered(p) => Registered(p)'
  BY DEF SameRegistration
<1>4. \A p \in Provider : Registered(p) => PortOf(p)' = PortOf(p) /\ asked'[p].word = asked[p].word
  BY DEF SameRegistration
<1>5. \A p \in Provider : Registration(p)'
  BY <1>1, <1>2, <1>4 DEF Registration
<1>6. \A i \in 1..ports' : \E p \in Provider : Registered(p)' /\ PortOf(p)' = i
  <2>1. ASSUME NEW i \in 1..ports PROVE \E p \in Provider : Registered(p)' /\ PortOf(p)' = i
    <3>1. PICK p \in Provider : Registered(p) /\ PortOf(p) = i
      BY <1>1
    <3>2. QED
      BY <1>3, <1>4, <3>1, Zenon
  <2>2. QED
    BY <2>1
<1>7. \A p, q \in Provider : Registered(p)' /\ Registered(q)' /\ p < q => PortOf(p)' < PortOf(q)'
  BY <1>1, <1>2, <1>4, Zenon
<1>8. QED
  BY <1>5, <1>6, <1>7 DEF Registry

-----------------------------------------------------------------------------
(* The steps of clients *)

LEMMA ProviderTableFrame ==
    ASSUME Inv, NEW p \in Provider, table'[p] = table[p], drawn'[p] = drawn[p],
           phase'[p] = "start" <=> phase[p] = "start", phase'[p] \in New <=> phase[p] \in New
    PROVE  ProviderTable(p)'
  BY DEF Inv, Registry, ProviderTable

\* Nothing but the slice changes.
LEMMA SliceStep ==
    ASSUME Inv, SrvStays, phase' = phase, calls' = calls, user' = user,
           panic' = panic, current' = Nobody
    PROVE  Inv'
<1>1. /\ Tables(table', drawn') /\ Buffers(ipcData') /\ RegistryTypes'
      /\ Knocking' /\ SrvTable' /\ SrvSessions' /\ Messages' /\ Queues'
  BY SrvFrame DEF ArrivalsStay
<1>2. Types'
  <2>1. PhaseType' /\ LoopTypes' /\ CallTypesOK'
    BY DEF Inv, Types, PhaseType, LoopTypes, CallTypesOK, SrvStays
  <2>2. QED
    BY <1>1, <2>1 DEF Types
<1>3. FewHandles'
  BY DEF Inv, FewHandles, SrvStays
<1>4. Order'
  BY Constants DEF Inv, Order, SrvStays
<1>5. Using'
  BY DEF Inv, Using, SrvStays
<1>6. Asks'
  BY DEF Inv, Asks, SrvStays
<1>7. Registry'
  <2>1. \A p \in Provider : SameRegistration(p)
    BY DEF SameRegistration, Registered, PortOf, SrvStays
  <2>2. \A p \in Provider : ProviderTable(p)'
    BY DEF Inv, Registry, ProviderTable, SrvStays
  <2>3. QED
    BY <2>1, <2>2, RegistryFrame DEF SrvStays
<1>8. \A p \in Provider : Stays(p)
  BY DEF Stays, SrvStays
<1>9. Finds'
  <2>1. \A d \in Client : phase'[d] = "answered" => Same(d)
    BY DEF Same, SrvStays
  <2>2. SessionsStay
    BY SessionsSame DEF SrvStays
  <2>3. QED
    BY <1>8, <2>1, <2>2, FindsFrame
<1>10. Connecting'
  BY DEF Inv, Connecting, Leads, First, SrvStays
<1>11. PanicsAreJustified'
  BY DEF Inv, PanicsAreJustified, SrvStays
<1>12. QED
  BY <1>1, <1>2, <1>3, <1>4, <1>5, <1>6, <1>7, <1>9, <1>10, <1>11 DEF Inv

LEMMA YieldStep ==
    ASSUME Inv, NEW c \in Client, Yield(c)
    PROVE  Inv'
<1>1. /\ SrvStays /\ phase' = phase /\ calls' = calls /\ user' = user /\ panic' = panic
      /\ current' = Nobody
  BY DEF Yield, SrvStays, ipcVars, registryVars, clientVars
<1>2. QED
  BY <1>1, SliceStep

LEMMA ConnectingFrame ==
    ASSUME Inv, \A p \in Provider : Stays(p), sessions' = sessions, stage' = stage,
           serving' = serving, serving # Nobody => asked'[serving] = asked[serving],
           \A p \in Provider : phase'[p] = "accepting" <=> phase[p] = "accepting"
    PROVE  Connecting'
<1>1. SessionsStay
  BY SessionsSame
<1>2. ASSUME stage = "connecting"
      PROVE  /\ Len(sessions) >= 1
             /\ \E p \in Provider : phase'[p] = "accepting" /\ First(p, asked[serving].word)'
  <2>1. PICK p \in Provider : phase[p] = "accepting" /\ First(p, asked[serving].word)
    BY <1>2 DEF Inv, Connecting
  <2>2. PICK word : word = asked[serving].word
    OBVIOUS
  <2>3. First(p, word)'
    BY <2>1, <2>2, FirstKept
  <2>4. asked'[serving].word = word
    BY <1>2, <2>2 DEF Inv, Order
  <2>5. First(p, asked[serving].word)'
    BY <2>3, <2>4 DEF First
  <2>6. QED
    BY <1>2, <2>1, <2>5 DEF Inv, Connecting
<1>3. ASSUME NEW p \in Provider, phase'[p] = "accepting"
      PROVE  table'[p][3] = Obj("server port", sessions'[Len(sessions')])
  <2>1. phase[p] = "accepting"
    BY <1>3
  <2>2. table[p][3] = Obj("server port", sessions[Len(sessions)])
    BY <2>1 DEF Inv, Connecting
  <2>3. 3 \in DOMAIN table[p]
    BY <2>1 DEF Inv, Registry, ProviderTable
  <2>4. table'[p][3] = table[p][3]
    BY <2>1, <2>3 DEF Stays
  <2>5. QED
    BY <2>2, <2>4
<1>4. ASSUME stage' = "connected" \/ (stage' = "reply" /\ asked'[serving].call = "GetServiceHandle")
      PROVE  Len(sessions') >= 1 /\ Leads(Len(sessions), asked[serving].word)'
  <2>1. serving # Nobody
    BY <1>4 DEF Inv, Order
  <2>2. PICK word : word = asked[serving].word
    OBVIOUS
  <2>3. PICK n : n = Len(sessions)
    OBVIOUS
  <2>4. n >= 1 /\ Leads(n, word)
    BY <1>4, <2>1, <2>2, <2>3 DEF Inv, Connecting
  <2>5. n \in 1..Len(sessions)
    <3>1. \A x \in Nat : x >= 1 => x \in 1..x
      OBVIOUS
    <3>2. QED
      BY <1>1, <2>3, <2>4, <3>1, Zenon DEF SessionsStay
  <2>6. Leads(n, word)'
    BY <1>1, <2>4, <2>5, LeadsKept
  <2>7. asked'[serving].word = word /\ Len(sessions') = n
    BY <2>1, <2>2, <2>3
  <2>8. QED
    BY <2>4, <2>6, <2>7 DEF Leads, First
<1>5. QED
  BY <1>2, <1>3, <1>4 DEF Connecting

LEMMA ContinueStep ==
    ASSUME Inv, NEW c \in Client, Continue(c), panic = "none"
    PROVE  Inv'
<1>1. phase[c] = "answered" /\ Runs(c) /\ c \in Process /\ c # Nobody
  BY Constants DEF Continue
<1>a. /\ SrvStays /\ calls' = calls /\ user' = user
      /\ current' = (IF c \in Provider THEN Nobody ELSE c)
  BY DEF Continue, SrvStays, ipcVars, registryVars
<1>b. c \in App => stage = "waiting" /\ serving = Nobody /\ \A p \in Provider : phase[p] = "serving"
  BY <1>1, AppRuns
<1>c. phase' = [phase EXCEPT ![c] = IF c \in Provider THEN "serving" ELSE "idle"] /\ PhaseType
  BY DEF Inv, Types, Continue
<1>d. /\ phase'[c] = (IF c \in Provider THEN "serving" ELSE "idle")
      /\ \A d \in Client : d # c => phase'[d] = phase[d]
  BY <1>c DEF PhaseType
<1>e. (c \in Provider \/ c \in App) /\ (c \in Provider => c \notin App)
  BY Constants DEF Client
<1>f. Provider \subseteq Client /\ App \subseteq Client /\ Provider \cap App = {}
  BY Constants
<1>2. panic' = "none"
  <2>1. SUFFICES ASSUME asked[c].call \in {"RegisterService", "GetServiceHandle"}
                 PROVE  Answer(c) # NoHandle
    BY DEF Continue
  <2>2. PICK h \in DOMAIN table[c] : GivenTo(c, h)
    BY <1>1, <2>1 DEF Inv, Finds
  <2>3. PICK params : params = Read(ipcData[c], TRUE).params
    OBVIOUS
  <2>4. params = <<HandleParam(TRUE, FALSE, <<h>>)>>
    BY <2>2, <2>3 DEF GivenTo, Moved
  <2>5. Len(params) = 1 /\ params[1] = HandleParam(TRUE, FALSE, <<h>>)
    BY <2>4
  <2>6. params[1].handles = <<h>>
    BY <2>5 DEF HandleParam
  <2>7. Len(<<h>>) = 1 /\ <<h>>[1] = h
    OBVIOUS
  <2>8. Answer(c) = h
    BY <2>3, <2>5, <2>6, <2>7, Zenon DEF Answer
  <2>9. HandleTable(table[c], drawn[c])
    BY <1>1 DEF Inv, Types, Tables
  <2>10. h \in 1..drawn[c]
    BY <2>2, <2>9, Zenon DEF HandleTable
  <2>11. h # 0
    BY <2>10
  <2>12. QED
    BY <2>8, <2>11, Zenon DEF NoHandle
<1>g. ArrivalsStay
  BY <1>1, <1>d DEF ArrivalsStay
<1>3. /\ Tables(table', drawn') /\ Buffers(ipcData') /\ RegistryTypes'
      /\ Knocking' /\ SrvTable' /\ SrvSessions' /\ Messages' /\ Queues'
  BY <1>a, <1>g, SrvFrame
<1>4. Types'
  <2>1. PhaseType'
    BY <1>c DEF PhaseType
  <2>2. LoopTypes'
    BY <1>1, <1>2, <1>a DEF Inv, Types, LoopTypes, SrvStays
  <2>3. CallTypesOK'
    BY <1>a DEF Inv, Types, CallTypesOK, SrvStays
  <2>4. QED
    BY <1>3, <2>1, <2>2, <2>3 DEF Types
<1>5. FewHandles'
  <2>1. \A a \in App : phase'[a] = "asking" <=> phase[a] = "asking"
    BY <1>1, <1>d, <1>e, <1>f
  <2>2. \A a \in App : phase'[a] = "start" <=> phase[a] = "start"
    BY <1>f, <1>g DEF ArrivalsStay
  <2>3. QED
    BY <1>a, <2>1, <2>2 DEF Inv, FewHandles, SrvStays
<1>6. Order'
  <2>0. Order /\ stage' = stage /\ serving' = serving
    BY <1>a DEF Inv, SrvStays
  <2>1. /\ stage' \in {"waiting", "knocked"} <=> serving' = Nobody
        /\ current' # Nobody => current' = Srv \/ current' \in App
    BY <1>a, <1>e, <2>0 DEF Order
  <2>2. serving' # Nobody => phase'[serving'] = "asking"
    <3>1. serving # Nobody => serving \in Client /\ serving # c
      BY <1>1, <2>0 DEF Inv, Types, LoopTypes, Order
    <3>2. QED
      BY <1>d, <2>0, <3>1 DEF Order
  <2>3. \A d \in Client : phase'[d] = "asking" => serving' = d
    BY <1>d, <2>0 DEF Order
  <2>4. current' = Srv => stage' \notin {"waiting", "knocked"}
    BY <1>a, Constants
  <2>5. current' \in App => stage' = "waiting" /\ \A p \in Provider : phase'[p] = "serving"
    BY <1>a, <1>b, <1>d, <1>e, <1>f, <2>0, Constants
  <2>6. \A p \in Provider : /\ phase'[p] # "using" /\ (phase'[p] = "accepting" => stage' = "connecting")
                           /\ (phase'[p] = "busy" => stage' = "waiting")
    BY <1>d, <1>f, <2>0 DEF Order
  <2>7. \A a \in App : phase'[a] \in AppPhase
    BY <1>d, <1>e, <1>f, <2>0 DEF Order
  <2>8. ASSUME NEW a \in App, phase'[a] # "start", NEW p \in Provider
        PROVE  phase'[p] \in {"serving", "accepting", "busy"}
    <3>1. phase[a] # "start" /\ a \in Client /\ p \in Client
      BY <1>f, <1>g, <2>8 DEF ArrivalsStay
    <3>2. phase[p] \in {"serving", "accepting", "busy"}
      BY <2>0, <3>1 DEF Order
    <3>3. QED
      BY <1>1, <1>d, <3>1, <3>2
  <2>9. ASSUME NEW p \in Provider, NEW q \in Provider, p < q, phase'[p] \in New
        PROVE  phase'[q] = "start"
    <3>1. p # c /\ phase[p] \in New
      BY <1>d, <1>f, <2>9
    <3>2. phase[q] = "start"
      BY <2>0, <2>9, <3>1 DEF Order
    <3>3. q # c
      BY <1>1, <3>2
    <3>4. QED
      BY <1>d, <1>f, <3>2, <3>3
  <2>10. QED
    BY <2>1, <2>2, <2>3, <2>4, <2>5, <2>6, <2>7, <2>8, <2>9 DEF Order
<1>7. Using'
  <2>1. \A p \in Provider : phase'[p] = "busy" <=> phase[p] = "busy"
    BY <1>1, <1>d, <1>f
  <2>2. \A a \in App : phase'[a] = "using" <=> phase[a] = "using"
    BY <1>1, <1>d, <1>e, <1>f
  <2>3. Using
    BY DEF Inv
  <2>4. QED
    BY <1>a, <2>1, <2>2, <2>3 DEF Using
<1>8. Asks'
  BY <1>1, <1>a, <1>d, <1>e DEF Inv, Asks, SrvStays
<1>9. \A p \in Provider : phase'[p] \in New <=> phase[p] \in New
  BY <1>1, <1>d, <1>f
<1>10. Registry'
  <2>0. \A p \in Provider : phase'[p] = "asking" <=> phase[p] = "asking"
    BY <1>1, <1>d, <1>f
  <2>1. \A p \in Provider : SameRegistration(p)
    BY <1>a, <1>9, <2>0 DEF SameRegistration, Registered, PortOf, SrvStays
  <2>2. \A p \in Provider : ProviderTable(p)'
    BY <1>a, <1>f, <1>g, <1>9, ProviderTableFrame DEF SrvStays, ArrivalsStay
  <2>3. QED
    BY <1>a, <2>1, <2>2, RegistryFrame DEF SrvStays
<1>11. \A p \in Provider : Stays(p)
  BY <1>a, <1>9 DEF Stays, SrvStays
<1>12. Finds'
  <2>1. \A d \in Client : phase'[d] = "answered" => Same(d)
    BY <1>a, <1>d DEF Same, SrvStays
  <2>2. SessionsStay
    BY <1>a, SessionsSame DEF SrvStays
  <2>3. QED
    BY <1>11, <2>1, <2>2, FindsFrame
<1>13. Connecting'
  <2>1. \A p \in Provider : phase'[p] = "accepting" <=> phase[p] = "accepting"
    BY <1>1, <1>d, <1>f
  <2>2. QED
    BY <1>a, <1>11, <2>1, ConnectingFrame DEF SrvStays
<1>14. PanicsAreJustified'
  BY <1>2 DEF PanicsAreJustified
<1>15. QED
  BY <1>3, <1>4, <1>5, <1>6, <1>7, <1>8, <1>10, <1>12, <1>13, <1>14 DEF Inv

\* A session is used, or no longer: nobody's call of srv is touched.
ProviderMoves(p) == phase'[p] = phase[p] \/ {phase[p], phase'[p]} \subseteq {"serving", "busy"}
AppMoves(a) == phase'[a] = phase[a] \/ {phase[a], phase'[a]} \subseteq {"idle", "using"}
AppsLast == \A a \in App : phase[a] # "start" =>
                \A p \in Provider : phase[p] \in {"serving", "accepting", "busy"}

LEMMA UsingStep ==
    ASSUME Inv, SrvStays, current' = Nobody, panic' = panic, panic = "none", PhaseType', CallTypesOK',
           \A p \in Provider : ProviderMoves(p), \A a \in App : AppMoves(a),
           AppsLast', Using', \A p \in Provider : phase'[p] = "busy" => stage = "waiting",
           \A a \in App : calls'[a] \in Nat /\ calls[a] \in Nat /\ calls[a] <= calls'[a]
    PROVE  Inv'
<1>g. ArrivalsStay
  <2>1. ASSUME NEW c \in Client
        PROVE  /\ phase'[c] = "start" <=> phase[c] = "start"
               /\ phase'[c] = "connecting" <=> phase[c] = "connecting"
    BY DEF ProviderMoves, AppMoves, Client
  <2>2. QED
    BY <2>1 DEF ArrivalsStay
<1>3. /\ Tables(table', drawn') /\ Buffers(ipcData') /\ RegistryTypes'
      /\ Knocking' /\ SrvTable' /\ SrvSessions' /\ Messages' /\ Queues'
  BY <1>g, SrvFrame
<1>4. Types'
  <2>2. LoopTypes'
    BY DEF Inv, Types, LoopTypes, SrvStays
  <2>4. QED
    BY <1>3, <2>2 DEF Types
<1>a. \A p \in Provider : /\ phase'[p] \in New <=> phase[p] \in New
                          /\ phase'[p] = "asking" <=> phase[p] = "asking"
                          /\ phase'[p] = "start" <=> phase[p] = "start"
                          /\ phase'[p] = "accepting" <=> phase[p] = "accepting"
                          /\ phase'[p] = "answered" <=> phase[p] = "answered"
                          /\ phase'[p] = "using" <=> phase[p] = "using"
  BY DEF ProviderMoves
<1>b. \A a \in App : /\ phase'[a] = "asking" <=> phase[a] = "asking"
                     /\ phase'[a] = "answered" <=> phase[a] = "answered"
                     /\ phase'[a] \in {"idle", "using"} <=> phase[a] \in {"idle", "using"}
  BY DEF AppMoves
<1>c. \A c \in Client : /\ phase'[c] = "asking" <=> phase[c] = "asking"
                        /\ phase'[c] = "answered" <=> phase[c] = "answered"
                        /\ c \in Provider => (phase'[c] \notin New <=> phase[c] \notin New)
  BY <1>a, <1>b DEF Client
<1>5. FewHandles'
  <2>1. ASSUME NEW a \in App
        PROVE  /\ drawn'[a] + (IF phase'[a] = "asking" THEN 1 ELSE 0) <= calls'[a] + 2
               /\ phase'[a] = "start" => drawn'[a] = 0
    <3>1. /\ drawn[a] + (IF phase[a] = "asking" THEN 1 ELSE 0) <= calls[a] + 2 /\ drawn[a] \in Nat
          /\ drawn'[a] = drawn[a] /\ (phase[a] = "start" => drawn[a] = 0)
      BY Constants DEF Inv, FewHandles, Types, Tables, SrvStays
    <3>2. PICK x \in Nat : x = drawn[a] + (IF phase[a] = "asking" THEN 1 ELSE 0)
      BY <3>1
    <3>3. x <= calls'[a] + 2
      BY <3>1, <3>2
    <3>4. phase'[a] = "start" => phase[a] = "start"
      BY <1>g, Constants DEF ArrivalsStay
    <3>5. QED
      BY <1>b, <3>1, <3>2, <3>3, <3>4
  <2>2. QED
    BY <2>1 DEF FewHandles
<1>6. Order'
  <2>0. Order /\ stage' = stage /\ serving' = serving
    BY DEF Inv, SrvStays
  <2>2. serving' # Nobody => phase'[serving'] = "asking"
    BY <1>c, <2>0 DEF Inv, Types, LoopTypes, Order
  <2>3. \A d \in Client : phase'[d] = "asking" => serving' = d
    BY <1>c, <2>0 DEF Order
  <2>6. \A p \in Provider : /\ phase'[p] # "using" /\ (phase'[p] = "accepting" => stage' = "connecting")
                           /\ (phase'[p] = "busy" => stage' = "waiting")
    BY <1>a, <2>0 DEF Order
  <2>7. \A a \in App : phase'[a] \in AppPhase
    BY <2>0 DEF Order, AppMoves
  <2>9. ASSUME NEW p \in Provider, NEW q \in Provider, p < q, phase'[p] \in New
        PROVE  phase'[q] = "start"
    BY <1>a, <2>0, <2>9 DEF Order
  <2>10. QED
    BY <2>0, <2>2, <2>3, <2>6, <2>7, <2>9, Constants DEF Order, AppsLast
<1>8. Asks'
  BY <1>c DEF Inv, Asks, SrvStays
<1>10. Registry'
  <2>1. \A p \in Provider : SameRegistration(p)
    BY <1>a DEF SameRegistration, Registered, PortOf, SrvStays
  <2>2. \A p \in Provider : ProviderTable(p)'
    BY <1>a, ProviderTableFrame DEF SrvStays
  <2>3. QED
    BY <2>1, <2>2, RegistryFrame DEF SrvStays
<1>11. \A p \in Provider : Stays(p)
  BY <1>a DEF Stays, SrvStays
<1>12. Finds'
  <2>1. \A d \in Client : phase'[d] = "answered" => Same(d)
    BY <1>c DEF Same, SrvStays
  <2>2. SessionsStay
    BY SessionsSame DEF SrvStays
  <2>3. QED
    BY <1>11, <2>1, <2>2, FindsFrame
<1>13. Connecting'
  BY <1>a, <1>11, ConnectingFrame DEF SrvStays
<1>14. PanicsAreJustified'
  BY DEF PanicsAreJustified
<1>15. QED
  BY <1>3, <1>4, <1>5, <1>6, <1>8, <1>10, <1>12, <1>13, <1>14 DEF Inv

LEMMA UseServiceStep ==
    ASSUME Inv, NEW c \in Client, UseService(c), panic = "none"
    PROVE  Inv'
<1>1. c \in App /\ phase[c] = "idle" /\ Runs(c) /\ calls[c] < MaxCalls[c]
  BY DEF UseService
<1>2. stage = "waiting" /\ \A p \in Provider : phase[p] = "serving"
  BY <1>1, AppRuns
<1>3. PICK p \in Provider :
        /\ phase' = [phase EXCEPT ![c] = "using", ![p] = IF @ = "serving" THEN "busy" ELSE @]
        /\ user' = IF phase[p] = "serving" THEN [user EXCEPT ![p] = c] ELSE user
  BY DEF UseService
<1>4. /\ SrvStays /\ calls' = [calls EXCEPT ![c] = @ + 1] /\ current' = Nobody /\ panic' = panic
  BY DEF UseService, SrvStays, ipcVars, registryVars
<1>5. PhaseType /\ CallTypesOK
  BY DEF Inv, Types
<1>6. p # c /\ p \in Client /\ Provider \subseteq Client /\ App \subseteq Client /\ Provider \cap App = {}
  BY <1>1, Constants
<1>7. /\ phase'[c] = "using" /\ phase'[p] = "busy"
      /\ \A d \in Client : d # c /\ d # p => phase'[d] = phase[d]
  BY <1>2, <1>3, <1>5, <1>6 DEF PhaseType
<1>8. PhaseType'
  BY <1>2, <1>3, <1>5, <1>6 DEF PhaseType
<1>9. user' \in [Provider -> App \cup {Nobody}] /\ user'[p] = c /\ \A q \in Provider : q # p => user'[q] = user[q]
  BY <1>1, <1>2, <1>3, <1>5 DEF CallTypesOK
<1>10. calls' \in [Client -> Nat] /\ calls'[c] = calls[c] + 1 /\ \A d \in Client : d # c => calls'[d] = calls[d]
  BY <1>4, <1>5 DEF CallTypesOK
<1>11. CallTypesOK'
  <2>1. ASSUME NEW d \in Client PROVE calls'[d] <= MaxCalls[d]
    <3>1. calls[d] \in Nat /\ MaxCalls[d] \in Nat /\ calls[d] <= MaxCalls[d]
      BY <1>5, Constants DEF CallTypesOK
    <3>2. QED
      BY <1>1, <1>10, <3>1
  <2>2. asked' \in [Client -> [call : Call, word : Nat]]
    BY <1>4, <1>5 DEF SrvStays, CallTypesOK
  <2>3. QED
    BY <1>9, <1>10, <2>1, <2>2 DEF CallTypesOK
<1>12. \A q \in Provider : ProviderMoves(q)
  BY <1>1, <1>2, <1>6, <1>7 DEF ProviderMoves
<1>13. \A a \in App : AppMoves(a)
  BY <1>1, <1>6, <1>7 DEF AppMoves
<1>14. AppsLast'
  BY <1>1, <1>2, <1>6, <1>7 DEF AppsLast
<1>15. Using'
  <2>1. \A q \in Provider : phase'[q] = "busy" => q = p
    BY <1>2, <1>6, <1>7
  <2>2. \A a \in App : phase'[a] = "using" => a = c
    <3>1. \A a \in App : phase[a] # "using"
      BY <1>2 DEF Inv, Using
    <3>2. QED
      BY <1>6, <1>7, <3>1
  <2>3. QED
    BY <1>1, <1>7, <1>9, <2>1, <2>2 DEF Using
<1>16. \A a \in App : calls'[a] \in Nat /\ calls[a] \in Nat /\ calls[a] <= calls'[a]
  <2>1. ASSUME NEW a \in App PROVE calls'[a] \in Nat /\ calls[a] \in Nat /\ calls[a] <= calls'[a]
    <3>1. calls[a] \in Nat
      BY <1>5, <1>6 DEF CallTypesOK
    <3>2. QED
      BY <1>6, <1>10, <3>1
  <2>2. QED
    BY <2>1
<1>17. QED
  BY <1>2, <1>4, <1>8, <1>11, <1>12, <1>13, <1>14, <1>15, <1>16, UsingStep

LEMMA ServeStep ==
    ASSUME Inv, NEW c \in Client, Serve(c), panic = "none"
    PROVE  Inv'
<1>1. phase[c] = "busy" /\ phase' = [phase EXCEPT ![c] = "serving", ![user[c]] = "idle"]
      /\ user' = [user EXCEPT ![c] = Nobody]
  BY DEF Serve
<1>2. SrvStays /\ calls' = calls /\ current' = Nobody /\ panic' = panic
  BY DEF Serve, SrvStays, ipcVars, registryVars
<1>3. PhaseType /\ CallTypesOK
  BY DEF Inv, Types
<1>4. c \in Provider
  BY <1>1 DEF Inv, Order, Client
<1>5. PICK a \in App : a = user[c] /\ phase[a] = "using"
  BY <1>1, <1>4 DEF Inv, Using
<1>6. a # c /\ a \in Client /\ Provider \subseteq Client /\ App \subseteq Client /\ Provider \cap App = {}
  BY <1>4, Constants
<1>7. /\ phase'[c] = "serving" /\ phase'[a] = "idle"
      /\ \A d \in Client : d # c /\ d # a => phase'[d] = phase[d]
  BY <1>1, <1>3, <1>5, <1>6 DEF PhaseType
<1>8. PhaseType'
  BY <1>1, <1>3, <1>5, <1>6 DEF PhaseType
<1>9. user' \in [Provider -> App \cup {Nobody}] /\ \A q \in Provider : q # c => user'[q] = user[q]
  BY <1>1, <1>3, <1>4 DEF CallTypesOK
<1>11. CallTypesOK'
  BY <1>2, <1>3, <1>9 DEF SrvStays, CallTypesOK
<1>12. \A q \in Provider : ProviderMoves(q)
  BY <1>1, <1>6, <1>7 DEF ProviderMoves
<1>13. \A b \in App : AppMoves(b)
  BY <1>4, <1>5, <1>6, <1>7 DEF AppMoves
<1>14. AppsLast'
  <2>1. ASSUME NEW b \in App, phase'[b] # "start", NEW q \in Provider
        PROVE  phase'[q] \in {"serving", "accepting", "busy"}
    <3>1. phase[b] # "start"
      BY <1>4, <1>5, <1>6, <1>7, <2>1
    <3>2. phase[q] \in {"serving", "accepting", "busy"}
      BY <3>1 DEF Inv, Order
    <3>3. QED
      BY <1>6, <1>7, <3>2
  <2>2. QED
    BY <2>1 DEF AppsLast
<1>15. Using'
  <2>0. Using
    BY DEF Inv
  <2>1. ASSUME NEW q \in Provider, phase'[q] = "busy"
        PROVE  q # c /\ phase[q] = "busy" /\ user'[q] = user[q] /\ user[q] \in App /\ user[q] # a
               /\ phase'[user[q]] = "using"
    <3>1. q # c /\ phase[q] = "busy" /\ user'[q] = user[q]
      BY <1>6, <1>7, <1>9, <2>1
    <3>2. user[q] \in App /\ phase[user[q]] = "using"
      BY <2>0, <3>1 DEF Using
    <3>3. user[q] # a
      BY <1>1, <1>4, <1>5, <2>0, <3>1 DEF Using
    <3>4. QED
      BY <1>4, <1>6, <1>7, <3>1, <3>2, <3>3
  <2>2. ASSUME NEW b \in App, phase'[b] = "using"
        PROVE  \E q \in Provider : phase'[q] = "busy" /\ user'[q] = b
    <3>1. b # a /\ phase[b] = "using"
      BY <1>4, <1>6, <1>7, <2>2
    <3>2. PICK q \in Provider : phase[q] = "busy" /\ user[q] = b
      BY <2>0, <3>1 DEF Using
    <3>3. q # c
      BY <1>5, <3>1, <3>2
    <3>4. phase'[q] = "busy" /\ user'[q] = b
      BY <1>6, <1>7, <1>9, <3>2, <3>3
    <3>5. QED
      BY <3>4
  <2>3. ASSUME NEW q \in Provider, NEW r \in Provider, phase'[q] = "busy", phase'[r] = "busy",
               user'[q] = user'[r]
        PROVE  q = r
    BY <2>0, <2>1, <2>3 DEF Using
  <2>4. QED
    BY <2>1, <2>2, <2>3 DEF Using
<1>16. \A b \in App : calls'[b] \in Nat /\ calls[b] \in Nat /\ calls[b] <= calls'[b]
  BY <1>2, <1>3, <1>6 DEF CallTypesOK
<1>17. stage = "waiting"
  BY <1>1, <1>4 DEF Inv, Order
<1>18. QED
  BY <1>2, <1>8, <1>11, <1>12, <1>13, <1>14, <1>15, <1>16, <1>17, UsingStep

LEMMA CloseHandleStep ==
    ASSUME Inv, NEW c \in Client, CloseHandle(c), panic = "none"
    PROVE  Inv'
<1>1. c \in App /\ phase[c] = "idle" /\ Runs(c)
  BY DEF CloseHandle
<1>2. stage = "waiting" /\ serving = Nobody /\ \A p \in Provider : phase[p] = "serving"
  BY <1>1, AppRuns
<1>3. PICK h : table' = RemoveHandle(table, c, h)
  BY DEF CloseHandle
<1>4. /\ drawn' = drawn /\ ipcData' = ipcData /\ services' = services /\ seen' = seen
      /\ ports' = ports /\ sessions' = sessions /\ queued' = queued /\ events' = events
      /\ knocking' = knocking /\ stage' = stage /\ serving' = serving /\ asked' = asked /\ phase' = phase
      /\ calls' = calls /\ user' = user /\ panic' = panic /\ current' = c
  BY DEF CloseHandle, registryVars, clientVars
<1>5. Tables(table', drawn') /\ Removed(table, table', c, h)
  <2>1. Tables(table, drawn) /\ c \in Process
    BY Constants DEF Inv, Types
  <2>2. QED
    BY <1>3, <1>4, <2>1, RemoveHandleOK
<1>6. \A p \in Process : p # c => table'[p] = table[p]
  BY <1>5 DEF Removed
<1>7. Srv \in Process /\ Srv # c /\ Provider \subseteq Client /\ Client \subseteq Process /\ c \in Process /\ c # Nobody
  BY Constants
<1>8. \A p \in Provider : p # c /\ table'[p] = table[p]
  BY <1>1, <1>6, <1>7, Constants
<1>9. table'[Srv] = table[Srv]
  BY <1>6, <1>7
<1>10. Types'
  <2>1. Buffers(ipcData') /\ RegistryTypes' /\ PhaseType' /\ CallTypesOK'
    BY <1>4 DEF Inv, Types, RegistryTypes, PhaseType, CallTypesOK
  <2>2. LoopTypes'
    BY <1>4, <1>7 DEF Inv, Types, LoopTypes
  <2>3. QED
    BY <1>5, <2>1, <2>2 DEF Types
<1>11. FewHandles' /\ Using' /\ Asks'
  BY <1>4 DEF Inv, FewHandles, Using, Asks
<1>12. Order'
  <2>1. Order
    BY DEF Inv
  <2>2. QED
    BY <1>1, <1>2, <1>4, <1>7, <2>1 DEF Order
<1>13. Registry'
  <2>1. \A p \in Provider : SameRegistration(p)
    BY <1>4, <1>8 DEF SameRegistration, Registered, PortOf
  <2>2. ASSUME NEW p \in Provider PROVE ProviderTable(p)'
    <3>1. ProviderTable(p) /\ table'[p] = table[p]
      BY <1>8 DEF Inv, Registry
    <3>2. QED
      BY <1>4, <3>1 DEF ProviderTable
  <2>3. QED
    BY <1>4, <2>1, <2>2, RegistryFrame
<1>14. Extra' = Extra /\ ExtraObject' = ExtraObject
  BY <1>4 DEF Extra, ExtraObject
<1>a. ArrivalsStay
  BY <1>4 DEF ArrivalsStay
<1>15. SrvTable' /\ SrvSessions' /\ Knocking'
  BY <1>4, <1>5, <1>9, <1>14, <1>a, SrvTableFrame, KnockingFrame
<1>16. Messages'
  BY <1>2, <1>4 DEF Messages
<1>17. Queues'
  BY <1>4 DEF Inv, Queues
<1>18. \A p \in Provider : Stays(p)
  BY <1>4, <1>8 DEF Stays
<1>19. Finds'
  <2>1. \A d \in Client : phase'[d] = "answered" => Same(d)
    BY <1>1, <1>4, <1>6, <1>7 DEF Same
  <2>2. SessionsStay
    BY <1>4, SessionsSame
  <2>3. QED
    BY <1>18, <2>1, <2>2, FindsFrame
<1>20. Connecting'
  BY <1>4, <1>18, ConnectingFrame
<1>21. PanicsAreJustified'
  BY <1>4 DEF PanicsAreJustified
<1>22. QED
  BY <1>10, <1>11, <1>12, <1>13, <1>15, <1>16, <1>17, <1>19, <1>20, <1>21 DEF Inv

LEMMA AskStep ==
    ASSUME Inv, NEW c \in Client, Ask(c), panic = "none"
    PROVE  Inv'
<1>1. phase[c] = "idle" /\ Runs(c) /\ calls[c] < MaxCalls[c]
  BY DEF Ask
<1>2. PICK call \in CallsOf(c) : \E word \in WordsOf(call) :
          /\ asked' = [asked EXCEPT ![c] = [call |-> call, word |-> word]]
          /\ ipcData' = [ipcData EXCEPT ![c] = Over(ipcData[c], RequestOf(call, word))]
  BY DEF Ask
<1>3. PICK word \in WordsOf(call) :
          /\ asked' = [asked EXCEPT ![c] = [call |-> call, word |-> word]]
          /\ ipcData' = [ipcData EXCEPT ![c] = Over(ipcData[c], RequestOf(call, word))]
  BY <1>2
<1>a. c \in Process /\ c # Srv /\ c # Nobody /\ Srv \in Process /\ (c \in Provider \/ c \in App)
      /\ Provider \subseteq Client /\ App \subseteq Client /\ Client \subseteq Process /\ Provider \cap App = {}
  BY Constants DEF Client
<1>b. call \in Call /\ call # "none" /\ word \in Nat
  <2>1. call \in Call /\ call # "none"
    BY DEF CallsOf, Call
  <2>2. QED
    BY <2>1, CallTypes
<1>4. stage = "waiting" /\ serving = Nobody
  BY <1>1, <1>a, AppRuns, ProviderRuns
<1>5. c \in App => \A p \in Provider : phase[p] = "serving"
  BY <1>1, AppRuns
<1>6. c \in Provider => /\ \A p \in Provider : p < c => phase[p] \notin New
                        /\ \A a \in App : phase[a] = "start"
  BY <1>1, ProviderRuns
<1>7. /\ calls' = [calls EXCEPT ![c] = @ + 1] /\ phase' = [phase EXCEPT ![c] = "asking"]
      /\ stage' = "woken" /\ serving' = c /\ current' = Nobody
      /\ table' = table /\ drawn' = drawn /\ services' = services /\ seen' = seen
      /\ ports' = ports /\ sessions' = sessions /\ queued' = queued /\ events' = events
      /\ knocking' = knocking /\ user' = user /\ panic' = panic
  BY <1>4 DEF Ask, registryVars
<1>8. Tables(table, drawn) /\ Buffers(ipcData) /\ RegistryTypes /\ PhaseType /\ LoopTypes /\ CallTypesOK
  BY DEF Inv, Types
<1>9. PICK o : o = Over(ipcData[c], RequestOf(call, word))
  OBVIOUS
<1>10. PICK a : a = [call |-> call, word |-> word]
  OBVIOUS
<1>11. Requests(o, a) /\ o \in Seq(Nat) /\ Len(o) = BufferWords
  <2>1. ipcData[c] \in Seq(Nat) /\ Len(ipcData[c]) = BufferWords
    BY <1>8, <1>a DEF Buffers
  <2>2. QED
    BY <1>b, <1>9, <1>10, <2>1, AskWrites
<1>12. /\ ipcData'[c] = o /\ Buffers(ipcData')
       /\ \A p \in Process : p # c => ipcData'[p] = ipcData[p]
  BY <1>3, <1>8, <1>9, <1>11, <1>a DEF Buffers
<1>13. /\ asked'[c] = a /\ asked' \in [Client -> [call : Call, word : Nat]]
       /\ \A d \in Client : d # c => asked'[d] = asked[d]
  BY <1>3, <1>8, <1>10, <1>b DEF CallTypesOK
<1>14. phase'[c] = "asking" /\ PhaseType' /\ \A d \in Client : d # c => phase'[d] = phase[d]
  BY <1>7, <1>8 DEF PhaseType
<1>c. ArrivalsStay
  BY <1>1, <1>14 DEF ArrivalsStay
<1>15. calls' \in [Client -> Nat] /\ calls'[c] = calls[c] + 1 /\ \A d \in Client : d # c => calls'[d] = calls[d]
  BY <1>7, <1>8 DEF CallTypesOK
<1>16. CallTypesOK'
  <2>1. ASSUME NEW d \in Client PROVE calls'[d] <= MaxCalls[d]
    <3>1. calls[d] \in Nat /\ MaxCalls[d] \in Nat /\ calls[d] <= MaxCalls[d]
      BY <1>8, Constants DEF CallTypesOK
    <3>2. QED
      BY <1>1, <1>15, <3>1
  <2>2. QED
    BY <1>7, <1>8, <1>13, <1>15, <2>1 DEF CallTypesOK
<1>17. Types'
  <2>1. LoopTypes'
    BY <1>7, <1>8 DEF LoopTypes
  <2>2. RegistryTypes'
    BY <1>7, <1>8 DEF RegistryTypes
  <2>3. QED
    BY <1>7, <1>8, <1>12, <1>14, <1>16, <2>1, <2>2 DEF Types
<1>18. FewHandles'
  <2>1. ASSUME NEW d \in App
        PROVE  /\ drawn'[d] + (IF phase'[d] = "asking" THEN 1 ELSE 0) <= calls'[d] + 2
               /\ phase'[d] = "start" => drawn'[d] = 0
    <3>1. /\ drawn[d] + (IF phase[d] = "asking" THEN 1 ELSE 0) <= calls[d] + 2 /\ drawn[d] \in Nat
          /\ drawn'[d] = drawn[d] /\ calls[d] \in Nat /\ (phase[d] = "start" => drawn[d] = 0)
      BY <1>7, <1>8, <1>a DEF Inv, FewHandles, Tables, CallTypesOK
    <3>2. CASE d = c
      <4>1. drawn[d] <= calls[d] + 2
        BY <1>1, <3>1, <3>2
      <4>2. QED
        BY <1>14, <1>15, <3>1, <3>2, <4>1
    <3>3. CASE d # c
      BY <1>14, <1>15, <1>a, <3>1, <3>3
    <3>4. QED
      BY <3>2, <3>3
  <2>2. QED
    BY <2>1 DEF FewHandles
<1>19. Order'
  <2>0. Order
    BY DEF Inv
  <2>1. Nobody \notin Client /\ Nobody \notin App /\ Nobody # Srv
    BY Constants
  <2>2. \A d \in Client : phase[d] # "asking"
    BY <1>4, <2>0, <2>1 DEF Order
  <2>3. \A d \in Client : phase'[d] = "asking" => serving' = d
    BY <1>7, <1>14, <2>2
  <2>6. \A p \in Provider : phase'[p] # "using" /\ phase'[p] # "accepting"
    BY <1>4, <1>14, <1>a, <2>0 DEF Order
  <2>b. \A p \in Provider : phase'[p] # "busy"
    <3>1. \A p \in Provider : phase[p] # "busy"
      BY <1>5, <1>6, <1>a DEF Inv, Using
    <3>2. QED
      BY <1>14, <1>a, <3>1
  <2>7. \A d \in App : phase'[d] \in AppPhase
    BY <1>14, <1>a, <2>0 DEF Order
  <2>8. ASSUME NEW d \in App, phase'[d] # "start", NEW p \in Provider
        PROVE  phase'[p] \in {"serving", "accepting", "busy"}
    BY <1>5, <1>6, <1>14, <1>a, <2>0, <2>8 DEF Order
  <2>9. ASSUME NEW p \in Provider, NEW q \in Provider, p < q, phase'[p] \in New
        PROVE  phase'[q] = "start"
    <3>1. p \in Nat /\ q \in Nat /\ p # q
      BY <2>9, Constants
    <3>2. phase[p] \in New
      BY <1>1, <1>14, <1>a, <2>9
    <3>3. phase[q] = "start"
      BY <2>0, <2>9, <3>2 DEF Order
    <3>4. q # c
      BY <1>6, <2>9, <3>2
    <3>5. QED
      BY <1>14, <1>a, <3>3, <3>4
  <2>10. QED
    BY <1>7, <1>14, <1>a, <2>1, <2>3, <2>6, <2>b, <2>7, <2>8, <2>9 DEF Order
<1>20. Using'
  <2>1. \A p \in Provider : phase'[p] = "busy" <=> phase[p] = "busy"
    BY <1>1, <1>14, <1>a
  <2>2. \A d \in App : phase'[d] = "using" <=> phase[d] = "using"
    BY <1>1, <1>14, <1>a
  <2>3. Using
    BY DEF Inv
  <2>4. QED
    BY <1>7, <2>1, <2>2, <2>3 DEF Using
<1>21. Asks'
  <2>1. asked'[c].call \in CallsOf(c) /\ asked'[c].word \in WordsOf(asked'[c].call)
    BY <1>10, <1>13
  <2>2. QED
    BY <1>13, <1>14, <2>1 DEF Inv, Asks
<1>22. \A p \in Provider : phase'[p] \in New <=> phase[p] \in New
  BY <1>1, <1>14, <1>a
<1>23. Registry'
  <2>1. \A p \in Provider : SameRegistration(p)
    <3>1. \A p \in Provider : Registered(p)' = Registered(p)
      BY <1>4, <1>7, <1>22 DEF Registered
    <3>2. \A p \in Provider : Registered(p) => p # c /\ phase[p] \notin New
      BY <1>1, <1>4 DEF Registered
    <3>3. \A p \in Provider : Registered(p) => PortOf(p)' = PortOf(p) /\ asked'[p].word = asked[p].word
      BY <1>7, <1>13, <1>14, <1>a, <3>2 DEF PortOf
    <3>4. QED
      BY <3>1, <3>3 DEF SameRegistration
  <2>2. \A p \in Provider : ProviderTable(p)'
    BY <1>7, <1>a, <1>c, <1>22, ProviderTableFrame DEF ArrivalsStay
  <2>3. QED
    BY <1>7, <2>1, <2>2, RegistryFrame
<1>24. SrvTable' /\ SrvSessions' /\ Knocking'
  <2>1. Extra = NoHandle /\ Extra' = NoHandle
    BY <1>4, <1>7 DEF Extra
  <2>2. QED
    BY <1>4, <1>7, <1>8, <1>c, <2>1, SrvTableFrame, KnockingFrame
<1>25. Messages'
  BY <1>7, <1>11, <1>12, <1>13 DEF Messages
<1>26. Queues'
  BY <1>4, <1>7 DEF Inv, Queues
<1>27. \A p \in Provider : Stays(p)
  <2>1. \A p \in Provider : phase[p] \notin New => asked'[p] = asked[p]
    BY <1>1, <1>13, <1>a
  <2>2. QED
    BY <1>7, <1>22, <2>1 DEF Stays
<1>28. Finds'
  <2>1. \A d \in Client : phase'[d] = "answered" => Same(d)
    BY <1>7, <1>12, <1>13, <1>14, <1>a DEF Same
  <2>2. SessionsStay
    BY <1>7, SessionsSame
  <2>3. QED
    BY <1>27, <2>1, <2>2, FindsFrame
<1>29. Connecting'
  <2>1. \A p \in Provider : phase'[p] # "accepting"
    BY <1>4, <1>14, <1>a DEF Inv, Order
  <2>2. QED
    BY <1>7, <2>1 DEF Connecting
<1>30. PanicsAreJustified'
  BY <1>7 DEF PanicsAreJustified
<1>31. QED
  BY <1>17, <1>18, <1>19, <1>20, <1>21, <1>23, <1>24, <1>25, <1>26, <1>28, <1>29, <1>30 DEF Inv

\* No two providers have the same port.
LEMMA PortsDiffer ==
    ASSUME Inv, NEW p \in Provider, NEW q \in Provider, Registered(p), Registered(q),
           PortOf(p) = PortOf(q)
    PROVE  p = q
<1>1. p \in Nat /\ q \in Nat
  BY Constants
<1>2. PICK x \in 1..ports : x = PortOf(p)
  BY DEF Inv, Registry, Registration
<1>3. PICK n \in Nat : n = ports
  BY DEF Inv, Types, RegistryTypes
<1>4. x \in Nat /\ ~(x < x)
  BY <1>2, <1>3
<1>5. ~(p < q) /\ ~(q < p)
  <2>1. \A a, b \in Provider : Registered(a) /\ Registered(b) /\ a < b => PortOf(a) < PortOf(b)
    BY DEF Inv, Registry
  <2>2. QED
    BY <1>2, <1>4, <2>1, Zenon
<1>6. QED
  BY <1>1, <1>5

LEMMA AcceptingOne ==
    ASSUME Inv, NEW p \in Provider, NEW q \in Provider, phase[p] = "accepting", phase[q] = "accepting"
    PROVE  p = q
<1>1. Registered(p) /\ Registered(q)
  BY DEF Registered
<1>2. PICK n : n = sessions[Len(sessions)]
  OBVIOUS
<1>3. table[p][3] = Obj("server port", n) /\ table[q][3] = Obj("server port", n)
  BY <1>2 DEF Inv, Connecting
<1>4. PortOf(p) = n /\ PortOf(q) = n
  <2>1. PICK o : o = Obj("server port", n)
    OBVIOUS
  <2>2. o[2] = n
    BY <2>1 DEF Obj
  <2>3. phase[p] # "asking" /\ phase[q] # "asking"
    OBVIOUS
  <2>4. QED
    BY <1>3, <2>1, <2>2, <2>3, Zenon DEF PortOf
<1>5. QED
  BY <1>1, <1>4, PortsDiffer

LEMMA AcceptStep ==
    ASSUME Inv, NEW c \in Client, Accept(c), panic = "none"
    PROVE  Inv'
<1>1. phase[c] = "accepting"
  BY DEF Accept
<1>2. PICK i \in 1..ports :
          /\ Obj("server port", i) \in Range(table[c])
          /\ NewHandle(c, Obj("server session", Head(queued[i])))
          /\ queued' = [queued EXCEPT ![i] = Tail(@)]
  BY DEF Accept
<1>3. /\ stage' = (IF stage = "connecting" THEN "connected" ELSE stage)
      /\ phase' = [phase EXCEPT ![c] = "serving"] /\ current' = Nobody
      /\ ipcData' = ipcData /\ services' = services /\ seen' = seen /\ ports' = ports
      /\ sessions' = sessions /\ events' = events /\ knocking' = knocking
      /\ serving' = serving /\ calls' = calls
      /\ asked' = asked /\ user' = user /\ panic' = panic
  BY DEF Accept
<1>4. c \in Provider
  BY <1>1 DEF Inv, Order, Client
<1>5. stage = "connecting" /\ stage' = "connected"
  BY <1>1, <1>3, <1>4 DEF Inv, Order
<1>6. /\ c \in Process /\ c # Srv /\ c # Nobody /\ Srv \in Process /\ c \notin App
      /\ Provider \subseteq Client /\ App \subseteq Client /\ Client \subseteq Process
      /\ Nobody \notin App /\ Nobody # Srv
  BY <1>4, Constants
<1>7. Tables(table, drawn) /\ Buffers(ipcData) /\ RegistryTypes /\ PhaseType /\ LoopTypes /\ CallTypesOK
  BY DEF Inv, Types
<1>8. PICK n \in Nat : n = Len(sessions) /\ n >= 1 /\ n \in 1..n
  <2>1. Len(sessions) \in Nat
    BY <1>7 DEF RegistryTypes
  <2>2. Len(sessions) >= 1
    BY <1>5 DEF Inv, Connecting
  <2>3. \A x \in Nat : x >= 1 => x \in 1..x
    OBVIOUS
  <2>4. QED
    BY <2>1, <2>2, <2>3
<1>9. table[c][3] = Obj("server port", sessions[n])
  BY <1>1, <1>4, <1>8 DEF Inv, Connecting
<1>10. i = sessions[n]
  <2>1. PICK h \in DOMAIN table[c] : table[c][h] = Obj("server port", i)
    BY <1>2 DEF Range
  <2>2. table[c][h][1] = "server port"
    <3>1. PICK o : o = Obj("server port", i)
      OBVIOUS
    <3>2. o[1] = "server port"
      BY <3>1 DEF Obj
    <3>3. QED
      BY <2>1, <3>1, <3>2, Zenon
  <2>3. h = 3
    BY <1>1, <1>4, <2>1, <2>2 DEF Inv, Registry, ProviderTable
  <2>4. Obj("server port", i) = Obj("server port", sessions[n])
    BY <1>9, <2>1, <2>3
  <2>5. QED
    BY <2>4 DEF Obj
<1>11. queued[i] = <<n>>
  BY <1>2, <1>5, <1>8, <1>10 DEF Inv, Queues
<1>12. Head(queued[i]) = n /\ Tail(queued[i]) = <<>>
  BY <1>11
<1>a. queued' = [queued EXCEPT ![i] = <<>>]
  <2>1. PICK t : t = Tail(queued[i])
    OBVIOUS
  <2>2. queued' = [queued EXCEPT ![i] = t]
    BY <1>2, <2>1, Zenon
  <2>3. t = <<>>
    BY <1>12, <2>1, Zenon
  <2>4. QED
    BY <2>2, <2>3, Zenon
<1>13. PICK s : s = Obj("server session", n)
  OBVIOUS
<1>14. s \in Kind \X Nat
  BY <1>13 DEF Obj, Kind
<1>15. Tables(table', drawn') /\ Inserted(table, drawn, table', drawn', c, s)
  BY <1>2, <1>6, <1>7, <1>12, <1>13, <1>14, InsertedOK
<1>16. \A p \in Process : p # c => table'[p] = table[p] /\ drawn'[p] = drawn[p]
  BY <1>15 DEF Inserted
<1>17. /\ \A h \in DOMAIN table[c] : h \in DOMAIN table'[c] /\ table'[c][h] = table[c][h]
       /\ \A h \in DOMAIN table'[c] : h \in DOMAIN table[c] \/ table'[c][h] = s
       /\ \E h \in DOMAIN table'[c] : table'[c][h] = s
  BY <1>15 DEF Inserted
<1>18. phase'[c] = "serving" /\ PhaseType' /\ \A d \in Client : d # c => phase'[d] = phase[d]
  BY <1>3, <1>7 DEF PhaseType
<1>19. \A p \in Provider : phase'[p] # "accepting"
  <2>1. \A p \in Provider : phase[p] = "accepting" => p = c
    BY <1>1, <1>4, AcceptingOne
  <2>2. QED
    BY <1>6, <1>18, <2>1
<1>20. Types'
  <2>1. LoopTypes' /\ CallTypesOK' /\ Buffers(ipcData')
    BY <1>3, <1>5, <1>7 DEF LoopTypes, CallTypesOK
  <2>2. RegistryTypes'
    <3>1. queued' \in Seq(Seq(Nat)) /\ Len(queued') = Len(queued)
      <4>1. queued \in Seq(Seq(Nat)) /\ i \in 1..Len(queued)
        BY <1>2, <1>7 DEF RegistryTypes
      <4>2. PICK e \in Seq(Nat) : e = <<>>
        BY ListNone, Zenon
      <4>3. QED
        BY <1>a, <4>1, <4>2
    <3>2. QED
      BY <1>3, <1>7, <3>1 DEF RegistryTypes
  <2>3. QED
    BY <1>15, <1>18, <2>1, <2>2 DEF Types
<1>21. FewHandles'
  <2>1. \A a \in App : a # c /\ drawn'[a] = drawn[a] /\ phase'[a] = phase[a]
    BY <1>6, <1>16, <1>18
  <2>2. QED
    BY <1>3, <2>1 DEF Inv, FewHandles
<1>22. Order'
  <2>0. Order
    BY DEF Inv
  <2>1. serving' # Nobody => phase'[serving'] = "asking"
    <3>1. serving # Nobody => serving \in Client /\ phase[serving] = "asking"
      BY <1>7, <2>0 DEF LoopTypes, Order
    <3>2. QED
      BY <1>1, <1>3, <1>18, <3>1
  <2>2. stage' \in {"waiting", "knocked"} <=> serving' = Nobody
    BY <1>3, <1>5, <2>0 DEF Order
  <2>3. \A d \in Client : phase'[d] = "asking" => serving' = d
    BY <1>3, <1>18, <2>0 DEF Order
  <2>6. \A p \in Provider : phase'[p] # "using" /\ phase'[p] # "busy"
    BY <1>5, <1>6, <1>18, <2>0 DEF Order
  <2>7. \A d \in App : phase'[d] = phase[d] /\ phase[d] \in AppPhase
    BY <1>6, <1>18, <2>0 DEF Order
  <2>8. ASSUME NEW d \in App, phase'[d] # "start", NEW p \in Provider
        PROVE  phase'[p] \in {"serving", "accepting", "busy"}
    BY <1>6, <1>18, <2>0, <2>7, <2>8 DEF Order
  <2>9. ASSUME NEW p \in Provider, NEW q \in Provider, p < q, phase'[p] \in New
        PROVE  phase'[q] = "start"
    <3>1. phase[p] \in New
      BY <1>6, <1>18, <2>9
    <3>2. phase[q] = "start"
      BY <2>0, <2>9, <3>1 DEF Order
    <3>3. QED
      BY <1>1, <1>6, <1>18, <3>2
  <2>10. QED
    BY <1>3, <1>6, <1>19, <2>1, <2>2, <2>3, <2>6, <2>7, <2>8, <2>9 DEF Order
<1>23. Using'
  <2>1. \A p \in Provider : phase'[p] = "busy" <=> phase[p] = "busy"
    BY <1>1, <1>6, <1>18
  <2>2. \A d \in App : phase'[d] = "using" <=> phase[d] = "using"
    BY <1>6, <1>18
  <2>3. Using
    BY DEF Inv
  <2>4. QED
    BY <1>3, <2>1, <2>2, <2>3 DEF Using
<1>24. Asks'
  BY <1>1, <1>3, <1>18 DEF Inv, Asks
<1>25. \A p \in Provider : /\ phase'[p] \in New <=> phase[p] \in New
                           /\ phase'[p] = "asking" <=> phase[p] = "asking"
                           /\ phase'[p] = "start" <=> phase[p] = "start"
  BY <1>1, <1>6, <1>18
<1>26. \A p \in Provider : Stays(p)
  <2>1. ASSUME NEW p \in Provider, phase[p] \notin New
        PROVE  \A h \in DOMAIN table[p] : h \in DOMAIN table'[p] /\ table'[p][h] = table[p][h]
    BY <1>6, <1>16, <1>17
  <2>2. QED
    BY <1>3, <1>25, <2>1 DEF Stays
<1>27. 3 \in DOMAIN table[c] /\ table'[c][3] = table[c][3]
  <2>1. 3 \in DOMAIN table[c]
    BY <1>1, <1>4 DEF Inv, Registry, ProviderTable
  <2>2. QED
    BY <1>17, <2>1
<1>28. Registry'
  <2>1. ASSUME NEW p \in Provider PROVE SameRegistration(p)
    <3>1. Registered(p)' = Registered(p)
      BY <1>3, <1>5, <1>25 DEF Registered
    <3>2. PortOf(p)' = PortOf(p)
      BY <1>3, <1>6, <1>16, <1>25, <1>27 DEF PortOf
    <3>3. QED
      BY <1>3, <3>1, <3>2 DEF SameRegistration
  <2>2. ASSUME NEW p \in Provider PROVE ProviderTable(p)'
    <3>1. ProviderTable(p)
      BY DEF Inv, Registry
    <3>2. CASE p = c
      <4>1. phase[c] \notin New /\ phase'[c] \notin New
        BY <1>1, <1>18
      <4>2. s[1] = "server session"
        BY <1>13 DEF Obj
      <4>3. 3 \in DOMAIN table'[c] /\ table'[c][3][1] = "server port"
        BY <1>17, <1>27, <3>1, <3>2, <4>1 DEF ProviderTable
      <4>4. \A h \in DOMAIN table'[c] : h # 3 => table'[c][h][1] # "server port"
        BY <1>17, <3>1, <3>2, <4>2 DEF ProviderTable
      <4>5. QED
        BY <3>2, <4>1, <4>3, <4>4 DEF ProviderTable
    <3>3. CASE p # c
      <4>1. table'[p] = table[p] /\ drawn'[p] = drawn[p] /\ phase'[p] = phase[p]
        BY <1>6, <1>16, <1>18, <3>3
      <4>2. QED
        BY <3>1, <4>1 DEF ProviderTable
    <3>4. QED
      BY <3>2, <3>3
  <2>3. QED
    BY <1>3, <2>1, <2>2, RegistryFrame
<1>29. table'[Srv] = table[Srv] /\ Extra' = Extra /\ ExtraObject' = ExtraObject
  BY <1>3, <1>5, <1>6, <1>16 DEF Extra, ExtraObject
<1>b. ArrivalsStay
  BY <1>1, <1>18 DEF ArrivalsStay
<1>30. SrvTable' /\ SrvSessions' /\ Knocking'
  BY <1>3, <1>5, <1>15, <1>29, <1>b, SrvTableFrame, KnockingFrame
<1>31. Messages'
  BY <1>3, <1>5 DEF Inv, Messages, Requests
<1>32. Queues'
  <2>1. \A j \in 1..ports : j # i => queued[j] = <<>>
    BY <1>8, <1>10 DEF Inv, Queues
  <2>2. queued \in Seq(Seq(Nat)) /\ Len(queued) = ports
    BY <1>7 DEF RegistryTypes
  <2>3. \A j \in 1..ports : queued'[j] = <<>>
    BY <1>a, <2>1, <2>2
  <2>4. QED
    BY <1>3, <1>5, <2>3 DEF Queues
<1>33. SessionsStay
  BY <1>3, SessionsSame
<1>34. Finds'
  <2>1. \A d \in Client : phase'[d] = "answered" => Same(d)
    BY <1>3, <1>6, <1>16, <1>18 DEF Same
  <2>2. QED
    BY <1>26, <1>33, <2>1, FindsFrame
<1>35. Connecting'
  <2>1. PICK word : word = asked[serving].word
    OBVIOUS
  <2>2. First(c, word)
    <3>1. PICK p \in Provider : phase[p] = "accepting" /\ First(p, word)
      BY <1>5, <2>1 DEF Inv, Connecting
    <3>2. QED
      BY <1>1, <1>4, <3>1, AcceptingOne
  <2>3. First(c, word)'
    BY <1>1, <1>4, <1>26, <2>2, FirstKept
  <2>4. table'[c][3] = Obj("server port", sessions'[n])
    BY <1>3, <1>9, <1>27
  <2>5. Leads(n, word)'
    BY <1>4, <1>13, <1>17, <1>18, <2>3, <2>4 DEF Leads
  <2>6. Len(sessions') = n /\ asked'[serving'].word = word
    BY <1>3, <1>8, <2>1
  <2>7. Len(sessions') >= 1 /\ Leads(Len(sessions), asked[serving].word)'
    BY <1>8, <2>5, <2>6 DEF Leads, First
  <2>8. QED
    BY <1>5, <1>19, <2>7 DEF Connecting
<1>36. PanicsAreJustified'
  BY <1>3 DEF PanicsAreJustified
<1>37. QED
  BY <1>20, <1>21, <1>22, <1>23, <1>24, <1>28, <1>30, <1>31, <1>32, <1>34, <1>35, <1>36 DEF Inv

-----------------------------------------------------------------------------
(* The steps of srv *)

\* A step of srv that concerns no client yet.
SrvOnly == /\ phase' = phase /\ calls' = calls /\ asked' = asked /\ user' = user
           /\ serving' = serving /\ panic' = panic /\ sessions' = sessions
           /\ knocking' = knocking /\ current' \in {current, Srv}
           /\ \A p \in Process : p # Srv =>
                  table'[p] = table[p] /\ drawn'[p] = drawn[p] /\ ipcData'[p] = ipcData[p]

LEMMA SrvOnlyKeeps ==
    ASSUME Inv, panic = "none", SrvOnly, stage \notin {"waiting", "knocked", "connecting"},
           stage' \in {"handle", "connected", "reply"}
    PROVE  /\ PhaseType' /\ LoopTypes' /\ CallTypesOK' /\ FewHandles' /\ Order' /\ Knocking'
           /\ Using' /\ Asks' /\ Finds' /\ PanicsAreJustified' /\ ArrivalsStay
           /\ (\A p \in Provider : Stays(p)) /\ \A p \in Provider : phase'[p] # "accepting"
<1>1. /\ phase' = phase /\ calls' = calls /\ asked' = asked /\ user' = user
      /\ serving' = serving /\ panic' = panic /\ sessions' = sessions
      /\ knocking' = knocking /\ current' \in {current, Srv}
  BY DEF SrvOnly
<1>2. \A c \in Client : table'[c] = table[c] /\ drawn'[c] = drawn[c] /\ ipcData'[c] = ipcData[c]
  BY Constants DEF SrvOnly
<1>3. /\ Provider \subseteq Client /\ App \subseteq Client /\ Srv \in Process /\ Srv \notin App
      /\ Srv # Nobody
  BY Constants
<1>4. Order /\ PhaseType /\ LoopTypes /\ CallTypesOK
  BY DEF Inv, Types
<1>5. PhaseType' /\ LoopTypes' /\ CallTypesOK'
  BY <1>1, <1>3, <1>4 DEF PhaseType, LoopTypes, CallTypesOK
<1>6. FewHandles'
  BY <1>1, <1>2, <1>3 DEF Inv, FewHandles
<1>7. current' \notin App
  BY <1>1, <1>3, <1>4 DEF Order
<1>8. \A p \in Provider : phase'[p] # "accepting"
  BY <1>1, <1>4 DEF Order
<1>9. Order'
  BY <1>1, <1>3, <1>4, <1>7, <1>8 DEF Order
<1>10. Using' /\ Asks'
  BY <1>1 DEF Inv, Using, Asks
<1>11. \A p \in Provider : Stays(p)
  BY <1>1, <1>2, <1>3 DEF Stays
<1>12. Finds'
  <2>1. \A c \in Client : phase'[c] = "answered" => Same(c)
    BY <1>1, <1>2 DEF Same
  <2>2. QED
    BY <1>1, <1>11, <2>1, SessionsSame, FindsFrame
<1>13. PanicsAreJustified'
  BY <1>1 DEF PanicsAreJustified
<1>14. ArrivalsStay
  BY <1>1 DEF ArrivalsStay
<1>15. Knocking'
  BY <1>1, <1>14, KnockingFrame
<1>16. QED
  BY <1>5, <1>6, <1>8, <1>9, <1>10, <1>11, <1>12, <1>13, <1>14, <1>15

\* What srv is asked.
LEMMA AskedCall ==
    ASSUME Inv, serving # Nobody
    PROVE  /\ serving \in Client /\ serving \in Process /\ serving # Srv /\ phase[serving] = "asking"
           /\ asked[serving].call \in CallsOf(serving) /\ asked[serving].call \in Call
           /\ asked[serving].call # "none" /\ asked[serving].word \in WordsOf(asked[serving].call)
           /\ (asked[serving].call = "RegisterService" => serving \in Provider)
           /\ (asked[serving].call # "RegisterService" => serving \in App /\ serving \notin Provider)
<1>1. serving \in Client /\ phase[serving] = "asking"
  BY DEF Inv, Types, LoopTypes, Order
<1>2. /\ asked[serving].call \in CallsOf(serving)
      /\ asked[serving].word \in WordsOf(asked[serving].call)
  BY <1>1 DEF Inv, Asks
<1>3. serving \in Process /\ serving # Srv
  BY <1>1, Constants
<1>4. QED
  BY <1>1, <1>2, <1>3 DEF CallsOf, Client, Call

LEMMA ReceiveStep ==
    ASSUME Inv, Receive, panic = "none"
    PROVE  Inv'
<1>1. /\ stage = "woken" /\ stage' = "handle" /\ TranslateIpc(serving, Srv, FALSE) /\ current' = Srv
      /\ services' = services /\ seen' = seen /\ ports' = ports /\ sessions' = sessions
      /\ queued' = queued /\ events' = events /\ knocking' = knocking
      /\ serving' = serving /\ panic' = panic /\ phase' = phase /\ calls' = calls /\ asked' = asked
      /\ user' = user
  BY DEF Receive, registryVars, clientVars
<1>2. serving # Nobody
  BY <1>1 DEF Inv, Order
<1>3. PICK c \in Process : /\ c = serving /\ c \in Client /\ phase[c] = "asking"
                           /\ asked[c].call \in Call /\ asked[c].call # "none"
                           /\ asked[c].word \in WordsOf(asked[c].call)
  BY <1>2, AskedCall
<1>4. Tables(table, drawn) /\ Buffers(ipcData) /\ RegistryTypes
  BY DEF Inv, Types
<1>5. CurrentProcess \notin DOMAIN table[c]
  <2>1. HandleTable(table[c], drawn[c]) /\ drawn[c] \in Nat
    BY <1>4 DEF Tables
  <2>2. PICK n \in Nat : n = drawn[c]
    BY <2>1
  <2>3. n < CurrentProcess
    <3>1. CASE c \in Provider
      <4>1. n = 2
        BY <1>3, <2>2, <3>1 DEF Inv, Registry, ProviderTable
      <4>2. MaxCalls[c] \in Nat /\ MaxCalls[c] + 2 < CurrentProcess /\ CurrentProcess \in Nat
        BY <1>3, Constants
      <4>3. QED
        BY <4>1, <4>2
    <3>2. CASE c \in App
      <4>1. n + 1 <= calls[c] + 2 /\ calls[c] \in Nat /\ calls[c] <= MaxCalls[c]
        BY <1>3, <2>2, <3>2 DEF Inv, FewHandles, Types, CallTypesOK
      <4>2. MaxCalls[c] \in Nat /\ MaxCalls[c] + 2 < CurrentProcess /\ CurrentProcess \in Nat
        BY <1>3, Constants
      <4>3. QED
        BY <4>1, <4>2
    <3>3. QED
      BY <1>3, <3>1, <3>2 DEF Client
  <2>4. CurrentProcess \notin 1..n
    BY <2>3, Constants
  <2>5. QED
    BY <2>1, <2>2, <2>4, Zenon DEF HandleTable
<1>6. Requests(ipcData[c], asked[c])
  BY <1>1, <1>3 DEF Inv, Messages
<1>7. TranslateIpc(c, Srv, FALSE)
  BY <1>1, <1>3
<1>8. table' = table /\ drawn' = drawn /\ \E o : Arrives(Srv, o) /\ Requests(o, asked[c])
  <2>1. PICK a : a = asked[c]
    OBVIOUS
  <2>2. a.call \in Call /\ a.call # "none" /\ a.word \in WordsOf(a.call) /\ Requests(ipcData[c], a)
    BY <1>3, <1>6, <2>1
  <2>3. QED
    BY <1>4, <1>5, <1>7, <2>1, <2>2, ReceiveTakes
<1>9. PICK o : Arrives(Srv, o) /\ Requests(o, asked[c])
  BY <1>8
<1>10. /\ ipcData'[Srv] = o /\ Buffers(ipcData')
       /\ \A p \in Process : p # Srv => ipcData'[p] = ipcData[p]
  BY <1>4, <1>9, Constants DEF Arrives, Buffers
<1>11. SrvOnly
  BY <1>1, <1>8, <1>10 DEF SrvOnly
<1>12. /\ PhaseType' /\ LoopTypes' /\ CallTypesOK' /\ FewHandles' /\ Order' /\ Knocking'
       /\ Using' /\ Asks' /\ Finds' /\ PanicsAreJustified' /\ ArrivalsStay
       /\ (\A p \in Provider : Stays(p)) /\ \A p \in Provider : phase'[p] # "accepting"
  BY <1>1, <1>11, SrvOnlyKeeps
<1>13. Types'
  BY <1>1, <1>4, <1>8, <1>10, <1>12 DEF Types, RegistryTypes
<1>14. Registry'
  <2>1. \A p \in Provider : SameRegistration(p)
    BY <1>1, <1>8 DEF SameRegistration, Registered, PortOf
  <2>2. \A p \in Provider : ProviderTable(p)'
    BY <1>1, <1>8 DEF Inv, Registry, ProviderTable
  <2>3. QED
    BY <1>1, <2>1, <2>2, RegistryFrame
<1>15. SrvTable' /\ SrvSessions'
  <2>1. Extra = NoHandle /\ Extra' = NoHandle
    BY <1>1 DEF Extra
  <2>2. QED
    BY <1>1, <1>4, <1>8, <1>12, <2>1, SrvTableFrame
<1>16. Messages'
  BY <1>1, <1>3, <1>9, <1>10 DEF Messages
<1>17. Queues'
  BY <1>1 DEF Inv, Queues
<1>18. Connecting'
  BY <1>1, <1>12 DEF Connecting
<1>19. QED
  BY <1>12, <1>13, <1>14, <1>15, <1>16, <1>17, <1>18 DEF Inv

\* handle_ipc goes by the command of the call.
LEMMA CommandsDiffer ==
    ASSUME NEW call \in Call, call # "none"
    PROVE  /\ CommandOf(call) = 1 => call = "RegisterClient"
           /\ CommandOf(call) = 2 => call = "EnableNotification"
           /\ CommandOf(call) = 3 => call = "RegisterService"
           /\ CommandOf(call) = 5 => call = "GetServiceHandle"
           /\ CommandOf(call) = 9 => call = "Subscribe"
           /\ CommandOf(call) = 11 => call = "ReceiveNotification"
           /\ CommandOf(call) = 12 => call = "PublishToSubscriber"
           /\ CommandOf(call) = 13 => call = "PublishAndGetSubscriber"
  BY DEF CommandOf, Call

LEMMA HandlesCall ==
    ASSUME Inv, NEW command, NEW normal, NEW translate, Handles(command, normal, translate)
    PROVE  /\ stage = "handle" /\ serving # Nobody
           /\ command = CommandOf(asked[serving].call)
           /\ RequestNormals = NormalsOf(asked[serving].call, asked[serving].word)
<1>1. stage = "handle"
  BY DEF Handles
<1>2. serving # Nobody
  BY <1>1 DEF Inv, Order
<1>3. PICK a : a = asked[serving]
  OBVIOUS
<1>4. Requests(ipcData[Srv], a)
  BY <1>1, <1>3 DEF Inv, Messages
<1>5. PICK code : code = HeaderCode(ipcData[Srv][1])
  OBVIOUS
<1>6. code = [command |-> command, normal |-> normal, translate |-> translate]
  BY <1>5 DEF Handles
<1>7. code = [command |-> CommandOf(a.call), normal |-> Len(NormalsOf(a.call, a.word)),
              translate |-> SizeOf(a.call)]
  BY <1>4, <1>5 DEF Requests, ReadsAs
<1>8. code.command = command
  BY <1>6
<1>9. code.command = CommandOf(a.call)
  BY <1>7
<1>10. PICK m : m = Read(ipcData[Srv], FALSE)
  OBVIOUS
<1>11. m = [command |-> CommandOf(a.call), result |-> <<>>, normals |-> NormalsOf(a.call, a.word),
            params |-> ParamsOf(a.call)]
  BY <1>4, <1>10 DEF Requests, ReadsAs
<1>12. m.normals = NormalsOf(a.call, a.word)
  BY <1>11
<1>13. QED
  BY <1>1, <1>2, <1>3, <1>8, <1>9, <1>10, <1>12 DEF RequestNormals

\* srv writes a response over the request.
LEMMA Responds ==
    ASSUME Inv, stage \in {"handle", "connected"},
           NEW normals \in Seq(Nat), Len(normals) <= 2, NEW handle \in Nat,
           handle # NoHandle => normals = <<>>,
           ipcData' = [ipcData EXCEPT ![Srv] = Over(ipcData[Srv],
               ResponseWords(HeaderCode(ipcData[Srv][1]).command, normals, Given(handle)))]
    PROVE  \E o : Arrives(Srv, o) /\ Answers(o, handle)
<1>1. serving # Nobody
  BY DEF Inv, Order
<1>2. PICK a : a = asked[serving]
  OBVIOUS
<1>3. a.call \in Call /\ a.call # "none" /\ a.word \in WordsOf(a.call)
  BY <1>1, <1>2, AskedCall
<1>4. Requests(ipcData[Srv], a)
  BY <1>2 DEF Inv, Messages
<1>5. PICK code : code = HeaderCode(ipcData[Srv][1])
  OBVIOUS
<1>6. code = [command |-> CommandOf(a.call), normal |-> Len(NormalsOf(a.call, a.word)),
              translate |-> SizeOf(a.call)]
  BY <1>4, <1>5 DEF Requests, ReadsAs
<1>7. code.command = CommandOf(a.call)
  BY <1>6
<1>8. PICK command \in Nat : command = code.command
  BY <1>3, <1>7, CallTypes
<1>9. ipcData[Srv] \in Seq(Nat) /\ Len(ipcData[Srv]) = BufferWords
  BY Constants DEF Inv, Types, Buffers
<1>10. PICK o : o = Over(ipcData[Srv], ResponseWords(command, normals, Given(handle)))
  OBVIOUS
<1>11. Answers(o, handle) /\ o \in Seq(Nat) /\ Len(o) = BufferWords
  BY <1>9, <1>10, ResponseAnswers
<1>12. ipcData' = [ipcData EXCEPT ![Srv] = o]
  BY <1>5, <1>8, <1>10, Zenon
<1>13. QED
  BY <1>11, <1>12 DEF Arrives

\* A request that concerns no port is answered.
LEMMA HandlerStep ==
    ASSUME Inv, panic = "none", stage = "handle", stage' = "reply",
           asked[serving].call \notin {"RegisterService", "GetServiceHandle"},
           SrvOnly, services' = services, ports' = ports, queued' = queued,
           seen' \subseteq Notification, events' \in Nat, Tables(table', drawn'), SrvTable',
           SrvSessions',
           NEW o, Arrives(Srv, o), Answers(o, Extra')
    PROVE  Inv'
<1>1. /\ phase' = phase /\ asked' = asked /\ serving' = serving /\ sessions' = sessions
      /\ knocking' = knocking
      /\ \A p \in Process : p # Srv => table'[p] = table[p] /\ drawn'[p] = drawn[p]
  BY DEF SrvOnly
<1>2. serving # Nobody
  BY DEF Inv, Order
<1>3. serving \notin Provider
  BY <1>2, AskedCall
<1>4. Buffers(ipcData) /\ RegistryTypes
  BY DEF Inv, Types
<1>5. ipcData'[Srv] = o /\ Buffers(ipcData')
  BY <1>4, Constants DEF Arrives, Buffers
<1>6. /\ PhaseType' /\ LoopTypes' /\ CallTypesOK' /\ FewHandles' /\ Order' /\ Knocking'
      /\ Using' /\ Asks' /\ Finds' /\ PanicsAreJustified' /\ ArrivalsStay
      /\ (\A p \in Provider : Stays(p)) /\ \A p \in Provider : phase'[p] # "accepting"
  BY SrvOnlyKeeps
<1>7. Types'
  BY <1>1, <1>4, <1>5, <1>6 DEF Types, RegistryTypes
<1>8. \A p \in Provider : table'[p] = table[p] /\ drawn'[p] = drawn[p]
  BY <1>1, Constants
<1>9. Registry'
  <2>1. \A p \in Provider : SameRegistration(p)
    BY <1>1, <1>3, <1>8 DEF SameRegistration, Registered, PortOf
  <2>2. ASSUME NEW p \in Provider PROVE ProviderTable(p)'
    <3>1. ProviderTable(p) /\ table'[p] = table[p] /\ drawn'[p] = drawn[p] /\ phase'[p] = phase[p]
      BY <1>1, <1>8 DEF Inv, Registry
    <3>2. QED
      BY <3>1 DEF ProviderTable
  <2>3. QED
    BY <2>1, <2>2, RegistryFrame
<1>10. Messages'
  BY <1>5 DEF Messages
<1>11. Queues'
  BY <1>1 DEF Inv, Queues
<1>12. Connecting'
  BY <1>1, <1>6 DEF Connecting
<1>13. QED
  BY <1>6, <1>7, <1>9, <1>10, <1>11, <1>12 DEF Inv

\* The requests that are answered with words only.
LEMMA QuietStep ==
    ASSUME Inv, panic = "none", stage = "handle",
           asked[serving].call \notin {"EnableNotification", "RegisterService", "GetServiceHandle"},
           NEW normals \in Seq(Nat), Len(normals) <= 2, Respond(normals, <<>>),
           table' = table, drawn' = drawn, services' = services, ports' = ports, queued' = queued,
           sessions' = sessions, events' = events, knocking' = knocking, panic' = panic,
           seen' \subseteq Notification
    PROVE  Inv'
<1>1. /\ stage' = "reply" /\ serving' = serving /\ phase' = phase /\ calls' = calls /\ asked' = asked
      /\ user' = user /\ current' = current
      /\ ipcData' = [ipcData EXCEPT ![Srv] =
             Over(@, ResponseWords(HeaderCode(@[1]).command, normals, <<>>))]
  BY DEF Respond, clientVars
<1>2. Given(NoHandle) = <<>> /\ NoHandle \in Nat
  BY DEF Given, NoHandle
<1>3. PICK o : Arrives(Srv, o) /\ Answers(o, NoHandle)
  BY <1>1, <1>2, Responds
<1>4. Extra = NoHandle /\ Extra' = NoHandle
  BY <1>1 DEF Extra
<1>6. Tables(table', drawn') /\ events' \in Nat /\ Buffers(ipcData)
  BY DEF Inv, Types, RegistryTypes
<1>5. SrvTable' /\ SrvSessions'
  BY <1>1, <1>4, <1>6, SrvTableFrame DEF ArrivalsStay
<1>7. \A p \in Process : p # Srv => ipcData'[p] = ipcData[p]
  BY <1>3, <1>6 DEF Arrives, Buffers
<1>8. SrvOnly
  BY <1>1, <1>7 DEF SrvOnly
<1>9. QED
  BY <1>1, <1>3, <1>4, <1>5, <1>6, <1>8, HandlerStep

LEMMA NormalsTypes == /\ <<>> \in Seq(Nat) /\ Len(<<>>) <= 2
                      /\ <<518>> \in Seq(Nat) /\ Len(<<518>>) <= 2
                      /\ <<1, 1>> \in Seq(Nat) /\ Len(<<1, 1>>) <= 2
<1>1. <<>> \in Seq(Nat) /\ Len(<<>>) <= 2
  OBVIOUS
<1>2. <<518>> \in Seq(Nat) /\ Len(<<518>>) <= 2
  OBVIOUS
<1>3. <<1, 1>> \in Seq(Nat) /\ Len(<<1, 1>>) <= 2
  OBVIOUS
<1>4. QED
  BY <1>1, <1>2, <1>3, Zenon

LEMMA RegisterClientStep == ASSUME Inv, RegisterClient, panic = "none" PROVE Inv'
<1>1. /\ Handles(1, 0, 2) /\ Respond(<<>>, <<>>) /\ table' = table /\ drawn' = drawn
      /\ services' = services /\ seen' = seen /\ ports' = ports /\ sessions' = sessions
      /\ queued' = queued /\ events' = events /\ knocking' = knocking /\ panic' = panic
  BY DEF RegisterClient, registryVars
<1>2. stage = "handle" /\ asked[serving].call = "RegisterClient"
  BY <1>1, HandlesCall, AskedCall, CommandsDiffer
<1>3. seen' \subseteq Notification
  BY <1>1 DEF Inv, Types, RegistryTypes
<1>4. QED
  BY <1>1, <1>2, <1>3, NormalsTypes, QuietStep

LEMMA ReceiveNotificationStep == ASSUME Inv, ReceiveNotification, panic = "none" PROVE Inv'
<1>1. /\ Handles(11, 0, 0) /\ Respond(<<518>>, <<>>) /\ table' = table /\ drawn' = drawn
      /\ services' = services /\ seen' = seen /\ ports' = ports /\ sessions' = sessions
      /\ queued' = queued /\ events' = events /\ knocking' = knocking /\ panic' = panic
  BY DEF ReceiveNotification, registryVars
<1>2. stage = "handle" /\ asked[serving].call = "ReceiveNotification"
  BY <1>1, HandlesCall, AskedCall, CommandsDiffer
<1>3. seen' \subseteq Notification
  BY <1>1 DEF Inv, Types, RegistryTypes
<1>4. QED
  BY <1>1, <1>2, <1>3, NormalsTypes, QuietStep

LEMMA SubscribeStep == ASSUME Inv, Subscribe, panic = "none" PROVE Inv'
<1>1. /\ Handles(9, 1, 0) /\ Respond(<<>>, <<>>) /\ table' = table /\ drawn' = drawn
      /\ services' = services /\ seen' = seen \cup {RequestNormals[1]} /\ ports' = ports
      /\ sessions' = sessions /\ queued' = queued /\ events' = events /\ knocking' = knocking
      /\ panic' = panic
  BY DEF Subscribe
<1>2. /\ stage = "handle" /\ asked[serving].call = "Subscribe"
      /\ RequestNormals = NormalsOf(asked[serving].call, asked[serving].word)
      /\ asked[serving].word \in WordsOf(asked[serving].call)
  BY <1>1, HandlesCall, AskedCall, CommandsDiffer
<1>3. PICK word : word = asked[serving].word
  OBVIOUS
<1>4. RequestNormals = <<word>> /\ word \in Notification
  BY <1>2, <1>3 DEF NormalsOf, WordsOf
<1>5. RequestNormals[1] = word
  BY <1>4
<1>6. seen' \subseteq Notification
  BY <1>1, <1>4, <1>5 DEF Inv, Types, RegistryTypes
<1>7. QED
  BY <1>1, <1>2, <1>6, NormalsTypes, QuietStep

\* Nothing changes, or srv panics.
LEMMA PanicStep ==
    ASSUME Inv, SrvStays, phase' = phase, calls' = calls, user' = user, current' = current,
           PanicsAreJustified',
           panic' \in {"none", "service not found", "not implemented", "no port", "no handle"}
    PROVE  Inv'
<1>1. SrvStays /\ phase' = phase /\ calls' = calls /\ user' = user /\ current' = current
  OBVIOUS
<1>2. /\ Tables(table', drawn') /\ Buffers(ipcData') /\ RegistryTypes'
      /\ Knocking' /\ SrvTable' /\ SrvSessions' /\ Messages' /\ Queues'
  BY <1>1, SrvFrame DEF ArrivalsStay
<1>3. Types'
  <2>1. PhaseType' /\ LoopTypes' /\ CallTypesOK'
    BY <1>1 DEF Inv, Types, PhaseType, LoopTypes, CallTypesOK, SrvStays
  <2>2. QED
    BY <1>2, <2>1 DEF Types
<1>4. FewHandles' /\ Using' /\ Asks'
  <2>1. FewHandles'
    BY <1>1 DEF Inv, FewHandles, SrvStays
  <2>2. Using'
    <3>1. Using
      BY DEF Inv
    <3>2. \A p \in Provider : phase'[p] = "busy" => user'[p] \in App /\ phase'[user'[p]] = "using"
      BY <3>1 DEF Using
    <3>3. \A a \in App : phase'[a] = "using" => \E p \in Provider : phase'[p] = "busy" /\ user'[p] = a
      BY <3>1 DEF Using
    <3>4. \A p, q \in Provider : phase'[p] = "busy" /\ phase'[q] = "busy" /\ user'[p] = user'[q] => p = q
      BY <3>1 DEF Using
    <3>5. QED
      BY <3>2, <3>3, <3>4, Zenon DEF Using
  <2>3. Asks'
    BY <1>1 DEF Inv, Asks, SrvStays
  <2>4. QED
    BY <2>1, <2>2, <2>3
<1>5. Order'
  BY <1>1 DEF Inv, Order, SrvStays
<1>6. Registry'
  <2>1. \A p \in Provider : SameRegistration(p)
    BY <1>1 DEF SameRegistration, Registered, PortOf, SrvStays
  <2>2. \A p \in Provider : ProviderTable(p)'
    BY <1>1 DEF Inv, Registry, ProviderTable, SrvStays
  <2>3. QED
    BY <1>1, <2>1, <2>2, RegistryFrame DEF SrvStays
<1>7. \A p \in Provider : Stays(p)
  BY <1>1 DEF Stays, SrvStays
<1>8. Finds'
  <2>1. \A d \in Client : phase'[d] = "answered" => Same(d)
    BY <1>1 DEF Same, SrvStays
  <2>2. SessionsStay
    BY <1>1, SessionsSame DEF SrvStays
  <2>3. QED
    BY <1>7, <2>1, <2>2, FindsFrame
<1>9. Connecting'
  BY <1>1, <1>7, ConnectingFrame DEF SrvStays
<1>10. QED
  BY <1>2, <1>3, <1>4, <1>5, <1>6, <1>8, <1>9 DEF Inv

LEMMA FailsStep ==
    ASSUME Inv, NEW what, Fails(what), PanicsAreJustified',
           what \in {"service not found", "not implemented", "no port", "no handle"}
    PROVE  Inv'
<1>1. /\ SrvStays /\ phase' = phase /\ calls' = calls /\ user' = user /\ current' = current
      /\ panic' = what
  BY DEF Fails, SrvStays, ipcVars, registryVars, clientVars
<1>2. QED
  BY <1>1, PanicStep

LEMMA PublishStep ==
    ASSUME Inv, panic = "none", stage = "handle",
           asked[serving].call \in {"PublishToSubscriber", "PublishAndGetSubscriber"},
           RequestNormals = NormalsOf(asked[serving].call, asked[serving].word),
           NEW response \in Seq(Nat), Len(response) <= 2, Publish(response)
    PROVE  Inv'
<1>1. PICK word : word = asked[serving].word
  OBVIOUS
<1>2. RequestNormals = <<word>> \/ RequestNormals = <<word, 0>>
  BY <1>1 DEF NormalsOf
<1>3. RequestNormals[1] = word
  BY <1>2
<1>4. CASE RequestNormals[1] \in seen /\ Fails("not implemented")
  <2>1. panic' = "not implemented" /\ asked' = asked /\ serving' = serving /\ seen' = seen
    BY <1>4 DEF Fails, registryVars, clientVars
  <2>2. PanicsAreJustified'
    BY <1>1, <1>3, <1>4, <2>1 DEF PanicsAreJustified
  <2>3. QED
    BY <1>4, <2>2, FailsStep
<1>5. CASE /\ RequestNormals[1] \notin seen /\ Respond(response, <<>>)
           /\ UNCHANGED <<table, drawn, registryVars, panic>>
  <2>1. /\ Respond(response, <<>>) /\ table' = table /\ drawn' = drawn
        /\ services' = services /\ seen' = seen /\ ports' = ports /\ sessions' = sessions
        /\ queued' = queued /\ events' = events /\ knocking' = knocking /\ panic' = panic
    BY <1>5 DEF registryVars
  <2>2. seen' \subseteq Notification
    BY <2>1 DEF Inv, Types, RegistryTypes
  <2>3. QED
    BY <2>1, <2>2, QuietStep
<1>6. QED
  BY <1>4, <1>5 DEF Publish

LEMMA PublishSteps ==
    ASSUME Inv, PublishToSubscriber \/ PublishAndGetSubscriber, panic = "none"
    PROVE  Inv'
<1>1. CASE Handles(12, 2, 0) /\ Publish(<<>>)
  <2>1. /\ stage = "handle" /\ asked[serving].call = "PublishToSubscriber"
        /\ RequestNormals = NormalsOf(asked[serving].call, asked[serving].word)
    BY <1>1, HandlesCall, AskedCall, CommandsDiffer
  <2>2. QED
    BY <1>1, <2>1, NormalsTypes, PublishStep
<1>2. CASE Handles(13, 1, 0) /\ Publish(<<1, 1>>)
  <2>1. /\ stage = "handle" /\ asked[serving].call = "PublishAndGetSubscriber"
        /\ RequestNormals = NormalsOf(asked[serving].call, asked[serving].word)
    BY <1>2, HandlesCall, AskedCall, CommandsDiffer
  <2>2. QED
    BY <1>2, <2>1, NormalsTypes, PublishStep
<1>3. QED
  BY <1>1, <1>2 DEF PublishToSubscriber, PublishAndGetSubscriber

LEMMA SrvHasNoHandle ==
    ASSUME Inv PROVE NoHandle \notin DOMAIN table[Srv]
<1>1. PICK n : n = drawn[Srv]
  OBVIOUS
<1>2. n \in Nat /\ DOMAIN table[Srv] \subseteq 1..n
  BY <1>1, Constants DEF Inv, Types, Tables, HandleTable
<1>3. NoHandle \notin 1..n
  BY <1>2 DEF NoHandle
<1>4. QED
  BY <1>2, <1>3, Zenon

\* srv makes something that is not a session of its own.
LEMMA SessionsGain ==
    ASSUME Inv, ArrivalsStay, Tables(table', drawn'), NEW o,
           Inserted(table, drawn, table', drawn', Srv, o), o[1] # "srv server session"
    PROVE  SrvSessions'
<1>1. PICK n : n = drawn[Srv] + 1
  OBVIOUS
<1>2. /\ DOMAIN table'[Srv] = DOMAIN table[Srv] \cup {n} /\ table'[Srv][n] = o
      /\ \A h \in DOMAIN table[Srv] : table'[Srv][h] = table[Srv][h]
  BY <1>1 DEF Inserted
<1>3. \A c \in Client : o # Obj("srv server session", c)
  <2>1. ASSUME NEW c \in Client, o = Obj("srv server session", c) PROVE FALSE
    <3>1. PICK x : x = Obj("srv server session", c)
      OBVIOUS
    <3>2. x[1] = "srv server session"
      BY <3>1 DEF Obj
    <3>3. QED
      BY <2>1, <3>1, <3>2, Zenon
  <2>2. QED
    BY <2>1
<1>4. SessionsKept
  <2>1. n \notin DOMAIN table[Srv]
    BY <1>1 DEF Inserted
  <2>2. QED
    BY <1>2, <1>3, <2>1, Zenon DEF SessionsKept
<1>5. QED
  BY <1>4, SrvSessionsFrame

\* srv makes something for the caller.
LEMMA SrvGains ==
    ASSUME Inv, Extra = NoHandle, ports' = ports, services' = services, ArrivalsStay,
           Tables(table', drawn'), NEW o, Inserted(table, drawn, table', drawn', Srv, o),
           Extra' = drawn'[Srv], o = ExtraObject', o[1] # "srv server session"
    PROVE  SrvTable' /\ SrvSessions'
<1>1. /\ 1 \in DOMAIN table[Srv] /\ table[Srv][1] = Obj("srv port", 0)
      /\ \A i \in 1..ports : /\ services[i].port \in DOMAIN table[Srv]
                             /\ table[Srv][services[i].port] = Obj("client port", i)
      /\ \A h \in DOMAIN table[Srv] : h = 1 \/ h = Extra
             \/ (\E i \in 1..ports : h = services[i].port)
             \/ \E c \in Client : Accepted(c) /\ table[Srv][h] = Obj("srv server session", c)
  BY DEF Inv, SrvTable
<1>2. PICK n : n = drawn[Srv] + 1
  OBVIOUS
<1>3. /\ drawn'[Srv] = n /\ DOMAIN table'[Srv] = DOMAIN table[Srv] \cup {n}
      /\ table'[Srv][n] = o /\ \A h \in DOMAIN table[Srv] : table'[Srv][h] = table[Srv][h]
  BY <1>2 DEF Inserted
<1>5. NoHandle \notin DOMAIN table[Srv]
  BY SrvHasNoHandle
<1>6. ASSUME NEW h \in DOMAIN table'[Srv]
      PROVE  h = 1 \/ h = Extra' \/ (\E i \in 1..ports' : h = services'[i].port)
             \/ \E c \in Client : Accepted(c)' /\ table'[Srv][h] = Obj("srv server session", c)
  BY <1>1, <1>3, <1>5, AcceptedStays, Zenon
<1>7. ASSUME NEW i \in 1..ports'
      PROVE  services'[i].port \in DOMAIN table'[Srv] /\ table'[Srv][services'[i].port] = Obj("client port", i)
  BY <1>1, <1>3, Zenon
<1>8. 1 \in DOMAIN table'[Srv] /\ table'[Srv][1] = Obj("srv port", 0)
  BY <1>1, <1>3, Zenon
<1>9. Extra' \in DOMAIN table'[Srv] /\ table'[Srv][Extra'] = ExtraObject'
  BY <1>3, Zenon
<1>10. SrvTable'
  BY <1>6, <1>7, <1>8, <1>9 DEF SrvTable, Obj
<1>11. QED
  BY <1>10, SessionsGain

LEMMA EnableNotificationStep == ASSUME Inv, EnableNotification, panic = "none" PROVE Inv'
<1>1. /\ Handles(2, 0, 0) /\ events' = events + 1 /\ NewHandle(Srv, Obj("event", events'))
      /\ Respond(<<>>, Moved(drawn'[Srv]))
      /\ services' = services /\ seen' = seen /\ ports' = ports /\ sessions' = sessions
      /\ queued' = queued /\ knocking' = knocking /\ panic' = panic
  BY DEF EnableNotification
<1>2. stage = "handle" /\ asked[serving].call = "EnableNotification"
  BY <1>1, HandlesCall, AskedCall, CommandsDiffer
<1>3. Tables(table, drawn) /\ Buffers(ipcData) /\ RegistryTypes
  BY DEF Inv, Types
<1>4. seen' \subseteq Notification /\ events' \in Nat
  BY <1>1, <1>3 DEF RegistryTypes
<1>5. PICK o : o = Obj("event", events')
  OBVIOUS
<1>6. o \in Kind \X Nat
  BY <1>4, <1>5 DEF Obj, Kind
<1>7. Tables(table', drawn') /\ Inserted(table, drawn, table', drawn', Srv, o)
  BY <1>1, <1>3, <1>5, <1>6, Constants, InsertedOK
<1>8. PICK n \in Nat : n = drawn'[Srv] /\ n # NoHandle
  <2>1. drawn[Srv] \in Nat /\ drawn'[Srv] = drawn[Srv] + 1
    BY <1>3, <1>7, Constants DEF Tables, Inserted
  <2>2. QED
    BY <2>1 DEF NoHandle
<1>9. /\ stage' = "reply" /\ serving' = serving /\ phase' = phase /\ calls' = calls /\ asked' = asked
      /\ user' = user /\ current' = current
      /\ ipcData' = [ipcData EXCEPT ![Srv] =
             Over(@, ResponseWords(HeaderCode(@[1]).command, <<>>, Moved(n)))]
  BY <1>1, <1>8 DEF Respond, clientVars
<1>10. Given(n) = Moved(n)
  BY <1>8 DEF Given
<1>11. PICK b : Arrives(Srv, b) /\ Answers(b, n)
  BY <1>2, <1>9, <1>10, NormalsTypes, Responds
<1>12. Extra = NoHandle /\ Extra' = n /\ ExtraObject' = o
  BY <1>2, <1>5, <1>8, <1>9 DEF Extra, ExtraObject
<1>13. SrvTable' /\ SrvSessions'
  <2>1. ArrivalsStay
    BY <1>9 DEF ArrivalsStay
  <2>2. o[1] # "srv server session"
    BY <1>5 DEF Obj
  <2>3. QED
    BY <1>1, <1>7, <1>8, <1>12, <2>1, <2>2, SrvGains
<1>14. \A p \in Process : p # Srv => ipcData'[p] = ipcData[p]
  BY <1>3, <1>11 DEF Arrives, Buffers
<1>15. SrvOnly
  BY <1>1, <1>7, <1>9, <1>14 DEF SrvOnly, Inserted
<1>16. QED
  BY <1>1, <1>2, <1>4, <1>7, <1>9, <1>11, <1>12, <1>13, <1>15, HandlerStep

\* T and D are the tables with two handles more.
InsertedBoth(T, D, p, o, u, n) ==
    /\ \A q \in Process : q # p => T[q] = table[q] /\ D[q] = drawn[q]
    /\ D[p] = n + 2
    /\ DOMAIN T[p] = DOMAIN table[p] \cup {n + 1, n + 2}
    /\ T[p][n + 1] = o /\ T[p][n + 2] = u
    /\ \A h \in DOMAIN table[p] : T[p][h] = table[p][h]

LEMMA InsertedTwice ==
    ASSUME Tables(table, drawn), NEW p \in Process, NEW o \in Kind \X Nat, NEW u \in Kind \X Nat,
           NEW first, first = InsertHandle(table, drawn, p, o),
           NEW both, both = InsertHandle(first.table, first.drawn, p, u),
           NEW n \in Nat, n = drawn[p]
    PROVE  Tables(both.table, both.drawn) /\ InsertedBoth(both.table, both.drawn, p, o, u, n)
<1>1. PICK t : t = first.table
  OBVIOUS
<1>2. PICK d : d = first.drawn
  OBVIOUS
<1>3. Tables(t, d) /\ Inserted(table, drawn, t, d, p, o)
  BY <1>1, <1>2, InsertHandleOK
<1>4. both = InsertHandle(t, d, p, u)
  BY <1>1, <1>2
<1>5. PICK T : T = both.table
  OBVIOUS
<1>6. PICK D : D = both.drawn
  OBVIOUS
<1>7. Tables(T, D) /\ Inserted(t, d, T, D, p, u)
  BY <1>3, <1>4, <1>5, <1>6, InsertHandleOK
<1>8. (n + 1) + 1 = n + 2 /\ n + 1 # n + 2
  OBVIOUS
<1>9. /\ \A q \in Process : q # p => t[q] = table[q] /\ d[q] = drawn[q]
      /\ d[p] = n + 1 /\ DOMAIN t[p] = DOMAIN table[p] \cup {n + 1}
      /\ t[p][n + 1] = o /\ \A h \in DOMAIN table[p] : t[p][h] = table[p][h]
  BY <1>3, Zenon DEF Inserted
<1>10. /\ \A q \in Process : q # p => T[q] = t[q] /\ D[q] = d[q]
       /\ D[p] = n + 2 /\ DOMAIN T[p] = DOMAIN t[p] \cup {n + 2}
       /\ T[p][n + 2] = u /\ \A h \in DOMAIN t[p] : T[p][h] = t[p][h]
  BY <1>7, <1>8, <1>9, Zenon DEF Inserted
<1>11. DOMAIN T[p] = DOMAIN table[p] \cup {n + 1, n + 2}
  BY <1>9, <1>10
<1>12. T[p][n + 1] = o /\ \A h \in DOMAIN table[p] : T[p][h] = table[p][h]
  BY <1>9, <1>10
<1>13. \A q \in Process : q # p => T[q] = table[q] /\ D[q] = drawn[q]
  BY <1>9, <1>10
<1>14. QED
  BY <1>5, <1>6, <1>7, <1>10, <1>11, <1>12, <1>13, Zenon DEF InsertedBoth

\* The port is the next, and so is the provider.
LEMMA RegisterServiceStep == ASSUME Inv, RegisterService, panic = "none" PROVE Inv'
<1>1. /\ Handles(3, 4, 0) /\ ports' = ports + 1
      /\ services' = Append(services, [name |-> RequestNormals[1], port |-> drawn'[Srv]])
      /\ queued' = Append(queued, <<>>)
      /\ Respond(<<>>, Moved(drawn'[Srv] - 1))
      /\ seen' = seen /\ sessions' = sessions /\ events' = events
      /\ knocking' = knocking /\ panic' = panic
  BY DEF RegisterService
<1>2. /\ stage = "handle" /\ serving # Nobody /\ asked[serving].call = "RegisterService"
      /\ RequestNormals = NormalsOf(asked[serving].call, asked[serving].word)
      /\ asked[serving].word \in WordsOf(asked[serving].call)
  BY <1>1, HandlesCall, AskedCall, CommandsDiffer
<1>3. PICK c \in Provider : c = serving /\ c \in Process /\ c # Srv /\ phase[c] = "asking"
  BY <1>2, AskedCall
<1>4. PICK word \in Name : word = asked[c].word
  BY <1>2, <1>3 DEF WordsOf
<1>5. RequestNormals[1] = word
  <2>1. RequestNormals = <<word, 0, 4, 255>>
    BY <1>2, <1>3, <1>4 DEF NormalsOf
  <2>2. QED
    BY <2>1
<1>6. Tables(table, drawn) /\ Buffers(ipcData) /\ RegistryTypes
  BY DEF Inv, Types
<1>7. PICK n \in Nat : n = drawn[Srv]
  BY <1>6, Constants DEF Tables
<1>8. PICK k \in Nat : k = ports /\ Len(services) = k /\ ports' = k + 1
  BY <1>1, <1>6 DEF RegistryTypes
<1>9. PICK o \in Kind \X Nat : o = Obj("server port", k + 1)
  <2>1. PICK m \in Nat : m = k + 1
    OBVIOUS
  <2>2. PICK x : x = Obj("server port", m)
    OBVIOUS
  <2>3. x \in Kind \X Nat
    BY <2>2 DEF Obj, Kind
  <2>4. QED
    BY <2>1, <2>2, <2>3, Zenon
<1>10. PICK u \in Kind \X Nat : u = Obj("client port", k + 1)
  <2>1. PICK m \in Nat : m = k + 1
    OBVIOUS
  <2>2. PICK x : x = Obj("client port", m)
    OBVIOUS
  <2>3. x \in Kind \X Nat
    BY <2>2 DEF Obj, Kind
  <2>4. QED
    BY <2>1, <2>2, <2>3, Zenon
<1>11. /\ Tables(table', drawn')
       /\ \A q \in Process : q # Srv => table'[q] = table[q] /\ drawn'[q] = drawn[q]
       /\ drawn'[Srv] = n + 2
       /\ DOMAIN table'[Srv] = DOMAIN table[Srv] \cup {n + 1, n + 2}
       /\ table'[Srv][n + 1] = o /\ table'[Srv][n + 2] = u
       /\ \A h \in DOMAIN table[Srv] : table'[Srv][h] = table[Srv][h]
  <2>1. PICK first : first = InsertHandle(table, drawn, Srv, o)
    OBVIOUS
  <2>2. PICK both : both = InsertHandle(first.table, first.drawn, Srv, u)
    OBVIOUS
  <2>3. table' = both.table /\ drawn' = both.drawn
    BY <1>8, <1>9, <1>10, <2>1, <2>2 DEF RegisterService
  <2>4. Tables(both.table, both.drawn) /\ InsertedBoth(both.table, both.drawn, Srv, o, u, n)
    <3>1. Srv \in Process
      BY Constants
    <3>2. QED
      BY <1>6, <1>7, <2>1, <2>2, <3>1, InsertedTwice
  <2>5. QED
    BY <2>3, <2>4, Zenon DEF InsertedBoth
<1>12. PICK r \in [name : Name, port : Nat] : r.name = word /\ r.port = n + 2 /\ services' = Append(services, r)
  <2>1. PICK r : r = [name |-> word, port |-> n + 2]
    OBVIOUS
  <2>2. services' = Append(services, r)
    BY <1>1, <1>5, <1>11, <2>1
  <2>3. r \in [name : Name, port : Nat] /\ r.name = word /\ r.port = n + 2
    BY <2>1
  <2>4. QED
    BY <2>2, <2>3
<1>13. /\ services' \in Seq([name : Name, port : Nat]) /\ Len(services') = k + 1
       /\ services'[k + 1] = r /\ \A i \in 1..k : services'[i] = services[i]
  <2>1. services \in Seq([name : Name, port : Nat])
    BY <1>6 DEF RegistryTypes
  <2>2. QED
    BY <1>8, <1>12, <2>1
<1>14. /\ queued' \in Seq(Seq(Nat)) /\ Len(queued') = k + 1
       /\ queued'[k + 1] = <<>> /\ \A i \in 1..k : queued'[i] = queued[i]
  <2>1. queued \in Seq(Seq(Nat)) /\ Len(queued) = k
    BY <1>6, <1>8 DEF RegistryTypes
  <2>2. PICK e \in Seq(Nat) : e = <<>>
    BY ListNone, Zenon
  <2>3. queued' = Append(queued, e)
    BY <1>1, <2>2, Zenon
  <2>4. queued' \in Seq(Seq(Nat)) /\ Len(queued') = k + 1 /\ queued'[k + 1] = e
        /\ \A i \in 1..k : queued'[i] = queued[i]
    BY <2>1, <2>3
  <2>5. QED
    BY <2>2, <2>4, Zenon
<1>15. drawn'[Srv] - 1 = n + 1 /\ n + 1 \in Nat /\ n + 1 # NoHandle /\ n + 1 # n + 2
  BY <1>11 DEF NoHandle
<1>16. /\ stage' = "reply" /\ serving' = serving /\ phase' = phase /\ calls' = calls /\ asked' = asked
       /\ user' = user /\ current' = current
       /\ ipcData' = [ipcData EXCEPT ![Srv] =
              Over(@, ResponseWords(HeaderCode(@[1]).command, <<>>, Moved(n + 1)))]
  BY <1>1, <1>15 DEF Respond, clientVars
<1>17. Given(n + 1) = Moved(n + 1)
  BY <1>15 DEF Given
<1>18. PICK b : Arrives(Srv, b) /\ Answers(b, n + 1)
  BY <1>2, <1>15, <1>16, <1>17, NormalsTypes, Responds
<1>19. /\ ipcData'[Srv] = b /\ Buffers(ipcData')
       /\ \A p \in Process : p # Srv => ipcData'[p] = ipcData[p]
  BY <1>6, <1>18, Constants DEF Arrives, Buffers
<1>20. SrvOnly
  BY <1>1, <1>11, <1>16, <1>19 DEF SrvOnly
<1>21. /\ PhaseType' /\ LoopTypes' /\ CallTypesOK' /\ FewHandles' /\ Order' /\ Knocking'
       /\ Using' /\ Asks' /\ Finds' /\ PanicsAreJustified' /\ ArrivalsStay
       /\ (\A p \in Provider : Stays(p)) /\ \A p \in Provider : phase'[p] # "accepting"
  BY <1>2, <1>16, <1>20, SrvOnlyKeeps
<1>22. Types'
  <2>1. sessions' \in Seq(1..ports')
    <3>1. \A s \in Seq(1..k) : s \in Seq(1..(k + 1))
      <4>1. \A i \in 1..k : i \in 1..(k + 1)
        OBVIOUS
      <4>2. QED
        BY <4>1
    <3>2. QED
      BY <1>1, <1>6, <1>8, <3>1 DEF RegistryTypes
  <2>2. RegistryTypes'
    BY <1>1, <1>6, <1>8, <1>13, <1>14, <2>1 DEF RegistryTypes
  <2>3. QED
    BY <1>11, <1>19, <1>21, <2>2 DEF Types
<1>23. Extra = NoHandle /\ Extra' = n + 1 /\ ExtraObject' = o
  BY <1>2, <1>8, <1>9, <1>15, <1>16 DEF Extra, ExtraObject
<1>24. SrvTable'
  <2>1. /\ 1 \in DOMAIN table[Srv] /\ table[Srv][1] = Obj("srv port", 0)
        /\ \A i \in 1..k : /\ services[i].port \in DOMAIN table[Srv]
                           /\ table[Srv][services[i].port] = Obj("client port", i)
        /\ \A h \in DOMAIN table[Srv] : h = 1 \/ h = Extra
               \/ (\E i \in 1..k : h = services[i].port)
               \/ \E d \in Client : Accepted(d) /\ table[Srv][h] = Obj("srv server session", d)
    BY <1>8 DEF Inv, SrvTable
  <2>2. NoHandle \notin DOMAIN table[Srv]
    BY SrvHasNoHandle
  <2>3. /\ \A i \in 1..k : i \in 1..(k + 1)
        /\ \A i \in 1..(k + 1) : i \in 1..k \/ i = k + 1
        /\ k + 1 \in 1..(k + 1)
    OBVIOUS
  <2>4. ASSUME NEW h \in DOMAIN table'[Srv]
        PROVE  h = 1 \/ h = Extra' \/ (\E i \in 1..ports' : h = services'[i].port)
               \/ \E d \in Client : Accepted(d)' /\ table'[Srv][h] = Obj("srv server session", d)
    <3>1. CASE h = n + 1
      BY <1>23, <3>1
    <3>2. CASE h = n + 2
      BY <1>8, <1>12, <1>13, <2>3, <3>2, Zenon
    <3>3. CASE h \in DOMAIN table[Srv]
      <4>1. CASE h = 1
        BY <4>1
      <4>2. CASE h = Extra
        BY <1>23, <2>2, <3>3, <4>2, Zenon
      <4>3. CASE \E i \in 1..k : h = services[i].port
        <5>1. PICK i \in 1..k : h = services[i].port
          BY <4>3
        <5>2. i \in 1..ports' /\ services'[i].port = h
          BY <1>8, <1>13, <2>3, <5>1, Zenon
        <5>3. QED
          BY <5>2, Zenon
      <4>4. CASE \E d \in Client : Accepted(d) /\ table[Srv][h] = Obj("srv server session", d)
        <5>1. PICK d \in Client : Accepted(d) /\ table[Srv][h] = Obj("srv server session", d)
          BY <4>4
        <5>2. Accepted(d)' /\ table'[Srv][h] = table[Srv][h]
          BY <1>11, <1>21, <3>3, <5>1, AcceptedStays
        <5>3. QED
          BY <5>1, <5>2, Zenon
      <4>5. QED
        BY <2>1, <3>3, <4>1, <4>2, <4>3, <4>4, Zenon
    <3>4. QED
      BY <1>11, <3>1, <3>2, <3>3
  <2>5. ASSUME NEW i \in 1..ports'
        PROVE  services'[i].port \in DOMAIN table'[Srv] /\ table'[Srv][services'[i].port] = Obj("client port", i)
    <3>1. CASE i = k + 1
      <4>1. n + 2 \in DOMAIN table'[Srv]
        BY <1>11
      <4>2. services'[i].port = n + 2
        BY <1>12, <1>13, <3>1, Zenon
      <4>3. table'[Srv][n + 2] = Obj("client port", i)
        BY <1>10, <1>11, <3>1
      <4>4. QED
        BY <4>1, <4>2, <4>3, Zenon
    <3>2. CASE i \in 1..k
      <4>1. services'[i] = services[i]
        BY <1>13, <3>2, Zenon
      <4>2. PICK h : h = services[i].port
        OBVIOUS
      <4>3. h \in DOMAIN table[Srv] /\ table[Srv][h] = Obj("client port", i)
        BY <2>1, <3>2, <4>2, Zenon
      <4>4. h \in DOMAIN table'[Srv] /\ table'[Srv][h] = table[Srv][h]
        BY <1>11, <4>3
      <4>5. QED
        BY <4>1, <4>2, <4>3, <4>4, Zenon
    <3>3. QED
      BY <1>8, <2>3, <3>1, <3>2
  <2>6. 1 \in DOMAIN table'[Srv] /\ table'[Srv][1] = Obj("srv port", 0)
    BY <1>11, <2>1
  <2>7. Extra' \in DOMAIN table'[Srv] /\ table'[Srv][Extra'] = ExtraObject'
    BY <1>11, <1>23
  <2>8. QED
    BY <2>4, <2>5, <2>6, <2>7 DEF SrvTable, Obj
<1>24a. SrvSessions'
  <2>1. n + 1 \notin DOMAIN table[Srv] /\ n + 2 \notin DOMAIN table[Srv]
    <3>1. DOMAIN table[Srv] \subseteq 1..n
      BY <1>6, <1>7, Constants DEF Tables, HandleTable
    <3>2. n + 1 \notin 1..n /\ n + 2 \notin 1..n
      OBVIOUS
    <3>3. QED
      BY <3>1, <3>2, Zenon
  <2>2. o[1] = "server port" /\ u[1] = "client port"
    BY <1>9, <1>10 DEF Obj
  <2>3. "server port" # "srv server session" /\ "client port" # "srv server session"
    OBVIOUS
  <2>4. ASSUME NEW d \in Client
        PROVE  o # Obj("srv server session", d) /\ u # Obj("srv server session", d)
    <3>1. PICK x : x = Obj("srv server session", d)
      OBVIOUS
    <3>2. x[1] = "srv server session"
      BY <3>1 DEF Obj
    <3>3. QED
      BY <2>2, <2>3, <3>1, <3>2, Zenon
  <2>5. SessionsKept
    BY <1>11, <2>1, <2>4, Zenon DEF SessionsKept
  <2>6. QED
    BY <1>11, <1>21, <2>5, SrvSessionsFrame
<1>25. \A p \in Provider : table'[p] = table[p] /\ drawn'[p] = drawn[p]
  BY <1>11, Constants
<1>26. \A p \in Provider : p # c => phase[p] # "asking" /\ Registered(p)' = Registered(p) /\ PortOf(p)' = PortOf(p)
  <2>1. \A p \in Provider : p # c => phase[p] # "asking"
    BY <1>3, Constants DEF Inv, Order
  <2>2. QED
    BY <1>2, <1>3, <1>16, <1>25, <2>1 DEF Registered, PortOf
<1>27. Registered(c)' /\ PortOf(c)' = k + 1
  BY <1>3, <1>8, <1>16 DEF Registered, PortOf
<1>28. Registry'
  <2>1. \A i \in 1..k : i \in 1..(k + 1) /\ i < k + 1
    OBVIOUS
  <2>2. /\ \A p \in Provider : Registered(p) => PortOf(p) \in 1..k /\ services[PortOf(p)].name = asked[p].word
        /\ \A i \in 1..k : \E p \in Provider : Registered(p) /\ PortOf(p) = i
        /\ \A p, q \in Provider : Registered(p) /\ Registered(q) /\ p < q => PortOf(p) < PortOf(q)
    BY <1>8 DEF Inv, Registry, Registration
  <2>3. ASSUME NEW p \in Provider PROVE Registration(p)'
    <3>1. CASE p = c
      <4>1. PortOf(p)' \in 1..ports' /\ services'[PortOf(p)'] = r
        BY <1>8, <1>13, <1>27, <3>1
      <4>2. QED
        BY <1>4, <1>12, <1>16, <3>1, <4>1 DEF Registration
    <3>2. CASE p # c
      <4>1. ASSUME Registered(p)'
            PROVE  PortOf(p)' \in 1..ports' /\ services'[PortOf(p)'].name = asked'[p].word
        <5>1. PICK i \in 1..k : i = PortOf(p) /\ services[i].name = asked[p].word
          BY <1>26, <2>2, <3>2, <4>1
        <5>2. PortOf(p)' = i
          BY <1>26, <3>2, <5>1
        <5>3. QED
          BY <1>8, <1>13, <1>16, <2>1, <5>1, <5>2
      <4>2. QED
        BY <4>1 DEF Registration
    <3>3. QED
      BY <3>1, <3>2
  <2>4. ASSUME NEW p \in Provider PROVE ProviderTable(p)'
    <3>1. ProviderTable(p) /\ table'[p] = table[p] /\ drawn'[p] = drawn[p] /\ phase'[p] = phase[p]
      BY <1>16, <1>25 DEF Inv, Registry
    <3>2. QED
      BY <3>1 DEF ProviderTable
  <2>5. ASSUME NEW i \in 1..ports' PROVE \E p \in Provider : Registered(p)' /\ PortOf(p)' = i
    <3>1. CASE i = k + 1
      BY <1>27, <3>1
    <3>2. CASE i \in 1..k
      <4>1. PICK p \in Provider : Registered(p) /\ PortOf(p) = i
        BY <2>2, <3>2
      <4>2. p # c
        BY <1>2, <1>3, <4>1 DEF Registered
      <4>3. QED
        BY <1>26, <4>1, <4>2
    <3>3. QED
      BY <1>8, <3>1, <3>2
  <2>6. ASSUME NEW p \in Provider, NEW q \in Provider, Registered(p)', Registered(q)', p < q
        PROVE  PortOf(p)' < PortOf(q)'
    <3>1. CASE p = c
      <4>1. phase[q] = "start" /\ q # c
        <5>1. p \in Nat /\ q \in Nat
          BY Constants
        <5>2. p # q
          BY <2>6, <5>1
        <5>3. QED
          BY <1>3, <2>6, <3>1, <5>2 DEF Inv, Order
      <4>2. ~Registered(q)'
        BY <1>3, <1>16, <4>1 DEF Registered
      <4>3. QED
        BY <2>6, <4>2
    <3>2. CASE p # c /\ q = c
      <4>1. Registered(p) /\ PortOf(p)' = PortOf(p)
        BY <1>26, <2>6, <3>2
      <4>2. PortOf(p) < k + 1
        BY <2>1, <2>2, <4>1
      <4>3. QED
        BY <1>27, <3>2, <4>1, <4>2
    <3>3. CASE p # c /\ q # c
      BY <1>26, <2>2, <2>6, <3>3
    <3>4. QED
      BY <3>1, <3>2, <3>3
  <2>7. QED
    BY <2>3, <2>4, <2>5, <2>6 DEF Registry
<1>29. Messages'
  BY <1>16, <1>18, <1>19, <1>23 DEF Messages
<1>30. Queues'
  <2>1. \A i \in 1..(k + 1) : i \in 1..k \/ i = k + 1
    OBVIOUS
  <2>2. \A i \in 1..k : queued[i] = <<>>
    BY <1>2, <1>8 DEF Inv, Queues
  <2>3. \A i \in 1..ports' : queued'[i] = <<>>
    BY <1>8, <1>14, <2>1, <2>2
  <2>4. QED
    BY <1>16, <2>3 DEF Queues
<1>31. Connecting'
  BY <1>2, <1>16, <1>21 DEF Connecting
<1>32. QED
  BY <1>21, <1>22, <1>24, <1>28, <1>29, <1>30, <1>31, <1>24a DEF Inv

\* A provider that serves has one port, and it is its own.
LEMMA OwnPort ==
    ASSUME Inv, NEW p \in Provider, phase[p] \notin New, NEW i
    PROVE  /\ Obj("server port", i) \in Range(table[p]) => PortOf(p) = i
           /\ PortOf(p) = i => table[p][3] = Obj("server port", i) /\ Obj("server port", i) \in Range(table[p])
<1>1. /\ 3 \in DOMAIN table[p] /\ table[p][3][1] = "server port"
      /\ \A h \in DOMAIN table[p] : h # 3 => table[p][h][1] # "server port"
  BY DEF Inv, Registry, ProviderTable
<1>2. PICK x : x = table[p][3]
  OBVIOUS
<1>3. PortOf(p) = x[2]
  BY <1>2 DEF PortOf
<1>4. PICK o : o = Obj("server port", i)
  OBVIOUS
<1>5. o = <<"server port", i>> /\ o[1] = "server port" /\ o[2] = i
  BY <1>4 DEF Obj
<1>6. x = <<x[1], x[2]>>
  <2>1. HandleTable(table[p], drawn[p])
    BY Constants DEF Inv, Types, Tables
  <2>2. x \in Kind \X Nat
    BY <1>1, <1>2, <2>1 DEF HandleTable
  <2>3. QED
    BY <2>2
<1>7. ASSUME o \in Range(table[p]) PROVE x[2] = i
  <2>1. PICK h \in DOMAIN table[p] : table[p][h] = o
    BY <1>7 DEF Range
  <2>3. h = 3
    BY <1>1, <1>5, <2>1, Zenon
  <2>4. QED
    BY <1>2, <1>5, <2>1, <2>3, Zenon
<1>8. ASSUME x[2] = i PROVE x = o /\ o \in Range(table[p])
  <2>1. x = o
    BY <1>1, <1>2, <1>5, <1>6, <1>8
  <2>2. QED
    BY <1>1, <1>2, <2>1 DEF Range
<1>9. QED
  BY <1>2, <1>3, <1>4, <1>7, <1>8, Zenon

\* While srv handles an app's request every provider waits for sessions.
LEMMA ProvidersServe ==
    ASSUME Inv, stage \in {"handle", "reply", "woken"}, serving \in App
    PROVE  \A p \in Provider : phase[p] = "serving" /\ Registered(p)
<1>1. phase[serving] = "asking"
  BY Constants DEF Inv, Order
<1>2. \A p \in Provider : phase[p] \in {"serving", "accepting", "busy"}
  BY <1>1 DEF Inv, Order
<1>3. \A p \in Provider : phase[p] = "serving"
  BY <1>2 DEF Inv, Order
<1>4. QED
  BY <1>3 DEF Registered

\* find_service finds the service that was registered first, if there is one.
LEMMA FirstService ==
    ASSUME Inv, stage = "handle", serving \in App, NEW name
    PROVE  /\ FindService(name) = {} => \A p \in Provider : asked[p].word # name
           /\ \A i \in FindService(name) : i \in 1..ports /\
                  \E p \in Provider : PortOf(p) = i /\ First(p, name)
<1>1. PICK k \in Nat : k = ports /\ Len(services) = k
  BY DEF Inv, Types, RegistryTypes
<1>2. \A p \in Provider : PortOf(p) \in 1..k /\ services[PortOf(p)].name = asked[p].word
  BY <1>1, ProvidersServe DEF Inv, Registry, Registration
<1>3. FindService(name) = {i \in 1..k : /\ services[i].name = name
                                        /\ \A j \in 1..(i - 1) : services[j].name # name}
  BY <1>1 DEF FindService
<1>4. ASSUME NEW p \in Provider, asked[p].word = name PROVE FindService(name) # {}
  <2>1. PICK S : S = {i \in 1..k : services[i].name = name}
    OBVIOUS
  <2>2. S \in SUBSET Nat /\ PortOf(p) \in S
    BY <1>2, <1>4, <2>1
  <2>3. PICK m \in S : \A i \in S : m <= i
    BY <2>2, LeastNumber
  <2>4. m \in 1..k /\ services[m].name = name
    BY <2>1, <2>3
  <2>5. ASSUME NEW j \in 1..(m - 1) PROVE services[j].name # name
    <3>1. j \in 1..k /\ ~(m <= j)
      BY <2>4
    <3>2. QED
      BY <2>1, <2>3, <3>1
  <2>6. QED
    BY <1>3, <2>4, <2>5
<1>5. ASSUME NEW i \in FindService(name)
      PROVE  i \in 1..ports /\ \E p \in Provider : PortOf(p) = i /\ First(p, name)
  <2>1. i \in 1..k /\ services[i].name = name /\ \A j \in 1..(i - 1) : services[j].name # name
    BY <1>3, <1>5
  <2>2. PICK p \in Provider : PortOf(p) = i /\ Registered(p)
    BY <1>1, <2>1 DEF Inv, Registry
  <2>3. asked[p].word = name
    BY <1>2, <2>1, <2>2
  <2>4. ASSUME NEW q \in Provider, q < p PROVE asked[q].word # name
    <3>1. PICK j \in 1..k : j = PortOf(q) /\ services[j].name = asked[q].word
      BY <1>2
    <3>2. j < i
      BY <2>2, <2>4, <3>1, ProvidersServe DEF Inv, Registry
    <3>3. j \in 1..(i - 1)
      BY <2>1, <3>1, <3>2
    <3>4. QED
      BY <2>1, <3>1, <3>3
  <2>5. QED
    BY <1>1, <2>1, <2>2, <2>3, <2>4 DEF First
<1>6. QED
  BY <1>4, <1>5

\* A session for port i is made and queued, and the provider that waits is woken.
Connects(i) ==
    /\ sessions' = Append(sessions, i)
    /\ queued' = [queued EXCEPT ![i] = Append(@, Len(sessions'))]
    /\ NewHandle(Srv, Obj("client session", Len(sessions')))
    /\ phase' = [c \in Client |->
           IF phase[c] = "serving" /\ Obj("server port", i) \in Range(table[c])
           THEN "accepting" ELSE phase[c]]
    /\ stage' = "connecting" /\ current' = Nobody
    /\ UNCHANGED <<ipcData, services, seen, ports, events, knocking, serving, calls, asked, user,
                   panic>>

LEMMA ConnectStep ==
    ASSUME Inv, panic = "none", stage = "handle", serving \in App,
           asked[serving].call = "GetServiceHandle",
           NEW i \in 1..ports, NEW p \in Provider, PortOf(p) = i, First(p, asked[serving].word),
           Connects(i)
    PROVE  Inv'
<1>a. /\ stage' = "connecting" /\ current' = Nobody
      /\ ipcData' = ipcData /\ services' = services /\ seen' = seen /\ ports' = ports
      /\ events' = events /\ knocking' = knocking /\ serving' = serving
      /\ calls' = calls /\ asked' = asked
      /\ user' = user /\ panic' = panic
  BY DEF Connects
<1>b. sessions' = Append(sessions, i) /\ NewHandle(Srv, Obj("client session", Len(sessions')))
  BY DEF Connects
<1>c. queued' = [queued EXCEPT ![i] = Append(queued[i], Len(sessions'))]
  BY DEF Connects
<1>d. phase' = [c \in Client |-> IF phase[c] = "serving" /\ Obj("server port", i) \in Range(table[c])
                                THEN "accepting" ELSE phase[c]]
  BY DEF Connects
<1>1. Tables(table, drawn) /\ Buffers(ipcData) /\ RegistryTypes /\ PhaseType /\ LoopTypes /\ CallTypesOK
  BY DEF Inv, Types
<1>2. /\ Provider \subseteq Client /\ App \subseteq Client /\ Client \subseteq Process
      /\ Provider \cap App = {} /\ Srv \in Process /\ \A c \in Client : c # Srv
      /\ Nobody # Srv /\ Nobody \notin App
  BY Constants
<1>3. \A q \in Provider : phase[q] = "serving" /\ Registered(q)
  BY ProvidersServe
<1>4. PICK n \in Nat : n = Len(sessions)
  BY <1>1 DEF RegistryTypes
<1>5. /\ sessions' \in Seq(1..ports) /\ Len(sessions') = n + 1 /\ sessions'[n + 1] = i
      /\ \A m \in 1..n : sessions'[m] = sessions[m]
  <2>1. PICK S : S = 1..ports
    OBVIOUS
  <2>2. PICK s \in Seq(S) : s = sessions /\ Len(s) = n
    BY <1>1, <1>4, <2>1, Zenon DEF RegistryTypes
  <2>3. PICK u : u = Append(s, i)
    OBVIOUS
  <2>4. i \in S
    BY <2>1
  <2>5. u \in Seq(S) /\ Len(u) = n + 1 /\ u[n + 1] = i /\ \A m \in 1..n : u[m] = s[m]
    BY <2>2, <2>3, <2>4
  <2>6. sessions' = u
    BY <1>b, <2>2, <2>3, Zenon
  <2>7. QED
    BY <2>1, <2>2, <2>5, <2>6, Zenon
<1>6. PICK o : o = Obj("client session", n + 1)
  OBVIOUS
<1>7. o \in Kind \X Nat
  <2>1. PICK m \in Nat : m = n + 1
    OBVIOUS
  <2>2. o = Obj("client session", m)
    BY <1>6, <2>1
  <2>3. QED
    BY <2>2 DEF Obj, Kind
<1>8. Tables(table', drawn') /\ Inserted(table, drawn, table', drawn', Srv, o)
  BY <1>1, <1>2, <1>5, <1>6, <1>7, <1>b, InsertedOK
<1>9. \A c \in Client : table'[c] = table[c] /\ drawn'[c] = drawn[c]
  BY <1>2, <1>8 DEF Inserted
<1>10. table[p][3] = Obj("server port", i) /\ Obj("server port", i) \in Range(table[p])
  BY <1>3, OwnPort
<1>11. \A q \in Provider : Obj("server port", i) \in Range(table[q]) => q = p
  <2>1. ASSUME NEW q \in Provider, Obj("server port", i) \in Range(table[q]) PROVE q = p
    <3>1. PortOf(q) = i
      BY <1>3, <2>1, OwnPort
    <3>2. QED
      BY <1>3, <3>1, PortsDiffer
  <2>2. QED
    BY <2>1
<1>12. \A a \in App : phase[a] \in AppPhase
  BY DEF Inv, Order
<1>13. /\ phase'[p] = "accepting" /\ PhaseType'
       /\ \A c \in Client : c # p => phase'[c] = phase[c]
  <2>1. \A c \in Client : phase'[c] = IF phase[c] = "serving" /\ Obj("server port", i) \in Range(table[c])
                                      THEN "accepting" ELSE phase[c]
    BY <1>d
  <2>2. phase'[p] = "accepting"
    BY <1>2, <1>3, <1>10, <2>1
  <2>3. ASSUME NEW c \in Client, c # p PROVE phase'[c] = phase[c]
    BY <1>11, <1>12, <2>1, <2>3 DEF Client
  <2>4. PhaseType'
    BY <1>1, <1>d DEF PhaseType
  <2>5. QED
    BY <2>2, <2>3, <2>4
<1>14. \A q \in Provider : phase'[q] \in {"serving", "accepting"}
  BY <1>2, <1>3, <1>13
<1>15. \A a \in App : a # p /\ phase'[a] = phase[a]
  BY <1>2, <1>13
<1>16. queued[i] = <<>> /\ \A j \in 1..ports : queued[j] = <<>>
  BY DEF Inv, Queues
<1>17. queued' = [queued EXCEPT ![i] = <<n + 1>>]
  <2>1. PICK s : s = Append(queued[i], Len(sessions'))
    OBVIOUS
  <2>2. queued' = [queued EXCEPT ![i] = s]
    BY <1>c, <2>1, Zenon
  <2>3. s = <<n + 1>>
    BY <1>5, <1>16, <2>1
  <2>4. QED
    BY <2>2, <2>3, Zenon
<1>18. queued \in Seq(Seq(Nat)) /\ Len(queued) = ports /\ ports \in Nat
  BY <1>1 DEF RegistryTypes
<1>19. PICK s \in Seq(Nat) : s = <<n + 1>>
  <2>1. n + 1 \in Nat
    OBVIOUS
  <2>2. QED
    BY <2>1, ListOne, Zenon
<1>20. /\ queued' \in Seq(Seq(Nat)) /\ Len(queued') = ports /\ queued'[i] = s
       /\ \A j \in 1..ports : j # i => queued'[j] = queued[j]
  <2>1. queued' = [queued EXCEPT ![i] = s]
    BY <1>17, <1>19, Zenon
  <2>2. QED
    BY <1>18, <2>1
<1>21. Types'
  <2>1. LoopTypes' /\ CallTypesOK' /\ Buffers(ipcData')
    BY <1>1, <1>a DEF LoopTypes, CallTypesOK
  <2>2. RegistryTypes'
    BY <1>1, <1>5, <1>20, <1>a DEF RegistryTypes
  <2>3. QED
    BY <1>8, <1>13, <2>1, <2>2 DEF Types
<1>22. FewHandles'
  BY <1>2, <1>9, <1>15, <1>a DEF Inv, FewHandles
<1>23. Order'
  <2>0. Order
    BY DEF Inv
  <2>1. serving' # Nobody /\ phase'[serving'] = "asking"
    BY <1>2, <1>15, <1>a, <2>0 DEF Order
  <2>2. \A c \in Client : phase'[c] = "asking" => serving' = c
    BY <1>13, <1>a, <2>0 DEF Order
  <2>3. \A a \in App : phase'[a] \in AppPhase
    BY <1>12, <1>15
  <2>4. QED
    BY <1>2, <1>14, <1>a, <2>1, <2>2, <2>3 DEF Order
<1>24. Using'
  <2>1. \A q \in Provider : phase'[q] # "busy" /\ phase[q] # "busy"
    BY <1>3, <1>14
  <2>2. \A a \in App : phase'[a] # "using"
    BY <1>15, <2>1 DEF Inv, Using
  <2>3. QED
    BY <2>1, <2>2 DEF Using
<1>25. Asks'
  <2>1. phase[p] = "serving"
    BY <1>3
  <2>2. QED
    BY <1>13, <1>a, <2>1 DEF Inv, Asks
<1>26. serving \notin Provider
  BY <1>2
<1>27. Registry'
  <2>1. ASSUME NEW q \in Provider PROVE SameRegistration(q)
    <3>1. Registered(q) /\ Registered(q)'
      BY <1>3, <1>14 DEF Registered
    <3>2. PortOf(q)' = PortOf(q)
      BY <1>2, <1>3, <1>9, <1>14 DEF PortOf
    <3>3. QED
      BY <1>a, <3>1, <3>2 DEF SameRegistration
  <2>2. ASSUME NEW q \in Provider PROVE ProviderTable(q)'
    <3>1. ProviderTable(q) /\ table'[q] = table[q]
      BY <1>2, <1>9 DEF Inv, Registry
    <3>2. phase[q] \notin New /\ phase'[q] \notin New
      BY <1>3, <1>14
    <3>3. QED
      BY <3>1, <3>2 DEF ProviderTable
  <2>3. QED
    BY <1>a, <2>1, <2>2, RegistryFrame
<1>28. Extra = NoHandle /\ Extra' = drawn'[Srv] /\ ExtraObject' = o
  BY <1>5, <1>6, <1>a DEF Extra, ExtraObject
<1>28a. ArrivalsStay
  BY <1>3, <1>13 DEF ArrivalsStay
<1>29. SrvTable' /\ SrvSessions'
  <2>1. o[1] # "srv server session"
    BY <1>6 DEF Obj
  <2>2. QED
    BY <1>8, <1>28, <1>28a, <1>a, <2>1, SrvGains
<1>29a. Knocking'
  BY <1>28a, <1>a, KnockingFrame
<1>30. Messages'
  BY <1>a DEF Inv, Messages, Requests
<1>31. Queues'
  <2>1. sessions'[Len(sessions')] = i /\ Len(sessions') = n + 1
    BY <1>5
  <2>2. queued'[i] = <<n + 1>> /\ \A j \in 1..ports : j # i => queued'[j] = <<>>
    BY <1>16, <1>19, <1>20
  <2>3. QED
    BY <1>a, <2>1, <2>2 DEF Queues
<1>32. \A q \in Provider : Stays(q)
  BY <1>2, <1>9, <1>14, <1>a DEF Stays
<1>33. SessionsStay
  <2>1. n <= n + 1 /\ n + 1 \in Nat
    OBVIOUS
  <2>2. QED
    BY <1>4, <1>5, <2>1, Zenon DEF SessionsStay
<1>34. Finds'
  <2>1. \A c \in Client : phase'[c] = "answered" => Same(c)
    BY <1>9, <1>13, <1>a DEF Same
  <2>2. QED
    BY <1>32, <1>33, <2>1, FindsFrame
<1>35. Connecting'
  <2>1. First(p, asked[serving].word)'
    <3>1. PICK word : word = asked[serving].word
      OBVIOUS
    <3>2. First(p, word)'
      BY <1>3, <1>32, <3>1, FirstKept
    <3>3. QED
      BY <1>a, <3>1, <3>2 DEF First
  <2>2. Len(sessions') >= 1
    BY <1>5
  <2>3. ASSUME NEW q \in Provider, phase'[q] = "accepting"
        PROVE  table'[q][3] = Obj("server port", sessions'[Len(sessions')])
    <3>1. q = p
      <4>1. q # p => phase'[q] = phase[q]
        BY <1>2, <1>13
      <4>2. QED
        BY <1>3, <2>3, <4>1
    <3>2. table'[q] = table[q]
      BY <1>2, <1>9
    <3>3. QED
      BY <1>5, <1>10, <3>1, <3>2
  <2>4. \E q \in Provider : phase'[q] = "accepting" /\ First(q, asked[serving].word)'
    BY <1>13, <2>1
  <2>5. QED
    BY <1>a, <2>2, <2>3, <2>4 DEF Connecting
<1>36. PanicsAreJustified'
  BY <1>a DEF PanicsAreJustified
<1>37. QED
  BY <1>21, <1>22, <1>23, <1>24, <1>25, <1>27, <1>29, <1>30, <1>31, <1>34, <1>35, <1>36, <1>29a DEF Inv

LEMMA GetServiceHandleStep == ASSUME Inv, GetServiceHandle, panic = "none" PROVE Inv'
<1>1. Handles(5, 4, 0)
  BY DEF GetServiceHandle
<1>2. /\ stage = "handle" /\ serving # Nobody /\ asked[serving].call = "GetServiceHandle"
      /\ RequestNormals = NormalsOf(asked[serving].call, asked[serving].word) /\ serving \in App
  BY <1>1, HandlesCall, AskedCall, CommandsDiffer
<1>3. PICK word : word = asked[serving].word
  OBVIOUS
<1>4. RequestNormals[1] = word
  <2>1. RequestNormals = <<word, 0, 4, 0>>
    BY <1>2, <1>3 DEF NormalsOf
  <2>2. QED
    BY <2>1
<1>5. CASE FindService(word) = {} /\ Fails("service not found")
  <2>1. /\ panic' = "service not found" /\ asked' = asked /\ serving' = serving /\ phase' = phase
    BY <1>5 DEF Fails, clientVars
  <2>2. \A p \in Provider : asked[p].word # word /\ phase[p] = "serving"
    BY <1>2, <1>5, FirstService, ProvidersServe
  <2>3. PanicsAreJustified'
    BY <1>3, <2>1, <2>2 DEF PanicsAreJustified
  <2>4. QED
    BY <1>5, <2>3, FailsStep
<1>6. ASSUME NEW i \in FindService(word)
      PROVE  LET handle == services[i].port
                 port == table[Srv][handle][2]
             IN  handle \in DOMAIN table[Srv] /\ table[Srv][handle][1] = "client port" /\ port = i
  <2>1. i \in 1..ports
    BY <1>2, FirstService
  <2>2. PICK h \in DOMAIN table[Srv] : h = services[i].port /\ table[Srv][h] = Obj("client port", i)
    BY <2>1 DEF Inv, SrvTable
  <2>3. PICK o : o = Obj("client port", i)
    OBVIOUS
  <2>4. o[1] = "client port" /\ o[2] = i
    BY <2>3 DEF Obj
  <2>5. QED
    BY <2>2, <2>3, <2>4, Zenon
<1>7. CASE \E i \in FindService(word) : Connects(i)
  <2>1. PICK i \in FindService(word) : Connects(i)
    BY <1>7
  <2>2. i \in 1..ports /\ \E p \in Provider : PortOf(p) = i /\ First(p, word)
    BY <1>2, FirstService
  <2>3. PICK p \in Provider : PortOf(p) = i /\ First(p, word)
    BY <2>2
  <2>4. First(p, asked[serving].word)
    BY <1>3, <2>3
  <2>5. QED
    BY <1>2, <2>1, <2>2, <2>3, <2>4, ConnectStep
<1>8. QED
  BY <1>4, <1>5, <1>6, <1>7 DEF GetServiceHandle, Connects

\* srv has drawn handles.
LEMMA SrvDraws ==
    ASSUME Inv
    PROVE  drawn[Srv] \in Nat /\ drawn[Srv] # NoHandle
<1>1. HandleTable(table[Srv], drawn[Srv]) /\ drawn[Srv] \in Nat /\ 1 \in DOMAIN table[Srv]
  BY Constants DEF Inv, Types, Tables, SrvTable
<1>2. PICK n \in Nat : n = drawn[Srv]
  BY <1>1
<1>3. 1 \in 1..n
  BY <1>1, <1>2, Zenon DEF HandleTable
<1>4. n # 0
  BY <1>3
<1>5. QED
  BY <1>2, <1>4 DEF NoHandle

LEMMA ConnectedStep == ASSUME Inv, Connected, panic = "none" PROVE Inv'
<1>1. /\ stage = "connected" /\ stage' = "reply" /\ current' = Srv
      /\ ipcData' = [ipcData EXCEPT ![Srv] =
             Over(@, ResponseWords(HeaderCode(@[1]).command, <<>>, Moved(drawn[Srv])))]
      /\ table' = table /\ drawn' = drawn /\ services' = services /\ seen' = seen /\ ports' = ports
      /\ sessions' = sessions /\ queued' = queued /\ events' = events /\ knocking' = knocking
      /\ serving' = serving
      /\ phase' = phase /\ calls' = calls /\ asked' = asked /\ user' = user /\ panic' = panic
  BY DEF Connected, registryVars, clientVars
<1>2. serving # Nobody /\ asked[serving].call = "GetServiceHandle"
  BY <1>1 DEF Inv, Order, Messages
<1>3. serving \notin Provider
  BY <1>2, AskedCall
<1>4. PICK n \in Nat : n = drawn[Srv] /\ n # NoHandle
  BY SrvDraws
<1>5. Given(n) = Moved(n)
  BY <1>4 DEF Given
<1>6. PICK b : Arrives(Srv, b) /\ Answers(b, n)
  BY <1>1, <1>4, <1>5, NormalsTypes, Responds
<1>7. Tables(table, drawn) /\ Buffers(ipcData) /\ RegistryTypes
  BY DEF Inv, Types
<1>8. /\ ipcData'[Srv] = b /\ Buffers(ipcData')
      /\ \A p \in Process : p # Srv => ipcData'[p] = ipcData[p]
  BY <1>6, <1>7, Constants DEF Arrives, Buffers
<1>9. SrvOnly
  BY <1>1, <1>8 DEF SrvOnly
<1>10. /\ PhaseType' /\ LoopTypes' /\ CallTypesOK' /\ FewHandles' /\ Order' /\ Knocking'
       /\ Using' /\ Asks' /\ Finds' /\ PanicsAreJustified' /\ ArrivalsStay
       /\ (\A p \in Provider : Stays(p)) /\ \A p \in Provider : phase'[p] # "accepting"
  BY <1>1, <1>9, SrvOnlyKeeps
<1>11. Types'
  BY <1>1, <1>7, <1>8, <1>10 DEF Types, RegistryTypes
<1>12. Registry'
  <2>1. \A p \in Provider : SameRegistration(p)
    BY <1>1, <1>3 DEF SameRegistration, Registered, PortOf
  <2>2. \A p \in Provider : ProviderTable(p)'
    BY <1>1 DEF Inv, Registry, ProviderTable
  <2>3. QED
    BY <1>1, <2>1, <2>2, RegistryFrame
<1>13. Extra = n /\ Extra' = n /\ ExtraObject' = ExtraObject
  BY <1>1, <1>2, <1>4 DEF Extra, ExtraObject
<1>14. SrvTable' /\ SrvSessions'
  <2>1. Tables(table', drawn')
    BY <1>1, <1>7
  <2>2. QED
    BY <1>1, <1>10, <1>13, <2>1, SrvTableFrame
<1>15. Messages'
  BY <1>1, <1>6, <1>8, <1>13 DEF Messages
<1>16. Queues'
  BY <1>1 DEF Inv, Queues
<1>17. Connecting'
  <2>1. PICK k : k = Len(sessions)
    OBVIOUS
  <2>2. PICK word : word = asked[serving].word
    OBVIOUS
  <2>3. k >= 1 /\ Leads(k, word)
    BY <1>1, <2>1, <2>2 DEF Inv, Connecting
  <2>4. k \in 1..Len(sessions)
    <3>1. k \in Nat
      BY <1>7, <2>1 DEF RegistryTypes
    <3>2. \A x \in Nat : x >= 1 => x \in 1..x
      OBVIOUS
    <3>3. QED
      BY <2>1, <2>3, <3>1, <3>2, Zenon
  <2>5. Leads(k, word)'
    BY <1>1, <1>10, <2>3, <2>4, SessionsSame, LeadsKept
  <2>6. Len(sessions') = k /\ asked'[serving'].word = word
    BY <1>1, <2>1, <2>2
  <2>7. Len(sessions') >= 1 /\ Leads(Len(sessions), asked[serving].word)'
    BY <2>3, <2>5, <2>6 DEF Leads, First
  <2>8. QED
    BY <1>1, <1>10, <2>7 DEF Connecting
<1>18. QED
  BY <1>10, <1>11, <1>12, <1>14, <1>15, <1>16, <1>17 DEF Inv

\* The handle that leaves with a response.
LEMMA ExtraIs ==
    ASSUME Inv, stage = "reply"
    PROVE  IF asked[serving].call \in {"RegisterService", "EnableNotification", "GetServiceHandle"}
           THEN Extra \in Nat /\ Extra # NoHandle /\ Extra \in DOMAIN table[Srv] /\ table[Srv][Extra] = ExtraObject
           ELSE Extra = NoHandle
<1>1. PICK n \in Nat : n = drawn[Srv] /\ n # 0
  BY SrvDraws DEF NoHandle
<1>2. CASE asked[serving].call = "RegisterService"
  <2>1. Extra = n - 1
    BY <1>1, <1>2 DEF Extra
  <2>2. serving # Nobody
    BY DEF Inv, Order
  <2>3. serving \in Provider /\ phase[serving] = "asking"
    BY <1>2, <2>2, AskedCall
  <2>4. Registered(serving) /\ PortOf(serving) = ports
    BY <2>3 DEF Registered, PortOf
  <2>5. ports \in 1..ports
    BY <2>3, <2>4 DEF Inv, Registry, Registration
  <2>6. PICK h \in DOMAIN table[Srv] : table[Srv][h] = Obj("client port", ports)
    BY <2>5 DEF Inv, SrvTable
  <2>7. h # 1
    <3>1. table[Srv][1] = Obj("srv port", 0)
      BY DEF Inv, SrvTable
    <3>2. Obj("srv port", 0) # Obj("client port", ports)
      BY DEF Obj
    <3>3. QED
      BY <2>6, <3>1, <3>2
  <2>8. h \in 1..n
    <3>1. HandleTable(table[Srv], n)
      BY <1>1, Constants DEF Inv, Types, Tables
    <3>2. QED
      BY <3>1 DEF HandleTable
  <2>9. n - 1 \in Nat /\ n - 1 # 0
    BY <2>7, <2>8
  <2>10. QED
    BY <1>2, <2>1, <2>9 DEF Inv, SrvTable, NoHandle
<1>3. CASE asked[serving].call \in {"EnableNotification", "GetServiceHandle"}
  <2>1. Extra = n
    BY <1>1, <1>3 DEF Extra
  <2>2. QED
    BY <1>1, <1>3, <2>1 DEF Inv, SrvTable, NoHandle
<1>4. CASE asked[serving].call \notin {"RegisterService", "EnableNotification", "GetServiceHandle"}
  BY <1>4 DEF Extra
<1>5. QED
  BY <1>2, <1>3, <1>4

\* What the response does to the tables.
Replied(c, extra, o) ==
    /\ Tables(table', drawn') /\ Arrives(c, o)
    /\ \A q \in Process : q # Srv /\ q # c => table'[q] = table[q] /\ drawn'[q] = drawn[q]
    /\ DOMAIN table'[Srv] = DOMAIN table[Srv] \ {extra}
    /\ \A h \in DOMAIN table'[Srv] : table'[Srv][h] = table[Srv][h]
    /\ \A h \in DOMAIN table[c] : h \in DOMAIN table'[c] /\ table'[c][h] = table[c][h]
    /\ extra = NoHandle => table'[c] = table[c] /\ drawn'[c] = drawn[c]
    /\ extra # NoHandle => /\ drawn'[c] = drawn[c] + 1
                           /\ DOMAIN table'[c] = DOMAIN table[c] \cup {drawn[c] + 1}
                           /\ table'[c][drawn[c] + 1] = ExtraObject
                           /\ Read(o, TRUE).params = Moved(drawn[c] + 1)

LEMMA ReplyDoes ==
    ASSUME Inv, stage = "reply", NEW c \in Client, c = serving, TranslateIpc(Srv, c, TRUE)
    PROVE  \E o : Replied(c, Extra, o)
<1>1. Tables(table, drawn) /\ Buffers(ipcData)
  BY DEF Inv, Types
<1>2. c \in Process /\ c # Srv /\ Srv \in Process
  BY Constants
<1>3. PICK x : x = Extra
  OBVIOUS
<1>4. Answers(ipcData[Srv], x)
  BY <1>3 DEF Inv, Messages
<1>5. CASE x = NoHandle
  <2>1. table' = table /\ drawn' = drawn /\ \E o : Arrives(c, o)
    BY <1>1, <1>2, <1>4, <1>5, ReplyNothing
  <2>2. NoHandle \notin DOMAIN table[Srv]
    BY SrvHasNoHandle
  <2>3. PICK o : Arrives(c, o)
    BY <2>1
  <2>4. DOMAIN table'[Srv] = DOMAIN table[Srv] \ {x}
    BY <1>5, <2>1, <2>2
  <2>5. Replied(c, x, o)
    BY <1>1, <1>5, <2>1, <2>3, <2>4 DEF Replied
  <2>6. QED
    BY <1>3, <2>5
<1>6. CASE x # NoHandle
  <2>1. x \in Nat /\ x \in DOMAIN table[Srv] /\ table[Srv][x] = ExtraObject
    BY <1>3, <1>6, ExtraIs
  <2>2. table[Srv][x] \in Kind \X Nat
    BY <1>1, <1>2, <2>1 DEF Tables, HandleTable
  <2>3. /\ Tables(table', drawn')
        /\ \E t : /\ Removed(table, t, Srv, x)
                  /\ Inserted(t, drawn, table', drawn', c, table[Srv][x])
        /\ \E o : Arrives(c, o) /\ Read(o, TRUE).params = Moved(drawn[c] + 1)
    BY <1>1, <1>2, <1>4, <1>6, <2>1, <2>2, ReplyMoves
  <2>4. PICK t : /\ Removed(table, t, Srv, x)
                 /\ Inserted(t, drawn, table', drawn', c, table[Srv][x])
    BY <2>3
  <2>5. PICK o : Arrives(c, o) /\ Read(o, TRUE).params = Moved(drawn[c] + 1)
    BY <2>3
  <2>6. /\ \A q \in Process : q # Srv => t[q] = table[q]
        /\ DOMAIN t[Srv] = DOMAIN table[Srv] \ {x}
        /\ \A h \in DOMAIN t[Srv] : t[Srv][h] = table[Srv][h]
    BY <2>4, Zenon DEF Removed
  <2>7. /\ \A q \in Process : q # c => table'[q] = t[q] /\ drawn'[q] = drawn[q]
        /\ drawn'[c] = drawn[c] + 1 /\ DOMAIN table'[c] = DOMAIN t[c] \cup {drawn[c] + 1}
        /\ table'[c][drawn[c] + 1] = table[Srv][x] /\ \A h \in DOMAIN t[c] : table'[c][h] = t[c][h]
    BY <2>4, Zenon DEF Inserted
  <2>8. t[c] = table[c] /\ table'[Srv] = t[Srv]
    BY <1>2, <2>6, <2>7
  <2>9. \A q \in Process : q # Srv /\ q # c => table'[q] = table[q] /\ drawn'[q] = drawn[q]
    BY <2>6, <2>7
  <2>10. \A h \in DOMAIN table[c] : h \in DOMAIN table'[c] /\ table'[c][h] = table[c][h]
    BY <2>7, <2>8
  <2>11. Replied(c, x, o)
    BY <1>6, <2>1, <2>3, <2>5, <2>6, <2>7, <2>8, <2>9, <2>10, Zenon DEF Replied
  <2>12. QED
    BY <1>3, <2>11
<1>7. QED
  BY <1>5, <1>6

LEMMA ReplyStep == ASSUME Inv, Reply, panic = "none" PROVE Inv'
<1>1. /\ stage = "reply" /\ TranslateIpc(Srv, serving, TRUE)
      /\ phase' = [phase EXCEPT ![serving] = "answered"]
      /\ stage' = "waiting" /\ serving' = Nobody /\ current' = Nobody
      /\ services' = services /\ seen' = seen /\ ports' = ports /\ sessions' = sessions
      /\ queued' = queued /\ events' = events /\ knocking' = knocking
      /\ calls' = calls /\ asked' = asked /\ user' = user /\ panic' = panic
  BY DEF Reply, registryVars
<1>2. serving # Nobody
  BY <1>1 DEF Inv, Order
<1>3. PICK c \in Client : /\ c = serving /\ c \in Process /\ c # Srv /\ phase[c] = "asking"
                          /\ (asked[c].call = "RegisterService" => c \in Provider)
                          /\ (asked[c].call # "RegisterService" => c \in App)
  BY <1>2, AskedCall
<1>4. /\ Provider \subseteq Client /\ App \subseteq Client /\ Client \subseteq Process
      /\ Provider \cap App = {} /\ Srv \in Process /\ \A d \in Client : d # Srv /\ d # Nobody
      /\ Nobody \notin App /\ Nobody # Srv
  BY Constants
<1>5. Tables(table, drawn) /\ Buffers(ipcData) /\ RegistryTypes /\ PhaseType /\ LoopTypes /\ CallTypesOK
  BY DEF Inv, Types
<1>6. PICK x : x = Extra
  OBVIOUS
<1>7. PICK o : Replied(c, x, o)
  <2>1. \E b : Replied(c, Extra, b)
    BY <1>1, <1>3, ReplyDoes
  <2>2. QED
    BY <1>6, <2>1
<1>8. /\ Tables(table', drawn') /\ Arrives(c, o)
      /\ \A d \in Client : d # c => table'[d] = table[d] /\ drawn'[d] = drawn[d]
      /\ \A h \in DOMAIN table[c] : h \in DOMAIN table'[c] /\ table'[c][h] = table[c][h]
  BY <1>4, <1>7 DEF Replied
<1>9. /\ ipcData'[c] = o /\ Buffers(ipcData') /\ \A d \in Client : d # c => ipcData'[d] = ipcData[d]
  BY <1>3, <1>4, <1>5, <1>8 DEF Arrives, Buffers
<1>10. /\ phase'[c] = "answered" /\ PhaseType' /\ \A d \in Client : d # c => phase'[d] = phase[d]
  BY <1>1, <1>3, <1>5 DEF PhaseType
<1>11. Types'
  <2>1. LoopTypes' /\ CallTypesOK' /\ RegistryTypes'
    BY <1>1, <1>5 DEF LoopTypes, CallTypesOK, RegistryTypes
  <2>2. QED
    BY <1>8, <1>9, <1>10, <2>1 DEF Types
<1>12. FewHandles'
  <2>1. ASSUME NEW a \in App PROVE drawn'[a] + (IF phase'[a] = "asking" THEN 1 ELSE 0) <= calls'[a] + 2
    <3>1. /\ drawn[a] + (IF phase[a] = "asking" THEN 1 ELSE 0) <= calls[a] + 2 /\ drawn[a] \in Nat
          /\ calls[a] \in Nat /\ calls'[a] = calls[a]
      BY <1>1, <1>4, <1>5 DEF Inv, FewHandles, Tables, CallTypesOK
    <3>2. CASE a = c
      <4>1. drawn'[a] = drawn[a] \/ drawn'[a] = drawn[a] + 1
        BY <1>7, <3>2 DEF Replied
      <4>2. drawn[a] + 1 <= calls[a] + 2 /\ phase'[a] # "asking"
        BY <1>3, <1>10, <3>1, <3>2
      <4>3. QED
        BY <3>1, <4>1, <4>2
    <3>3. CASE a # c
      BY <1>4, <1>8, <1>10, <3>1, <3>3
    <3>4. QED
      BY <3>2, <3>3
  <2>2. ASSUME NEW a \in App, phase'[a] = "start" PROVE drawn'[a] = 0
    <3>1. a # c /\ a \in Client
      BY <1>4, <1>10, <2>2
    <3>2. QED
      BY <1>8, <1>10, <2>2, <3>1 DEF Inv, FewHandles
  <2>3. QED
    BY <2>1, <2>2 DEF FewHandles
<1>13. Order'
  <2>0. Order
    BY DEF Inv
  <2>1. \A d \in Client : phase'[d] # "asking"
    BY <1>3, <1>10, <2>0 DEF Order
  <2>2. \A p \in Provider : phase'[p] # "using" /\ phase'[p] # "accepting"
    BY <1>1, <1>4, <1>10, <2>0 DEF Order
  <2>3. \A a \in App : phase'[a] \in AppPhase
    BY <1>4, <1>10, <2>0 DEF Order
  <2>4. ASSUME NEW a \in App, phase'[a] # "start", NEW p \in Provider
        PROVE  phase'[p] \in {"serving", "accepting", "busy"}
    <3>1. phase[a] # "start"
      BY <1>3, <1>4, <1>10, <2>4
    <3>2. phase[p] \in {"serving", "accepting", "busy"}
      BY <2>0, <3>1 DEF Order
    <3>3. p # c
      BY <1>3, <3>2
    <3>4. QED
      BY <1>4, <1>10, <3>2, <3>3
  <2>5. ASSUME NEW p \in Provider, NEW q \in Provider, p < q, phase'[p] \in New
        PROVE  phase'[q] = "start"
    <3>1. phase[p] \in New
      BY <1>4, <1>10, <2>5
    <3>2. phase[q] = "start"
      BY <2>0, <2>5, <3>1 DEF Order
    <3>3. QED
      BY <1>3, <1>4, <1>10, <3>2
  <2>6. QED
    BY <1>1, <1>4, <2>1, <2>2, <2>3, <2>4, <2>5 DEF Order
<1>14. Using'
  <2>1. \A p \in Provider : phase'[p] = "busy" <=> phase[p] = "busy"
    BY <1>3, <1>4, <1>10
  <2>2. \A a \in App : phase'[a] = "using" <=> phase[a] = "using"
    BY <1>3, <1>4, <1>10
  <2>3. Using
    BY DEF Inv
  <2>4. QED
    BY <1>1, <2>1, <2>2, <2>3 DEF Using
<1>15. Asks'
  BY <1>1, <1>3, <1>10 DEF Inv, Asks
<1>16. Extra' = NoHandle
  BY <1>1 DEF Extra
<1>16a. ArrivalsStay
  BY <1>3, <1>10 DEF ArrivalsStay
<1>16b. Knocking'
  BY <1>1, <1>16a, KnockingFrame
<1>17. SrvTable' /\ SrvSessions'
  <2>1. /\ 1 \in DOMAIN table[Srv] /\ table[Srv][1] = Obj("srv port", 0)
        /\ \A i \in 1..ports : /\ services[i].port \in DOMAIN table[Srv]
                               /\ table[Srv][services[i].port] = Obj("client port", i)
        /\ \A h \in DOMAIN table[Srv] : h = 1 \/ h = x
               \/ (\E i \in 1..ports : h = services[i].port)
               \/ \E d \in Client : Accepted(d) /\ table[Srv][h] = Obj("srv server session", d)
    BY <1>6 DEF Inv, SrvTable
  <2>2. /\ DOMAIN table'[Srv] = DOMAIN table[Srv] \ {x}
        /\ \A h \in DOMAIN table'[Srv] : table'[Srv][h] = table[Srv][h]
    BY <1>7 DEF Replied
  <2>3. x = NoHandle \/ table[Srv][x] = ExtraObject
    BY <1>1, <1>6, ExtraIs
  <2>4. ExtraObject # Obj("srv port", 0) /\ \A i \in 1..ports : ExtraObject # Obj("client port", i)
    BY DEF ExtraObject, Obj
  <2>5. NoHandle \notin DOMAIN table[Srv]
    BY SrvHasNoHandle
  <2>6. 1 # x /\ \A i \in 1..ports : services[i].port # x
    BY <2>1, <2>3, <2>4, <2>5, Zenon
  <2>7. 1 \in DOMAIN table'[Srv] /\ table'[Srv][1] = Obj("srv port", 0)
    BY <2>1, <2>2, <2>6
  <2>8. ASSUME NEW i \in 1..ports
        PROVE  services[i].port \in DOMAIN table'[Srv] /\ table'[Srv][services[i].port] = Obj("client port", i)
    <3>1. PICK h : h = services[i].port
      OBVIOUS
    <3>2. h \in DOMAIN table[Srv] /\ table[Srv][h] = Obj("client port", i) /\ h # x
      BY <2>1, <2>6, <3>1, Zenon
    <3>3. h \in DOMAIN table'[Srv] /\ table'[Srv][h] = table[Srv][h]
      BY <2>2, <3>2
    <3>4. QED
      BY <3>1, <3>2, <3>3, Zenon
  <2>9. \A h \in DOMAIN table'[Srv] : h = 1 \/ (\E i \in 1..ports : h = services[i].port)
           \/ \E d \in Client : Accepted(d)' /\ table'[Srv][h] = Obj("srv server session", d)
    BY <1>16a, <2>1, <2>2, AcceptedStays, Zenon
  <2>10. SrvTable'
    BY <1>1, <1>16, <2>7, <2>8, <2>9 DEF SrvTable, Obj
  <2>11. \A d \in Client : ExtraObject # Obj("srv server session", d)
    BY DEF ExtraObject, Obj
  <2>12. SessionsKept
    BY <2>2, <2>3, <2>5, <2>11, Zenon DEF SessionsKept
  <2>13. QED
    BY <1>8, <1>16a, <2>10, <2>12, SrvSessionsFrame
<1>18. ASSUME c \in Provider
       PROVE  /\ 3 \in DOMAIN table'[c] /\ table'[c][3] = Obj("server port", ports)
              /\ \A h \in DOMAIN table'[c] : h # 3 => table'[c][h][1] # "server port"
  <2>1. drawn[c] = 2 /\ \A h \in DOMAIN table[c] : h # 3 => table[c][h][1] # "server port"
    BY <1>3, <1>18 DEF Inv, Registry, ProviderTable
  <2>2. asked[c].call = "RegisterService"
    BY <1>3, <1>4, <1>18
  <2>3. x # NoHandle /\ ExtraObject = Obj("server port", ports)
    BY <1>1, <1>3, <1>6, <2>2, ExtraIs DEF ExtraObject
  <2>4. drawn[c] + 1 = 3
    <3>1. 2 + 1 = 3
      OBVIOUS
    <3>2. QED
      BY <2>1, <3>1, Zenon
  <2>5. DOMAIN table'[c] = DOMAIN table[c] \cup {3} /\ table'[c][3] = ExtraObject
    BY <1>7, <2>3, <2>4, Zenon DEF Replied
  <2>6. ASSUME NEW h \in DOMAIN table'[c], h # 3 PROVE table'[c][h][1] # "server port"
    <3>1. h \in DOMAIN table[c]
      BY <2>5, <2>6, Zenon
    <3>2. QED
      BY <1>8, <2>1, <2>6, <3>1, Zenon
  <2>7. QED
    BY <2>3, <2>5, <2>6, Zenon
<1>19. \A p \in Provider : p # c => table'[p] = table[p] /\ drawn'[p] = drawn[p] /\ phase'[p] = phase[p]
  BY <1>4, <1>8, <1>10
<1>20. Registry'
  <2>1. ASSUME NEW p \in Provider PROVE SameRegistration(p)
    <3>1. CASE p = c
      <4>1. Registered(p) /\ Registered(p)' /\ PortOf(p) = ports
        BY <1>1, <1>3, <1>10, <3>1 DEF Registered, PortOf
      <4>2. PortOf(p)' = ports
        <5>1. PICK u : u = Obj("server port", ports)
          OBVIOUS
        <5>2. u[2] = ports
          BY <5>1 DEF Obj
        <5>3. phase'[p] # "asking" /\ table'[p][3] = u
          BY <1>10, <1>18, <3>1, <5>1
        <5>4. QED
          BY <5>2, <5>3 DEF PortOf
      <4>3. QED
        BY <1>1, <4>1, <4>2 DEF SameRegistration
    <3>2. CASE p # c
      <4>1. Registered(p)' = Registered(p)
        BY <1>1, <1>3, <1>4, <1>19, <3>2 DEF Registered
      <4>2. PortOf(p)' = PortOf(p)
        BY <1>1, <1>19, <3>2 DEF PortOf
      <4>3. QED
        BY <1>1, <4>1, <4>2 DEF SameRegistration
    <3>3. QED
      BY <3>1, <3>2
  <2>2. ASSUME NEW p \in Provider PROVE ProviderTable(p)'
    <3>1. CASE p = c
      <4>1. PICK u : u = Obj("server port", ports)
        OBVIOUS
      <4>2. u[1] = "server port"
        BY <4>1 DEF Obj
      <4>3. /\ 3 \in DOMAIN table'[p] /\ table'[p][3] = u /\ phase'[p] = "answered"
            /\ \A h \in DOMAIN table'[p] : h # 3 => table'[p][h][1] # "server port"
        BY <1>10, <1>18, <3>1, <4>1
      <4>4. QED
        BY <4>2, <4>3 DEF ProviderTable
    <3>2. CASE p # c
      <4>1. ProviderTable(p) /\ table'[p] = table[p] /\ drawn'[p] = drawn[p] /\ phase'[p] = phase[p]
        BY <1>19, <3>2 DEF Inv, Registry
      <4>2. QED
        BY <4>1 DEF ProviderTable
    <3>3. QED
      BY <3>1, <3>2
  <2>3. QED
    BY <1>1, <2>1, <2>2, RegistryFrame
<1>21. Messages'
  BY <1>1 DEF Messages
<1>22. Queues'
  BY <1>1 DEF Inv, Queues
<1>23. Connecting'
  BY <1>1, <1>13 DEF Connecting, Order
<1>24. \A p \in Provider : Stays(p)
  <2>1. ASSUME NEW p \in Provider, phase[p] \notin New PROVE p # c
    BY <1>3, <2>1
  <2>2. QED
    BY <1>1, <1>19, <2>1 DEF Stays
<1>25. SessionsStay
  BY <1>1, SessionsSame
<1>26. Finds'
  <2>1. ASSUME NEW d \in Client, phase'[d] = "answered", d # c,
               asked'[d].call \in {"RegisterService", "GetServiceHandle"}
        PROVE  \E h \in DOMAIN table'[d] : GivenTo(d, h)'
    <3>1. Same(d)
      BY <1>1, <1>8, <1>9, <1>10, <2>1 DEF Same
    <3>2. QED
      BY <1>24, <1>25, <2>1, <3>1, FindsKept
  <2>2. ASSUME asked'[c].call \in {"RegisterService", "GetServiceHandle"}
        PROVE  \E h \in DOMAIN table'[c] : GivenTo(c, h)'
    <3>1. x # NoHandle
      BY <1>1, <1>3, <1>6, <2>2, ExtraIs
    <3>2. PICK h : h = drawn[c] + 1
      OBVIOUS
    <3>3. h \in DOMAIN table'[c] /\ table'[c][h] = ExtraObject /\ Read(o, TRUE).params = Moved(h)
      BY <1>7, <3>1, <3>2 DEF Replied
    <3>4. PICK word : word = asked[c].word
      OBVIOUS
    <3>5. ASSUME asked'[c].call = "GetServiceHandle"
          PROVE  \E n \in 1..Len(sessions') : table'[c][h] = Obj("client session", n) /\ Leads(n, word)'
      <4>1. PICK n : n = Len(sessions)
        OBVIOUS
      <4>2. n >= 1 /\ Leads(n, word)
        BY <1>1, <1>3, <3>4, <3>5, <4>1 DEF Inv, Connecting
      <4>3. n \in 1..Len(sessions)
        <5>1. n \in Nat
          BY <1>5, <4>1 DEF RegistryTypes
        <5>2. \A y \in Nat : y >= 1 => y \in 1..y
          OBVIOUS
        <5>3. QED
          BY <4>1, <4>2, <5>1, <5>2, Zenon
      <4>4. Leads(n, word)'
        BY <1>24, <1>25, <4>2, <4>3, LeadsKept
      <4>5. ExtraObject = Obj("client session", n)
        BY <1>1, <1>3, <3>5, <4>1 DEF ExtraObject
      <4>6. QED
        BY <1>1, <3>3, <4>3, <4>4, <4>5
    <3>6. Read(ipcData'[c], TRUE).params = Moved(h)
      BY <1>9, <3>3
    <3>7. asked'[c].word = word
      BY <1>1, <3>4
    <3>8. GivenTo(c, h)'
      BY <3>5, <3>6, <3>7 DEF GivenTo, Moved, Obj
    <3>9. QED
      BY <3>3, <3>8
  <2>3. QED
    BY <2>1, <2>2 DEF Finds
<1>27. PanicsAreJustified'
  BY <1>1 DEF PanicsAreJustified
<1>28. QED
  BY <1>11, <1>12, <1>13, <1>14, <1>15, <1>17, <1>20, <1>21, <1>22, <1>23, <1>26, <1>27,
     <1>16b DEF Inv

-----------------------------------------------------------------------------
(* Connections with srv *)

\* A client connects: srv waits, and has nothing to do with any other client.
LEMMA KnockStep ==
    ASSUME Inv, panic = "none", NEW c \in Client, Connect(c)
    PROVE  Inv'
<1>1. /\ phase[c] = "start" /\ Runs(c) /\ knocking' = Append(knocking, c)
      /\ phase' = [phase EXCEPT ![c] = "connecting"]
      /\ stage' = (IF stage = "waiting" THEN "knocked" ELSE stage) /\ current' = Nobody
      /\ ipcData' = ipcData /\ services' = services /\ seen' = seen /\ ports' = ports
      /\ sessions' = sessions /\ queued' = queued /\ events' = events /\ serving' = serving
      /\ calls' = calls /\ asked' = asked /\ user' = user /\ panic' = panic
  BY DEF Connect
<1>2. /\ Provider \subseteq Client /\ App \subseteq Client /\ Client \subseteq Process
      /\ Provider \cap App = {} /\ Srv \in Process /\ (\A d \in Client : d # Srv /\ d # Nobody)
      /\ Nobody \notin App /\ Nobody # Srv
  BY Constants
<1>3. Tables(table, drawn) /\ Buffers(ipcData) /\ RegistryTypes /\ PhaseType /\ LoopTypes /\ CallTypesOK
  BY DEF Inv, Types
<1>4. Order
  BY DEF Inv
<1>5. /\ stage = "waiting" /\ serving = Nobody
      /\ \A p \in Provider : p < c => phase[p] \notin New
      /\ c \in Provider => \A a \in App : phase[a] = "start"
      /\ c \in App => \A p \in Provider : phase[p] = "serving"
  <2>1. CASE c \in Provider
    BY <1>1, <1>2, <2>1, ProviderRuns
  <2>2. CASE c \in App
    BY <1>1, <1>2, <2>2, AppRuns
  <2>3. QED
    BY <2>1, <2>2 DEF Client
<1>6. \A p \in Provider : phase[p] \notin {"busy", "accepting"}
  <2>1. \A p \in Provider : phase[p] # "accepting"
    BY <1>4, <1>5 DEF Order
  <2>2. ASSUME NEW p \in Provider, phase[p] = "busy" PROVE FALSE
    <3>1. user[p] \in App /\ phase[user[p]] = "using"
      BY <2>2 DEF Inv, Using
    <3>2. QED
      BY <1>5, <2>2, <3>1 DEF Client
  <2>3. QED
    BY <2>1, <2>2
<1>7. \A a \in App : phase[a] # "using"
  BY <1>6 DEF Inv, Using
<1>8. phase'[c] = "connecting" /\ PhaseType' /\ \A d \in Client : d # c => phase'[d] = phase[d]
  BY <1>1, <1>3 DEF PhaseType
<1>9. stage' = "knocked" /\ serving' = Nobody
  BY <1>1, <1>5
<1>10. knocking' = <<c>>
  <2>1. knocking = <<>>
    BY <1>5 DEF Inv, Knocking
  <2>2. QED
    BY <1>1, <2>1
<1>11. drawn[c] = 0
  <2>1. CASE c \in Provider
    BY <1>1, <2>1 DEF Inv, Registry, ProviderTable
  <2>2. CASE c \in App
    BY <1>1, <2>2 DEF Inv, FewHandles
  <2>3. QED
    BY <2>1, <2>2 DEF Client
<1>12. PICK o \in Kind \X Nat : o = Obj("srv client port", 0) /\ o[1] # "server port"
  <2>1. PICK x : x = Obj("srv client port", 0)
    OBVIOUS
  <2>2. x \in Kind \X Nat /\ x[1] # "server port"
    BY <2>1 DEF Obj, Kind
  <2>3. QED
    BY <2>1, <2>2, Zenon
<1>13. PICK u \in Kind \X Nat : u = Obj("srv client session", c) /\ u[1] # "server port"
  <2>1. PICK n \in Nat : n = c
    BY Constants
  <2>2. PICK x : x = Obj("srv client session", n)
    OBVIOUS
  <2>3. x \in Kind \X Nat /\ x[1] # "server port"
    BY <2>2 DEF Obj, Kind
  <2>4. QED
    BY <2>1, <2>2, <2>3, Zenon
<1>14. /\ Tables(table', drawn')
       /\ \A q \in Process : q # c => table'[q] = table[q] /\ drawn'[q] = drawn[q]
       /\ drawn'[c] = 2 /\ DOMAIN table'[c] = {1, 2} /\ table'[c][1] = o /\ table'[c][2] = u
  <2>1. PICK first : first = InsertHandle(table, drawn, c, o)
    OBVIOUS
  <2>2. PICK both : both = InsertHandle(first.table, first.drawn, c, u)
    OBVIOUS
  <2>3. table' = both.table /\ drawn' = both.drawn
    BY <1>12, <1>13, <2>1, <2>2, Zenon DEF Connect
  <2>4. PICK n \in Nat : n = drawn[c] /\ n = 0
    BY <1>11
  <2>5. Tables(both.table, both.drawn) /\ InsertedBoth(both.table, both.drawn, c, o, u, n)
    <3>1. c \in Process
      BY <1>2
    <3>2. QED
      BY <1>3, <2>1, <2>2, <2>4, <3>1, InsertedTwice
  <2>6. DOMAIN table[c] = {}
    <3>1. PICK f : f = table[c]
      OBVIOUS
    <3>2. DOMAIN f \subseteq 1..0
      BY <1>2, <1>3, <1>11, <3>1 DEF Tables, HandleTable
    <3>3. QED
      BY <3>1, <3>2
  <2>7. n + 1 = 1 /\ n + 2 = 2
    BY <2>4
  <2>8. InsertedBoth(table', drawn', c, o, u, n)
    BY <2>3, <2>5, Zenon
  <2>9. /\ \A q \in Process : q # c => table'[q] = table[q] /\ drawn'[q] = drawn[q]
        /\ drawn'[c] = 2 /\ DOMAIN table'[c] = DOMAIN table[c] \cup {1, 2}
        /\ table'[c][1] = o /\ table'[c][2] = u
    BY <2>7, <2>8, Zenon DEF InsertedBoth
  <2>10. QED
    BY <2>3, <2>5, <2>6, <2>9
<1>15. /\ table'[Srv] = table[Srv]
       /\ \A d \in Client : d # c => table'[d] = table[d] /\ drawn'[d] = drawn[d]
  BY <1>2, <1>14
<1>16. Types'
  <2>1. LoopTypes' /\ CallTypesOK' /\ Buffers(ipcData')
    BY <1>1, <1>3, <1>9 DEF LoopTypes, CallTypesOK
  <2>2. RegistryTypes'
    <3>1. <<c>> \in Seq(Client)
      OBVIOUS
    <3>2. QED
      BY <1>1, <1>3, <1>10, <3>1 DEF RegistryTypes
  <2>3. QED
    BY <1>8, <1>14, <2>1, <2>2 DEF Types
<1>17. FewHandles'
  <2>1. ASSUME NEW a \in App
        PROVE  /\ drawn'[a] + (IF phase'[a] = "asking" THEN 1 ELSE 0) <= calls'[a] + 2
               /\ phase'[a] = "start" => drawn'[a] = 0
    <3>1. CASE a = c
      <4>1. calls'[a] \in Nat
        BY <1>1, <1>2, <1>3 DEF CallTypesOK
      <4>2. phase'[a] = "connecting" /\ drawn'[a] = 2
        BY <1>8, <1>14, <3>1
      <4>3. QED
        BY <4>1, <4>2
    <3>2. CASE a # c
      BY <1>1, <1>2, <1>8, <1>15, <3>2 DEF Inv, FewHandles
    <3>3. QED
      BY <3>1, <3>2
  <2>2. QED
    BY <2>1 DEF FewHandles
<1>18. Order'
  <2>1. \A d \in Client : phase'[d] # "asking"
    BY <1>4, <1>5, <1>8, <1>2 DEF Order
  <2>2. \A p \in Provider : phase'[p] \notin {"using", "accepting", "busy"}
    BY <1>2, <1>4, <1>6, <1>8 DEF Order
  <2>3. \A a \in App : phase'[a] \in AppPhase
    BY <1>2, <1>4, <1>8 DEF Order
  <2>4. ASSUME NEW a \in App, phase'[a] # "start", NEW p \in Provider
        PROVE  phase'[p] \in {"serving", "accepting", "busy"}
    <3>1. CASE c \in App
      BY <1>2, <1>5, <1>8, <3>1
    <3>2. CASE c \in Provider
      <4>1. a # c /\ phase[a] = "start"
        BY <1>2, <1>5, <3>2
      <4>2. QED
        BY <1>2, <1>8, <2>4, <4>1
    <3>3. QED
      BY <3>1, <3>2 DEF Client
  <2>5. ASSUME NEW p \in Provider, NEW q \in Provider, p < q, phase'[p] \in New
        PROVE  phase'[q] = "start"
    <3>1. phase[p] \in New
      BY <1>1, <1>2, <1>8, <2>5
    <3>2. phase[q] = "start"
      BY <1>4, <2>5, <3>1 DEF Order
    <3>3. q # c
      BY <1>5, <2>5, <3>1
    <3>4. QED
      BY <1>2, <1>8, <3>2, <3>3
  <2>6. QED
    BY <1>1, <1>2, <1>9, <2>1, <2>2, <2>3, <2>4, <2>5 DEF Order
<1>19. Knocking'
  <2>1. ASSUME NEW d \in Client, phase'[d] = "connecting" PROVE d = c
    <3>1. phase[d] # "connecting"
      BY <1>5 DEF Inv, Knocking
    <3>2. QED
      BY <1>8, <2>1, <3>1
  <2>2. QED
    BY <1>8, <1>9, <1>10, <2>1 DEF Knocking
<1>20. Using'
  BY <1>2, <1>6, <1>7, <1>8 DEF Using
<1>21. Asks'
  BY <1>1, <1>8 DEF Inv, Asks
<1>22. Registry'
  <2>1. ASSUME NEW p \in Provider PROVE SameRegistration(p)
    <3>1. CASE p = c
      BY <1>1, <1>2, <1>5, <1>8, <1>9, <3>1 DEF SameRegistration, Registered
    <3>2. CASE p # c
      <4>1. phase'[p] = phase[p] /\ table'[p] = table[p] /\ asked' = asked /\ ports' = ports
        BY <1>1, <1>2, <1>8, <1>15, <3>2
      <4>2. Registered(p)' = Registered(p) /\ PortOf(p)' = PortOf(p)
        BY <1>2, <1>5, <1>9, <4>1 DEF Registered, PortOf
      <4>3. QED
        BY <4>1, <4>2 DEF SameRegistration
    <3>3. QED
      BY <3>1, <3>2
  <2>2. ASSUME NEW p \in Provider PROVE ProviderTable(p)'
    <3>1. CASE p = c
      <4>1. \A h \in DOMAIN table'[c] : table'[c][h][1] # "server port"
        BY <1>12, <1>13, <1>14
      <4>2. QED
        BY <1>8, <1>14, <3>1, <4>1 DEF ProviderTable
    <3>2. CASE p # c
      BY <1>2, <1>8, <1>15, <3>2, ProviderTableFrame
    <3>3. QED
      BY <3>1, <3>2
  <2>3. QED
    BY <1>1, <2>1, <2>2, RegistryFrame
<1>23. \A d \in Client : Accepted(d)' <=> Accepted(d)
  BY <1>1, <1>8 DEF Accepted
<1>24. SrvTable' /\ SrvSessions'
  <2>1. SrvTable /\ SrvSessions
    BY DEF Inv
  <2>2. Extra = NoHandle /\ Extra' = NoHandle
    BY <1>5, <1>9 DEF Extra
  <2>3. \A h \in DOMAIN table'[Srv] :
           \/ h = 1 \/ h = Extra' \/ (\E i \in 1..ports' : h = services'[i].port)
           \/ \E d \in Client : Accepted(d)' /\ table'[Srv][h] = Obj("srv server session", d)
    BY <1>1, <1>15, <1>23, <2>1, <2>2 DEF SrvTable
  <2>4. SrvTable'
    BY <1>1, <1>15, <2>1, <2>2, <2>3 DEF SrvTable, Obj
  <2>5. SrvSessions'
    BY <1>15, <1>23, <2>1 DEF SrvSessions, Obj
  <2>6. QED
    BY <2>4, <2>5
<1>25. Messages' /\ PanicsAreJustified'
  BY <1>1, <1>9 DEF Messages, PanicsAreJustified
<1>26. Queues'
  BY <1>1, <1>5, <1>9 DEF Inv, Queues
<1>27. Connecting'
  BY <1>2, <1>6, <1>8, <1>9 DEF Connecting
<1>28. Finds'
  <2>1. \A p \in Provider : Stays(p)
    BY <1>1, <1>2, <1>8, <1>15 DEF Stays
  <2>2. \A d \in Client : phase'[d] = "answered" => Same(d)
    BY <1>1, <1>8, <1>15 DEF Same
  <2>3. QED
    BY <1>1, <2>1, <2>2, SessionsSame, FindsFrame
<1>29. QED
  BY <1>16, <1>17, <1>18, <1>19, <1>20, <1>21, <1>22, <1>24, <1>25, <1>26, <1>27, <1>28 DEF Inv

\* srv accepts the session of the client that connects.
LEMMA AcceptClientStep == ASSUME Inv, AcceptClient, panic = "none" PROVE Inv'
<1>1. stage = "knocked"
  BY DEF AcceptClient
<1>2. PICK c \in Client : phase[c] = "connecting" /\ knocking = <<c>>
  BY <1>1 DEF Inv, Knocking
<1>3. Head(knocking) = c /\ Tail(knocking) = <<>>
  BY <1>2
<1>4. /\ NewHandle(Srv, Obj("srv server session", c)) /\ knocking' = <<>>
      /\ phase' = [phase EXCEPT ![c] = "idle"] /\ stage' = "waiting" /\ current' = Nobody
      /\ ipcData' = ipcData /\ services' = services /\ seen' = seen /\ ports' = ports
      /\ sessions' = sessions /\ queued' = queued /\ events' = events /\ serving' = serving
      /\ calls' = calls /\ asked' = asked /\ user' = user /\ panic' = panic
  BY <1>3 DEF AcceptClient
<1>5. /\ Provider \subseteq Client /\ App \subseteq Client /\ Client \subseteq Process
      /\ Provider \cap App = {} /\ Srv \in Process /\ (\A d \in Client : d # Srv /\ d # Nobody)
      /\ Nobody \notin App /\ Nobody # Srv
  BY Constants
<1>6. Tables(table, drawn) /\ Buffers(ipcData) /\ RegistryTypes /\ PhaseType /\ LoopTypes /\ CallTypesOK
  BY DEF Inv, Types
<1>7. Order
  BY DEF Inv
<1>8. serving = Nobody /\ serving' = Nobody
  BY <1>1, <1>4, <1>7 DEF Order
<1>9. PICK o \in Kind \X Nat : o = Obj("srv server session", c)
  <2>1. PICK n \in Nat : n = c
    BY Constants
  <2>2. PICK x : x = Obj("srv server session", n)
    OBVIOUS
  <2>3. x \in Kind \X Nat
    BY <2>2 DEF Obj, Kind
  <2>4. QED
    BY <2>1, <2>2, <2>3, Zenon
<1>10. Tables(table', drawn') /\ Inserted(table, drawn, table', drawn', Srv, o)
  BY <1>4, <1>5, <1>6, <1>9, InsertedOK
<1>11. \A d \in Client : table'[d] = table[d] /\ drawn'[d] = drawn[d]
  BY <1>5, <1>10 DEF Inserted
<1>12. phase'[c] = "idle" /\ PhaseType' /\ \A d \in Client : d # c => phase'[d] = phase[d]
  BY <1>4, <1>6 DEF PhaseType
<1>13. \A d \in Client : phase[d] = "connecting" => d = c
  <2>1. ASSUME NEW d \in Client, phase[d] = "connecting" PROVE d = c
    <3>1. knocking = <<d>>
      BY <2>1 DEF Inv, Knocking
    <3>2. QED
      BY <1>2, <3>1
  <2>2. QED
    BY <2>1
<1>14. Types'
  <2>1. LoopTypes' /\ CallTypesOK' /\ Buffers(ipcData')
    BY <1>4, <1>6 DEF LoopTypes, CallTypesOK
  <2>2. RegistryTypes'
    <3>1. <<>> \in Seq(Client)
      OBVIOUS
    <3>2. QED
      BY <1>4, <1>6, <3>1 DEF RegistryTypes
  <2>3. QED
    BY <1>10, <1>12, <2>1, <2>2 DEF Types
<1>15. FewHandles'
  <2>1. ASSUME NEW a \in App
        PROVE  /\ drawn'[a] + (IF phase'[a] = "asking" THEN 1 ELSE 0) <= calls'[a] + 2
               /\ phase'[a] = "start" => drawn'[a] = 0
    <3>1. /\ drawn[a] + (IF phase[a] = "asking" THEN 1 ELSE 0) <= calls[a] + 2
          /\ phase[a] = "start" => drawn[a] = 0
      BY DEF Inv, FewHandles
    <3>2. (phase'[a] = "asking" <=> phase[a] = "asking") /\ (phase'[a] = "start" <=> phase[a] = "start")
      BY <1>2, <1>5, <1>12
    <3>3. drawn'[a] = drawn[a] /\ calls'[a] = calls[a]
      BY <1>4, <1>5, <1>11
    <3>4. QED
      BY <3>1, <3>2, <3>3
  <2>2. QED
    BY <2>1 DEF FewHandles
<1>16. Order'
  <2>1. \A d \in Client : phase'[d] # "asking"
    BY <1>5, <1>7, <1>8, <1>12 DEF Order
  <2>2. \A p \in Provider : phase'[p] \notin {"using", "accepting"}
    BY <1>1, <1>5, <1>7, <1>12 DEF Order
  <2>3. \A a \in App : phase'[a] \in AppPhase
    BY <1>5, <1>7, <1>12 DEF Order
  <2>4. ASSUME NEW a \in App, phase'[a] # "start", NEW p \in Provider
        PROVE  phase'[p] \in {"serving", "accepting", "busy"}
    <3>1. phase[a] # "start"
      BY <1>2, <1>5, <1>12, <2>4
    <3>2. phase[p] \in {"serving", "accepting", "busy"}
      BY <1>7, <3>1 DEF Order
    <3>3. p # c
      BY <1>2, <3>2
    <3>4. QED
      BY <1>5, <1>12, <3>2, <3>3
  <2>5. ASSUME NEW p \in Provider, NEW q \in Provider, p < q, phase'[p] \in New
        PROVE  phase'[q] = "start"
    <3>1. phase[p] \in New
      BY <1>2, <1>5, <1>12, <2>5
    <3>2. phase[q] = "start"
      BY <1>7, <2>5, <3>1 DEF Order
    <3>3. QED
      BY <1>2, <1>5, <1>12, <3>2
  <2>6. QED
    BY <1>4, <1>5, <1>8, <2>1, <2>2, <2>3, <2>4, <2>5 DEF Order
<1>17. Knocking'
  BY <1>4, <1>12, <1>13 DEF Knocking
<1>18. Using'
  <2>1. \A d \in Client : /\ phase'[d] = "busy" <=> phase[d] = "busy"
                          /\ phase'[d] = "using" <=> phase[d] = "using"
    BY <1>2, <1>12
  <2>2. Using /\ user' = user
    BY <1>4 DEF Inv
  <2>3. QED
    BY <1>5, <2>1, <2>2 DEF Using
<1>19. Asks'
  BY <1>2, <1>4, <1>12 DEF Inv, Asks
<1>20. Registry'
  <2>1. ASSUME NEW p \in Provider PROVE SameRegistration(p)
    <3>1. Registered(p)' = Registered(p)
      BY <1>2, <1>5, <1>8, <1>12 DEF Registered
    <3>2. CASE p = c
      BY <1>2, <1>5, <1>8, <3>1, <3>2 DEF SameRegistration, Registered
    <3>3. CASE p # c
      BY <1>4, <1>5, <1>11, <1>12, <3>1, <3>3 DEF SameRegistration, PortOf
    <3>4. QED
      BY <3>2, <3>3
  <2>2. \A p \in Provider : ProviderTable(p)'
    BY <1>2, <1>5, <1>11, <1>12, ProviderTableFrame
  <2>3. QED
    BY <1>4, <2>1, <2>2, RegistryFrame
<1>21. PICK n : n = drawn[Srv] + 1
  OBVIOUS
<1>22. /\ DOMAIN table'[Srv] = DOMAIN table[Srv] \cup {n} /\ table'[Srv][n] = o
       /\ (\A h \in DOMAIN table[Srv] : table'[Srv][h] = table[Srv][h]) /\ n \notin DOMAIN table[Srv]
  BY <1>10, <1>21, Zenon DEF Inserted
<1>23. Accepted(c)' /\ ~Accepted(c) /\ \A d \in Client : d # c => (Accepted(d)' <=> Accepted(d))
  BY <1>2, <1>12 DEF Accepted
<1>24. Extra = NoHandle /\ Extra' = NoHandle
  BY <1>1, <1>4 DEF Extra
<1>25. /\ 1 \in DOMAIN table[Srv] /\ table[Srv][1] = Obj("srv port", 0)
       /\ \A i \in 1..ports : /\ services[i].port \in DOMAIN table[Srv]
                              /\ table[Srv][services[i].port] = Obj("client port", i)
       /\ \A h \in DOMAIN table[Srv] : h = 1 \/ (\E i \in 1..ports : h = services[i].port)
              \/ \E d \in Client : Accepted(d) /\ table[Srv][h] = Obj("srv server session", d)
  BY <1>24, SrvHasNoHandle DEF Inv, SrvTable
<1>26. SrvTable'
  <2>1. ASSUME NEW h \in DOMAIN table'[Srv]
        PROVE  h = 1 \/ (\E i \in 1..ports : h = services[i].port)
               \/ \E d \in Client : Accepted(d)' /\ table'[Srv][h] = Obj("srv server session", d)
    <3>1. CASE h = n
      BY <1>9, <1>22, <1>23, <3>1, Zenon
    <3>2. CASE h \in DOMAIN table[Srv]
      BY <1>22, <1>23, <1>25, <3>2, Zenon
    <3>3. QED
      BY <1>22, <3>1, <3>2
  <2>2. \A i \in 1..ports : /\ services[i].port \in DOMAIN table'[Srv]
                            /\ table'[Srv][services[i].port] = Obj("client port", i)
    BY <1>22, <1>25, Zenon
  <2>3. 1 \in DOMAIN table'[Srv] /\ table'[Srv][1] = Obj("srv port", 0)
    BY <1>22, <1>25, Zenon
  <2>4. QED
    BY <1>4, <1>24, <2>1, <2>2, <2>3 DEF SrvTable, Obj
<1>27. \A h \in DOMAIN table[Srv] : table[Srv][h] # Obj("srv server session", c)
  <2>1. /\ Obj("srv port", 0) # Obj("srv server session", c)
        /\ \A i \in 1..ports : Obj("client port", i) # Obj("srv server session", c)
        /\ \A d \in Client : Obj("srv server session", d) = Obj("srv server session", c) => d = c
    BY DEF Obj
  <2>2. ASSUME NEW h \in DOMAIN table[Srv], table[Srv][h] = Obj("srv server session", c) PROVE FALSE
    <3>1. CASE h = 1
      BY <1>25, <2>1, <2>2, <3>1, Zenon
    <3>2. CASE \E i \in 1..ports : h = services[i].port
      <4>1. PICK i \in 1..ports : h = services[i].port
        BY <3>2
      <4>2. QED
        BY <1>25, <2>1, <2>2, <4>1, Zenon
    <3>3. CASE \E d \in Client : Accepted(d) /\ table[Srv][h] = Obj("srv server session", d)
      <4>1. PICK d \in Client : Accepted(d) /\ table[Srv][h] = Obj("srv server session", d)
        BY <3>3
      <4>2. d = c
        BY <2>1, <2>2, <4>1, Zenon
      <4>3. QED
        BY <1>23, <4>1, <4>2, Zenon
    <3>4. QED
      BY <1>25, <3>1, <3>2, <3>3
  <2>3. QED
    BY <2>2
<1>28. SrvSessions'
  <2>1. SrvSessions
    BY DEF Inv
  <2>2. ASSUME NEW d \in Client, Accepted(d)'
        PROVE  \E h \in DOMAIN table'[Srv] : table'[Srv][h] = Obj("srv server session", d)
    <3>1. CASE d = c
      BY <1>9, <1>22, <3>1, Zenon
    <3>2. CASE d # c
      <4>1. PICK h \in DOMAIN table[Srv] : table[Srv][h] = Obj("srv server session", d)
        BY <1>23, <2>1, <2>2, <3>2 DEF SrvSessions
      <4>2. QED
        BY <1>22, <4>1, Zenon
    <3>3. QED
      BY <3>1, <3>2
  <2>3. ASSUME NEW d \in Client, NEW g \in DOMAIN table'[Srv], NEW h \in DOMAIN table'[Srv],
               table'[Srv][g] = Obj("srv server session", d),
               table'[Srv][h] = Obj("srv server session", d)
        PROVE  g = h
    <3>1. CASE d = c
      BY <1>22, <1>27, <2>3, <3>1, Zenon
    <3>2. CASE d # c
      <4>1. Obj("srv server session", d) # Obj("srv server session", c)
        BY <3>2 DEF Obj
      <4>2. g \in DOMAIN table[Srv] /\ h \in DOMAIN table[Srv]
        BY <1>9, <1>22, <2>3, <4>1, Zenon
      <4>3. /\ table[Srv][g] = Obj("srv server session", d)
            /\ table[Srv][h] = Obj("srv server session", d)
        BY <1>22, <2>3, <4>2, Zenon
      <4>4. QED
        BY <2>1, <4>2, <4>3 DEF SrvSessions
    <3>3. QED
      BY <3>1, <3>2
  <2>4. QED
    BY <2>2, <2>3 DEF SrvSessions, Obj
<1>29. Messages' /\ PanicsAreJustified'
  BY <1>4 DEF Messages, PanicsAreJustified
<1>30. Queues'
  BY <1>1, <1>4 DEF Inv, Queues
<1>31. Connecting'
  BY <1>4, <1>16 DEF Connecting, Order
<1>32. Finds'
  <2>1. \A p \in Provider : Stays(p)
    BY <1>2, <1>4, <1>5, <1>11, <1>12 DEF Stays
  <2>2. \A d \in Client : phase'[d] = "answered" => Same(d)
    BY <1>4, <1>11, <1>12 DEF Same
  <2>3. QED
    BY <1>4, <2>1, <2>2, SessionsSame, FindsFrame
<1>33. QED
  BY <1>14, <1>15, <1>16, <1>17, <1>18, <1>19, <1>20, <1>26, <1>28, <1>29, <1>30, <1>31, <1>32 DEF Inv

-----------------------------------------------------------------------------
(* The invariant *)

LEMMA InitInv == Init => Inv
<1> SUFFICES ASSUME Init PROVE Inv
  OBVIOUS
<1>1. /\ services = <<>> /\ seen = {} /\ ports = 0 /\ sessions = <<>> /\ queued = <<>> /\ events = 0
      /\ stage = "waiting" /\ serving = Nobody /\ current = Nobody /\ panic = "none"
      /\ knocking = <<>> /\ phase = [c \in Client |-> "start"]
      /\ calls = [c \in Client |-> 0]
      /\ asked = [c \in Client |-> [call |-> "none", word |-> 0]]
      /\ user = [p \in Provider |-> Nobody]
  BY DEF Init
<1>2. /\ Provider \subseteq Client /\ App \subseteq Client /\ Client \subseteq Process
      /\ Srv \in Process /\ Nobody # Srv /\ Nobody \notin App /\ \A c \in Client : c # Srv
  BY Constants
<1>3. PICK s \in Kind \X Nat : s = Obj("srv port", 0)
  BY DEF Obj, Kind
<1>4. /\ table = [p \in Process |-> IF p = Srv THEN <<s>> ELSE <<>>]
      /\ drawn = [p \in Process |-> IF p = Srv THEN 1 ELSE 0]
      /\ ipcData = [p \in Process |-> [i \in 1..BufferWords |-> 0]]
  BY <1>3 DEF Init
<1>5. table[Srv] = <<s>> /\ drawn[Srv] = 1 /\ \A c \in Client : table[c] = <<>> /\ drawn[c] = 0
  BY <1>2, <1>4
<1>6. Tables(table, drawn)
  <2>1. HandleTable(<<s>>, 1)
    <3>1. PICK f : f = <<s>>
      OBVIOUS
    <3>2. f = [h \in DOMAIN f |-> f[h]] /\ DOMAIN f = 1..1 /\ \A h \in 1..1 : f[h] = s
      BY <3>1
    <3>3. HandleTable(f, 1)
      BY <3>2 DEF HandleTable
    <3>4. QED
      BY <3>1, <3>3, Zenon
  <2>2. HandleTable(<<>>, 0)
    BY DEF HandleTable
  <2>3. ASSUME NEW p \in Process PROVE HandleTable(table[p], drawn[p])
    <3>1. CASE p = Srv
      BY <1>5, <2>1, <3>1, Zenon
    <3>2. CASE p # Srv
      <4>1. table[p] = <<>> /\ drawn[p] = 0
        BY <1>4, <3>2
      <4>2. QED
        BY <2>2, <4>1, Zenon
    <3>3. QED
      BY <3>1, <3>2
  <2>4. drawn \in [Process -> Nat] /\ table = [p \in Process |-> table[p]]
    BY <1>4
  <2>5. QED
    BY <2>3, <2>4, Zenon DEF Tables
<1>7. Buffers(ipcData)
  <2>1. PICK b : b = [i \in 1..BufferWords |-> 0]
    OBVIOUS
  <2>2. b \in Seq(Nat) /\ Len(b) = BufferWords
    BY <2>1, Constants
  <2>3. ipcData = [p \in Process |-> b]
    BY <1>4, <2>1
  <2>4. QED
    BY <2>2, <2>3 DEF Buffers
<1>8. RegistryTypes
  BY <1>1 DEF RegistryTypes
<1>9. PhaseType /\ LoopTypes
  BY <1>1 DEF PhaseType, LoopTypes
<1>10. CallTypesOK
  <2>1. calls \in [Client -> Nat] /\ \A c \in Client : calls[c] <= MaxCalls[c]
    <3>1. \A c \in Client : MaxCalls[c] \in Nat
      BY Constants
    <3>2. QED
      BY <1>1, <3>1
  <2>2. asked \in [Client -> [call : Call, word : Nat]]
    BY <1>1 DEF Call
  <2>3. QED
    BY <1>1, <2>1, <2>2 DEF CallTypesOK
<1>11. \A c \in Client : phase[c] = "start"
  BY <1>1
<1>12. FewHandles
  <2>1. \A a \in App : drawn[a] = 0 /\ calls[a] = 0 /\ phase[a] # "asking"
    BY <1>1, <1>2, <1>5, <1>11
  <2>2. QED
    BY <2>1 DEF FewHandles
<1>13. Order
  BY <1>1, <1>2, <1>11 DEF Order
<1>14. Using
  BY <1>2, <1>11 DEF Using
<1>15. Asks
  BY <1>11 DEF Asks
<1>16. Registry
  <2>1. \A p \in Provider : ~Registered(p)
    BY <1>1, <1>2, <1>11 DEF Registered
  <2>2. ASSUME NEW p \in Provider PROVE ProviderTable(p)
    <3>1. phase[p] = "start" /\ drawn[p] = 0 /\ table[p] = <<>>
      BY <1>2, <1>5, <1>11
    <3>2. DOMAIN table[p] = {}
      BY <3>1
    <3>3. QED
      BY <3>1, <3>2 DEF ProviderTable
  <2>3. QED
    BY <1>1, <2>1, <2>2 DEF Registry, Registration
<1>16a. Knocking
  BY <1>1, <1>11 DEF Knocking
<1>17. SrvTable /\ SrvSessions
  <2>1. PICK f : f = <<s>>
    OBVIOUS
  <2>2. DOMAIN f = {1} /\ f[1] = s
    BY <2>1
  <2>3. table[Srv] = f
    BY <1>5, <2>1
  <2>4. Extra = NoHandle
    BY <1>1 DEF Extra
  <2>5. 1..ports = {}
    BY <1>1
  <2>6. DOMAIN table[Srv] = {1} /\ table[Srv][1] = Obj("srv port", 0)
    BY <1>3, <2>2, <2>3, Zenon
  <2>7. SrvTable
    BY <2>4, <2>5, <2>6, Zenon DEF SrvTable
  <2>8. \A c \in Client : ~Accepted(c)
    BY <1>11 DEF Accepted
  <2>9. SrvSessions
    BY <2>6, <2>8, Zenon DEF SrvSessions
  <2>10. QED
    BY <2>7, <2>9
<1>18. Messages /\ Queues
  BY <1>1 DEF Messages, Queues
<1>19. Connecting /\ Finds
  BY <1>1, <1>2, <1>11 DEF Connecting, Finds
<1>20. PanicsAreJustified
  BY <1>1 DEF PanicsAreJustified
<1>21. QED
  BY <1>6, <1>7, <1>8, <1>9, <1>10, <1>12, <1>13, <1>14, <1>15, <1>16, <1>17, <1>18, <1>19, <1>20, <1>16a
  DEF Inv, Types

LEMMA NextInv == Inv /\ [Next]_vars => Inv'
<1> SUFFICES ASSUME Inv, [Next]_vars PROVE Inv'
  OBVIOUS
<1>1. CASE Next
  <2>1. panic = "none"
    BY <1>1 DEF Next
  <2>2. CASE AcceptClient \/ Receive
    BY <2>1, <2>2, AcceptClientStep, ReceiveStep
  <2>3. CASE HandleIpc
    BY <2>1, <2>3, RegisterClientStep, EnableNotificationStep, RegisterServiceStep, GetServiceHandleStep,
       SubscribeStep, ReceiveNotificationStep, PublishSteps DEF HandleIpc
  <2>4. CASE Connected \/ Reply
    BY <2>1, <2>4, ConnectedStep, ReplyStep
  <2>5. ASSUME NEW c \in Client, Continue(c) \/ Accept(c) \/ Serve(c) PROVE Inv'
    BY <2>1, <2>5, ContinueStep, AcceptStep, ServeStep
  <2>6. ASSUME NEW c \in Client, Connect(c) \/ Ask(c) \/ UseService(c) \/ CloseHandle(c) \/ Yield(c)
        PROVE  Inv'
    BY <2>1, <2>6, KnockStep, AskStep, UseServiceStep, CloseHandleStep, YieldStep
  <2>7. QED
    BY <1>1, <2>2, <2>3, <2>4, <2>5, <2>6 DEF Next, Loop
<1>2. CASE vars' = vars
  <2>1. SrvStays /\ phase' = phase /\ calls' = calls /\ user' = user /\ current' = current /\ panic' = panic
    BY <1>2 DEF vars, SrvStays, ipcVars, registryVars, clientVars
  <2>2. PanicsAreJustified' /\ panic' \in {"none", "service not found", "not implemented", "no port", "no handle"}
    BY <2>1 DEF Inv, Types, LoopTypes, PanicsAreJustified, SrvStays
  <2>3. QED
    BY <2>1, <2>2, PanicStep
<1>3. QED
  BY <1>1, <1>2

\* The inductive invariant: what is in a table, in a buffer and in srv's registry at every
\* stage of srv's loop (the await points of handle_ipc in srv.rs).
THEOREM InvHolds == Spec => []Inv
  BY InitInv, NextInv, PTL DEF Spec

-----------------------------------------------------------------------------
(* What follows from the invariant *)

LEMMA InvTypeOK == Inv => TypeOK
<1> SUFFICES ASSUME Inv PROVE TypeOK
  OBVIOUS
<1>1. Tables(table, drawn) /\ Buffers(ipcData) /\ RegistryTypes /\ PhaseType /\ LoopTypes /\ CallTypesOK
  BY DEF Inv, Types
<1>2. ASSUME NEW p \in Process
      PROVE  /\ DOMAIN table[p] \subseteq 1..drawn[p]
             /\ Range(table[p]) \subseteq Kind \X Nat
             /\ ipcData[p] \in Seq(Nat) /\ Len(ipcData[p]) = BufferWords
  <2>1. HandleTable(table[p], drawn[p])
    BY <1>1 DEF Tables
  <2>2. PICK f : f = table[p]
    OBVIOUS
  <2>3. Range(f) \subseteq Kind \X Nat
    BY <2>1, <2>2 DEF HandleTable, Range
  <2>4. ipcData[p] \in Seq(Nat) /\ Len(ipcData[p]) = BufferWords
    BY <1>1 DEF Buffers
  <2>5. QED
    BY <2>1, <2>2, <2>3, <2>4 DEF HandleTable
<1>3. queued \in [1..ports -> Seq(1..Len(sessions))]
  <2>1. queued \in Seq(Seq(Nat)) /\ Len(queued) = ports
    BY <1>1 DEF RegistryTypes
  <2>2. queued \in [1..ports -> Seq(Nat)]
    BY <2>1
  <2>3. PICK n \in Nat : n = Len(sessions)
    BY <1>1 DEF RegistryTypes
  <2>4. ASSUME NEW i \in 1..ports PROVE queued[i] \in Seq(1..n)
    <3>1. CASE queued[i] = <<>>
      BY <3>1, ListNone, Zenon
    <3>2. CASE queued[i] = <<n>> /\ n >= 1
      <4>1. PICK S : S = 1..n /\ n \in S
        BY <3>2
      <4>2. <<n>> \in Seq(S)
        BY <4>1, ListOne, Zenon
      <4>3. QED
        BY <3>2, <4>1, <4>2, Zenon
    <3>3. QED
      BY <2>3, <3>1, <3>2 DEF Inv, Queues, Connecting
  <2>5. QED
    BY <2>2, <2>3, <2>4
<1>4. \A c \in Client : calls[c] \in 0..MaxCalls[c]
  <2>1. \A c \in Client : calls[c] \in Nat /\ MaxCalls[c] \in Nat /\ calls[c] <= MaxCalls[c]
    BY <1>1, Constants DEF CallTypesOK
  <2>2. QED
    BY <2>1
<1>5. QED
  BY <1>1, <1>2, <1>3, <1>4 DEF TypeOK, RegistryTypes, PhaseType, LoopTypes, CallTypesOK

LEMMA InvNothingOverlooked == Inv => NothingOverlooked
<1> SUFFICES ASSUME Inv PROVE NothingOverlooked
  OBVIOUS
<1>1. \A c \in Client : phase[c] = "asking" => serving = c
  BY DEF Inv, Order
<1>2. \A c \in App : phase[c] = "using" => \E p \in Provider : phase[p] = "busy" /\ user[p] = c
  BY DEF Inv, Using
<1>3. ASSUME NEW i \in 1..ports, queued[i] # <<>>
      PROVE  \E p \in Provider : phase[p] = "accepting" /\ Obj("server port", i) \in Range(table[p])
  <2>1. stage = "connecting" /\ i = sessions[Len(sessions)]
    BY <1>3 DEF Inv, Queues
  <2>2. PICK p \in Provider : phase[p] = "accepting"
    BY <2>1 DEF Inv, Connecting
  <2>3. table[p][3] = Obj("server port", i) /\ 3 \in DOMAIN table[p]
    BY <2>1, <2>2 DEF Inv, Connecting, Registry, ProviderTable
  <2>4. Obj("server port", i) \in Range(table[p])
    BY <2>3 DEF Range
  <2>5. QED
    BY <2>2, <2>4
<1>4. \A c \in Client : phase[c] = "connecting" => stage = "knocked" /\ knocking = <<c>>
  BY DEF Inv, Knocking
<1>5. QED
  BY <1>1, <1>2, <1>3, <1>4 DEF NothingOverlooked

LEMMA InvNothingLeaks == Inv => NothingLeaks
<1> SUFFICES ASSUME Inv, stage = "waiting"
             PROVE  /\ IsInjective(table[Srv])
                    /\ Range(table[Srv]) = {Obj("srv port", 0)} \cup {Obj("client port", i) : i \in 1..ports}
                           \cup {Obj("srv server session", c) : c \in {d \in Client : Accepted(d)}}
                    /\ \A i \in 1..Len(services) : table[Srv][services[i].port] = Obj("client port", i)
  BY DEF NothingLeaks
<1>1. PICK k \in Nat : k = ports /\ Len(services) = k
  BY DEF Inv, Types, RegistryTypes
<1>2. PICK f : f = table[Srv]
  OBVIOUS
<1>3. PICK C : C = {d \in Client : Accepted(d)}
  OBVIOUS
<1>4. Extra = NoHandle /\ NoHandle \notin DOMAIN f
  BY <1>2, SrvHasNoHandle DEF Extra
<1>5. /\ 1 \in DOMAIN f /\ f[1] = Obj("srv port", 0)
      /\ \A i \in 1..k : services[i].port \in DOMAIN f /\ f[services[i].port] = Obj("client port", i)
      /\ \A h \in DOMAIN f : \/ h = 1 \/ \E i \in 1..k : h = services[i].port
                             \/ \E c \in C : f[h] = Obj("srv server session", c)
  BY <1>1, <1>2, <1>3, <1>4 DEF Inv, SrvTable
<1>6. /\ \A c \in C : \E h \in DOMAIN f : f[h] = Obj("srv server session", c)
      /\ \A c \in C, g, h \in DOMAIN f :
             f[g] = Obj("srv server session", c) /\ f[h] = Obj("srv server session", c) => g = h
  BY <1>2, <1>3 DEF Inv, SrvSessions
\* What a handle stands for says which handle it is.
<1>7. /\ \A h \in DOMAIN f : f[h] = Obj("srv port", 0) => h = 1
      /\ \A i \in 1..k : \A h \in DOMAIN f : f[h] = Obj("client port", i) => h = services[i].port
  <2>1. /\ \A i, j \in 1..k : Obj("client port", i) = Obj("client port", j) => i = j
        /\ \A i \in 1..k : Obj("client port", i) # Obj("srv port", 0)
        /\ \A c \in C : Obj("srv server session", c) # Obj("srv port", 0)
        /\ \A c \in C, i \in 1..k : Obj("srv server session", c) # Obj("client port", i)
    BY DEF Obj
  <2>2. ASSUME NEW h \in DOMAIN f
        PROVE  \/ f[h] = Obj("srv port", 0) /\ h = 1
               \/ \E i \in 1..k : f[h] = Obj("client port", i) /\ h = services[i].port
               \/ \E c \in C : f[h] = Obj("srv server session", c)
    <3>1. CASE \E i \in 1..k : h = services[i].port
      <4>1. PICK i \in 1..k : h = services[i].port
        BY <3>1
      <4>2. f[h] = Obj("client port", i)
        BY <1>5, <4>1, Zenon
      <4>3. QED
        BY <4>1, <4>2, Zenon
    <3>2. CASE h = 1
      BY <1>5, <3>2, Zenon
    <3>3. QED
      BY <1>5, <3>1, <3>2
  <2>3. ASSUME NEW h \in DOMAIN f, f[h] = Obj("srv port", 0) PROVE h = 1
    BY <2>1, <2>2, <2>3, Zenon
  <2>4. ASSUME NEW i \in 1..k, NEW h \in DOMAIN f, f[h] = Obj("client port", i)
        PROVE  h = services[i].port
    BY <2>1, <2>2, <2>4, Zenon
  <2>5. QED
    BY <2>3, <2>4, Zenon
<1>8. ASSUME NEW g \in DOMAIN f, NEW h \in DOMAIN f, f[g] = f[h] PROVE g = h
  <2>1. CASE h = 1
    BY <1>5, <1>7, <1>8, <2>1, Zenon
  <2>2. CASE \E i \in 1..k : h = services[i].port
    <3>1. PICK i \in 1..k : h = services[i].port
      BY <2>2
    <3>2. f[h] = Obj("client port", i)
      BY <1>5, <3>1, Zenon
    <3>3. QED
      BY <1>7, <1>8, <3>1, <3>2, Zenon
  <2>3. CASE \E c \in C : f[h] = Obj("srv server session", c)
    BY <1>6, <1>8, <2>3, Zenon
  <2>4. QED
    BY <1>5, <2>1, <2>2, <2>3
<1>9. IsInjective(f)
  BY <1>8, Zenon DEF IsInjective
<1>10. Range(f) = {Obj("srv port", 0)} \cup {Obj("client port", i) : i \in 1..k}
                      \cup {Obj("srv server session", c) : c \in C}
  <2>1. PICK P : P = {Obj("client port", i) : i \in 1..k}
    OBVIOUS
  <2>2. PICK S : S = {Obj("srv server session", c) : c \in C}
    OBVIOUS
  <2>3. /\ \A i \in 1..k : Obj("client port", i) \in P
        /\ \A x \in P : \E i \in 1..k : x = Obj("client port", i)
    BY <2>1, Zenon
  <2>4. /\ \A c \in C : Obj("srv server session", c) \in S
        /\ \A x \in S : \E c \in C : x = Obj("srv server session", c)
    BY <2>2, Zenon
  <2>5. PICK R : R = {Obj("srv port", 0)} \cup P \cup S
    OBVIOUS
  <2>6. /\ \A x : x \in R => x = Obj("srv port", 0) \/ x \in P \/ x \in S
        /\ Obj("srv port", 0) \in R /\ (\A x \in P : x \in R) /\ \A x \in S : x \in R
    BY <2>5
  <2>7. ASSUME NEW h \in DOMAIN f PROVE f[h] \in R
    <3>1. CASE h = 1
      BY <1>5, <2>6, <3>1, Zenon
    <3>2. CASE \E i \in 1..k : h = services[i].port
      <4>1. PICK i \in 1..k : h = services[i].port
        BY <3>2
      <4>2. f[h] = Obj("client port", i)
        BY <1>5, <4>1, Zenon
      <4>3. Obj("client port", i) \in P
        BY <2>3, Zenon
      <4>4. QED
        BY <2>6, <4>2, <4>3, Zenon
    <3>3. CASE \E c \in C : f[h] = Obj("srv server session", c)
      BY <2>4, <2>6, <3>3, Zenon
    <3>4. QED
      BY <1>5, <3>1, <3>2, <3>3
  <2>8. ASSUME NEW x \in R PROVE \E h \in DOMAIN f : f[h] = x
    <3>1. CASE x = Obj("srv port", 0)
      BY <1>5, <3>1, Zenon
    <3>2. CASE x \in P
      <4>1. PICK i \in 1..k : x = Obj("client port", i)
        BY <2>3, <3>2
      <4>2. PICK h : h = services[i].port
        OBVIOUS
      <4>3. h \in DOMAIN f /\ f[h] = x
        BY <1>5, <4>1, <4>2, Zenon
      <4>4. QED
        BY <4>3
    <3>3. CASE x \in S
      <4>1. PICK c \in C : x = Obj("srv server session", c)
        BY <2>4, <3>3
      <4>2. PICK h \in DOMAIN f : f[h] = Obj("srv server session", c)
        BY <1>6, <4>1
      <4>3. QED
        BY <4>1, <4>2
    <3>4. QED
      BY <2>6, <3>1, <3>2, <3>3
  <2>9. Range(f) = R
    BY <2>7, <2>8 DEF Range
  <2>10. QED
    BY <2>1, <2>2, <2>5, <2>9, Zenon
<1>11. \A i \in 1..k : f[services[i].port] = Obj("client port", i)
  BY <1>5
<1>12. QED
  BY <1>1, <1>2, <1>3, <1>9, <1>10, <1>11, Zenon

\* A client that finds a handle in its answer goes on with it.
LEMMA AnswerFound ==
    ASSUME NEW c \in Client, NEW h, GivenTo(c, h)
    PROVE  Answer(c) = h
<1>1. PICK params : params = Read(ipcData[c], TRUE).params
  OBVIOUS
<1>2. params = <<HandleParam(TRUE, FALSE, <<h>>)>>
  BY <1>1 DEF GivenTo, Moved
<1>3. Len(params) = 1 /\ params[1] = HandleParam(TRUE, FALSE, <<h>>)
  BY <1>2
<1>4. params[1].handles = <<h>>
  BY <1>3 DEF HandleParam
<1>5. Len(<<h>>) = 1 /\ <<h>>[1] = h
  OBVIOUS
<1>6. QED
  BY <1>1, <1>3, <1>4, <1>5, Zenon DEF Answer

LEMMA InvSessionsLead == Inv => SessionsLead
<1> SUFFICES ASSUME Inv, NEW c \in App, phase[c] = "answered", asked[c].call = "GetServiceHandle"
             PROVE  \E p \in Provider, n \in 1..Len(sessions) :
                        /\ table[c][Answer(c)] = Obj("client session", n)
                        /\ {Obj("server session", n), Obj("server port", sessions[n])} \subseteq Range(table[p])
                        /\ asked[p].word = asked[c].word
                        /\ \A q \in Provider : q < p => asked[q].word # asked[c].word
  BY DEF SessionsLead
<1>1. c \in Client
  BY Constants
<1>2. PICK h \in DOMAIN table[c] : GivenTo(c, h)
  BY <1>1 DEF Inv, Finds
<1>3. PICK n \in 1..Len(sessions) : table[c][h] = Obj("client session", n) /\ Leads(n, asked[c].word)
  BY <1>2 DEF GivenTo
<1>4. PICK p \in Provider :
        /\ phase[p] \notin New /\ First(p, asked[c].word)
        /\ \E g \in DOMAIN table[p] : table[p][g] = Obj("server session", n)
        /\ table[p][3] = Obj("server port", sessions[n])
  BY <1>3 DEF Leads
<1>5. 3 \in DOMAIN table[p]
  BY <1>4 DEF Inv, Registry, ProviderTable
<1>6. {Obj("server session", n), Obj("server port", sessions[n])} \subseteq Range(table[p])
  BY <1>4, <1>5 DEF Range
<1>7. Answer(c) = h
  BY <1>1, <1>2, AnswerFound
<1>8. QED
  BY <1>3, <1>4, <1>6, <1>7 DEF First

-----------------------------------------------------------------------------
(* Theorems *)

\* Tables, messages, the registry and the loops of srv and its clients keep their types:
\* every handle that the kernel inserts into a table is one that the table has drawn, and
\* no message that srv or SrvInterface writes outgrows the command buffer.
THEOREM SrvTypes == Spec => []TypeOK
  BY InvHolds, InvTypeOK, PTL

\* No unwrap() of srv or of SrvInterface fails but the documented ones: srv panics only if
\* it is asked for a service that no provider has registered, when every provider is
\* through with its registration, or to publish what somebody has subscribed to.
THEOREM SrvPanicsAreJustified == Spec => []PanicsAreJustified
<1>1. Inv => PanicsAreJustified
  BY DEF Inv
<1>2. QED
  BY <1>1, InvHolds, PTL

\* Ports and sessions wake only a thread that already waits for them (wait() in port.rs and
\* session.rs), and nobody is missed for it: whoever connects to srv or calls it has woken it,
\* whoever uses a service has a provider at work, and a session in a port's queue has a
\* provider that was woken to accept it.
THEOREM SrvNothingOverlooked == Spec => []NothingOverlooked
  BY InvHolds, InvNothingOverlooked, PTL

\* Every handle that srv draws for a caller leaves with the response, by translate_ipc: when
\* srv waits, its table holds, once each, its own port, the client ends of the registered
\* ports and the sessions that it has accepted itself (srv.rs:43-47).
THEOREM SrvNothingLeaks == Spec => []NothingLeaks
  BY InvHolds, InvNothingLeaks, PTL

\* get_service_handle gives a session whose other end was accepted by the provider that was
\* the first to register the name (find_service), through the port made for it.
THEOREM SrvSessionsLead == Spec => []SessionsLead
  BY InvHolds, InvSessionsLead, PTL

=============================================================================
