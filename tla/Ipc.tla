-------------------------------- MODULE Ipc --------------------------------
(***************************************************************************)
(* Handle tables (kernel/src/object_manager.rs, CommonProcess), the words  *)
(* of a command buffer (kernel/src/ipc.rs) and translate_ipc, which copies *)
(* a message from one process to another and takes its handles with it.    *)
(*                                                                         *)
(* Handles are drawn from a generator that starts from the same seed in    *)
(* every table: the n-th handle drawn is n in all of them.  A process has  *)
(* one ipc_data, that of the thread that makes its calls.                  *)
(***************************************************************************)
EXTENDS Integers, SequencesExt

CONSTANTS
    Process,
    BufferWords,    \* the length of ipc_data
    CurrentProcess  \* the pseudo-handle 0xFFFF8001

NoHandle == 0

ASSUME IpcAssumption ==
    /\ BufferWords \in Nat
    /\ CurrentProcess \in Nat \ {NoHandle}

VARIABLES
    table,   \* KObjectTable of every process
    drawn,   \* how many handles every table has drawn
    ipcData  \* CommonThread.ipc_data

ipcVars == <<table, drawn, ipcData>>

-----------------------------------------------------------------------------
(* Command buffers *)

CountBit == 2^26

\* What dropping an IPCWriter or an IPCResponse puts in front of the message.
Header(id, normal, translate) == id * 2^16 + normal * 2^6 + translate

\* IPCHeaderCode::from.
HeaderCode(word) ==
    [command   |-> word \div 2^16,
     normal    |-> (word \div 2^6) % 2^6,
     translate |-> word % 2^6]

\* A translate parameter that names handles.
HandleParam(moved, calling, handles) ==
    [moved |-> moved, calling |-> calling, handles |-> handles]

\* write_translate: the descriptor and the handles.
TranslateWords(p) ==
    <<(Len(p.handles) - 1) * CountBit + (IF p.calling THEN 32 ELSE 0)
                                      + (IF p.moved THEN 16 ELSE 0)>> \o p.handles

\* A message: the header counts the words that follow it.
Message(command, result, normals, translate) ==
    LET words == FlattenSeq(translate)
    IN  <<Header(command, Len(normals), Len(words))>> \o result \o normals \o words

\* An IPCWriter or IPCResponse from new() to drop().
Written(command, result, normals, params) ==
    Message(command, result, normals, [i \in 1..Len(params) |-> TranslateWords(params[i])])

RequestWords(command, normals, params) == Written(command, <<>>, normals, params)
ResponseWords(command, normals, params) == Written(command, <<0>>, normals, params)

\* Fault: the buffer is cut off after the message.
OverCut(buffer, words) == words

\* Writing leaves the rest of the buffer as it was.
Over(buffer, words) == words \o SubSeq(buffer, Len(words) + 1, Len(buffer))

IsHandles(descriptor) == descriptor % 8 = 0

\* read_translate at word k of the buffer: handles, or a static or mapped buffer,
\* which is its descriptor and one word.
ParamAt(b, k) ==
    LET calling == (b[k] \div 32) % 2 = 1
    IN  IF IsHandles(b[k])
        THEN HandleParam((b[k] \div 16) % 2 = 1, calling,
                 [i \in 1..(b[k] \div CountBit) + 1 |-> IF calling THEN CurrentProcess
                                                                  ELSE b[k + i]])
        ELSE HandleParam(FALSE, FALSE, <<>>)

ParamSize(b, k) == IF IsHandles(b[k]) THEN (b[k] \div CountBit) + 2 ELSE 2

\* Where read_translate starts, the first time and after every parameter.
Places(b, start, end) ==
    LET at[n \in 0..(end - start)] ==
            IF n = 0 THEN start ELSE at[n - 1] + ParamSize(b, at[n - 1])
    IN  at

\* read_translate while has_more_translate_params.
Params(b, start, end) ==
    LET at    == Places(b, start, end)
        count == CHOOSE n \in 0..(end - start) :
                     at[n] >= end /\ \A m \in 0..(n - 1) : at[m] < end
    IN  [n \in 1..count |-> ParamAt(b, at[n - 1])]

\* An IPCReader or IPCRequest that reads everything; a response has its result
\* between the header and the parameters.
Read(b, reply) ==
    LET header == HeaderCode(b[1])
        first  == IF reply THEN 3 ELSE 2
        start  == first + header.normal
    IN  [command |-> header.command,
         result  |-> SubSeq(b, 2, first - 1),
         normals |-> SubSeq(b, first, start - 1),
         params  |-> Params(b, start, start + header.translate)]

-----------------------------------------------------------------------------
(* Handle tables *)

\* ObjectTable::insert
InsertHandle(t, d, p, object) ==
    [table |-> [t EXCEPT ![p] = [h \in DOMAIN @ \cup {d[p] + 1} |->
                                     IF h = d[p] + 1 THEN object ELSE @[h]]],
     drawn |-> [d EXCEPT ![p] = @ + 1]]

\* ObjectTable::remove
RemoveHandle(t, p, handle) ==
    [t EXCEPT ![p] = [h \in DOMAIN @ \ {handle} |-> @[h]]]

\* KernelExt::new_object_handle
NewHandle(p, object) ==
    /\ table' = InsertHandle(table, drawn, p, object).table
    /\ drawn' = InsertHandle(table, drawn, p, object).drawn

-----------------------------------------------------------------------------
(* translate_ipc *)

\* Fault: the receiver is told the sender's handle.
TranslateHandleSame(st, handle, moved, p, q) ==
    IF handle \notin DOMAIN st.table[p]
    THEN [st EXCEPT !.handles = Append(@, NoHandle)]
    ELSE LET out == IF moved THEN RemoveHandle(st.table, p, handle) ELSE st.table
             in  == InsertHandle(out, st.drawn, q, st.table[p][handle])
         IN  [table |-> in.table, drawn |-> in.drawn, handles |-> Append(st.handles, handle)]

\* translate_handle: a handle that names nothing arrives as none.
TranslateHandle(st, handle, moved, p, q) ==
    IF handle \notin DOMAIN st.table[p]
    THEN [st EXCEPT !.handles = Append(@, NoHandle)]
    ELSE LET out == IF moved THEN RemoveHandle(st.table, p, handle) ELSE st.table
             in  == InsertHandle(out, st.drawn, q, st.table[p][handle])
         IN  [table |-> in.table, drawn |-> in.drawn,
              handles |-> Append(st.handles, in.drawn[q])]

\* The handles of a parameter, in order.
TranslateHandles(st, handles, moved, p, q) ==
    LET done[n \in 0..Len(handles)] ==
            IF n = 0 THEN [table |-> st.table, drawn |-> st.drawn, handles |-> <<>>]
            ELSE TranslateHandle(done[n - 1], handles[n], moved, p, q)
    IN  done[Len(handles)]

\* Fault: a single handle is copied even if it is to be moved.
TranslateParamSingle(st, param, p, q) ==
    LET moved == param.moved /\ Len(param.handles) > 1
        done  == TranslateHandles(st, param.handles, moved, p, q)
    IN  IF param.handles = <<>> THEN st
        ELSE [table  |-> done.table, drawn |-> done.drawn,
              params |-> Append(st.params, HandleParam(param.moved, param.calling, done.handles))]

\* A parameter that names handles; buffers are not implemented and left out.
TranslateParam(st, param, p, q) ==
    LET done == TranslateHandles(st, param.handles, param.moved, p, q)
    IN  IF param.handles = <<>> THEN st
        ELSE [table  |-> done.table, drawn |-> done.drawn,
              params |-> Append(st.params, HandleParam(param.moved, param.calling, done.handles))]

\* All parameters, in order.
TranslateParams(params, p, q) ==
    LET done[n \in 0..Len(params)] ==
            IF n = 0 THEN [table |-> table, drawn |-> drawn, params |-> <<>>]
            ELSE TranslateParam(done[n - 1], params[n], p, q)
    IN  done[Len(params)]

\* The message in p's ipc_data becomes one in q's.
TranslateIpc(p, q, reply) ==
    \E m \in {Read(ipcData[p], reply)} :
    \E done \in {TranslateParams(m.params, p, q)} :
        /\ table' = done.table
        /\ drawn' = done.drawn
        /\ ipcData' = [ipcData EXCEPT ![q] =
               Over(@, Written(m.command, m.result, m.normals, done.params))]

=============================================================================
