-------------------------------- MODULE Rpc --------------------------------
(***************************************************************************)
(* What a session promises to the threads that call through it, whatever   *)
(* the ports, wakers, handles and scheduler below do (KClientSession and   *)
(* KServerSession of kernel/src/object/mod.rs): a call is one request and  *)
(* one answer to it, the calls through one session are answered in the     *)
(* order they were made, and a thread makes no second call before it has   *)
(* the answer to the first.  Sessions implements it.                       *)
(***************************************************************************)
EXTENDS Naturals, Sequences

CONSTANTS
    Caller,   \* the threads that may call
    Channel   \* the sessions

VARIABLES
    calls,    \* the threads that wait for an answer from every session
    slot,     \* the message in every thread's slot
    heard     \* the message every thread has taken out of its slot

rpcVars == <<calls, slot, heard>>

Request(t, n) == [kind |-> "request", thread |-> t, number |-> n]
Response(m) == [m EXCEPT !.kind = "response"]

Init ==
    /\ calls = [i \in Channel |-> <<>>]
    /\ slot = [t \in Caller |-> Request(t, 0)]
    /\ heard = slot

\* A thread that has heard the last answer makes its next request.
Ask(t, i) ==
    /\ heard[t] = slot[t]
    /\ slot' = [slot EXCEPT ![t] = Request(t, @.number + 1)]
    /\ calls' = [calls EXCEPT ![i] = Append(@, t)]
    /\ UNCHANGED heard

\* The first request is answered, to the thread that made it.
Answer(i) ==
    /\ calls[i] # <<>>
    /\ slot' = [slot EXCEPT ![Head(calls[i])] = Response(@)]
    /\ calls' = [calls EXCEPT ![i] = Tail(@)]
    /\ UNCHANGED heard

Hear(t) ==
    /\ slot[t].kind = "response"
    /\ heard' = [heard EXCEPT ![t] = slot[t]]
    /\ UNCHANGED <<calls, slot>>

Next ==
    \/ \E t \in Caller, i \in Channel : Ask(t, i)
    \/ \E i \in Channel : Answer(i)
    \/ \E t \in Caller : Hear(t)

Spec == Init /\ [][Next]_rpcVars

=============================================================================
