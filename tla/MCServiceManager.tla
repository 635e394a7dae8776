-------------------------- MODULE MCServiceManager --------------------------
(* An instance of ServiceManager for TLC. *)
EXTENDS ServiceManager

\* Providers register; the first app makes two calls, the others one.
Calls == [c \in Client |-> IF c \in App /\ \A a \in App : c <= a THEN 2 ELSE 1]

=============================================================================
