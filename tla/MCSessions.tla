----------------------------- MODULE MCSessions -----------------------------
(* Instances of Sessions for TLC. *)
EXTENDS Sessions

Endpoints == {"server", "client"} \X (0..MaxSessions)
=============================================================================
