----------------------------- MODULE MCSession -----------------------------
(* Session for two clients on two driver connections.  Nothing in Session   *)
(* tells one client, or one driver connection, from another.                *)
EXTENDS Session, TLC

Interchangeable ==
    Permutations(Clients) \cup Permutations(DriverConns)
=============================================================================
