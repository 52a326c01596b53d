------------------------- MODULE MCServerLifecycle -------------------------
(* ServerLifecycle with a pool of two driver connections, one of which is   *)
(* the server's own: every second client meets an exhausted pool.           *)
EXTENDS ServerLifecycle
=============================================================================
