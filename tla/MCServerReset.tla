--------------------------- MODULE MCServerReset ---------------------------
(* ServerReset with two clients, a seed of two rows and a third key; the     *)
(* configured schema is a plain table, or a table with a trigger.            *)
EXTENDS ServerReset, TLC

Plain == {{"table"}}
Triggered == {{"table", "trigger"}}
PlainOrTriggered == Plain \cup Triggered

Interchangeable ==
    Permutations(Clients) \cup Permutations(Seed) \cup Permutations(Keys \ Seed)
=============================================================================
