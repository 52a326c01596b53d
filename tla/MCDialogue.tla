----------------------------- MODULE MCDialogue -----------------------------
(* Dialogue for a client that binds one of two vectors of parameter types.  *)
EXTENDS Dialogue
CONSTANTS ta, tb
MCTypes == {ta, tb}
=============================================================================
