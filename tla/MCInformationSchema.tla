------------------------ MODULE MCInformationSchema ------------------------
(* InformationSchema for two sessions connected to the same database name.   *)
EXTENDS InformationSchema

CONSTANTS s1, s2, db1

SameDb == [k \in {s1, s2} |-> db1]
=============================================================================
