------------------------------ MODULE MCUpsert ------------------------------
(* Upsert for two sessions on a table that starts with two rows.        *)
(* Nothing in Upsert tells one session from the other.                    *)
EXTENDS Upsert, TLC

CONSTANTS s1, s2, a, b, x

TwoRows == {[rowid |-> 1, id |-> 1, code |-> a, ref |-> x],
            [rowid |-> 2, id |-> 2, code |-> b, ref |-> Null]}

Interchangeable == Permutations(Sessions)
=============================================================================
