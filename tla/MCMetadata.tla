----------------------------- MODULE MCMetadata -----------------------------
(* Metadata for two sessions and two tables.  A Reset is a full one where    *)
(* the script has a trigger, and data-only elsewhere until a client makes    *)
(* one.                                                                      *)
EXTENDS Metadata, TLC

CONSTANTS t, u, i

Create(table, shape, indexes) ==
    [op |-> "create", table |-> table, shape |-> shape, indexes |-> indexes]
CreateIfNotExists(table, shape) ==
    [op |-> "createIfNotExists", table |-> table, shape |-> shape, indexes |-> {}]
AddIndex(table, index) == [op |-> "addIndex", table |-> table, index |-> index]
Rename(table, to) == [op |-> "rename", table |-> table, to |-> to]
Drop(table) == [op |-> "drop", table |-> table]
Trigger == [op |-> "trigger"]

\* Plain use; a table created over; one renamed away and one dropped, so that
\* the maps keep the old names; an index name that is taken; plain use again.
SomeScripts ==
    {<<Create(t, "auto", {i}), CreateIfNotExists(u, "composite"), AddIndex(u, i), Trigger>>,
     <<Create(t, "plain", {}), CreateIfNotExists(t, "composite"),
       Create(u, "auto", {i})>>,
     <<Create(t, "auto", {i}), Rename(t, u), Create(t, "plain", {})>>,
     <<Create(t, "auto", {i}), Drop(t), Create(u, "plain", {i}), Trigger>>,
     <<Create(t, "auto", {i}), Rename(t, u), Create(t, "plain", {i})>>,
     <<Create(t, "auto", {i}), AddIndex(t, i)>>,
     <<Create(t, "auto", {i}), Create(u, "plain", {})>>}

\* A client drops a table, or gives it, or a new one, AUTOINCREMENT and an index.
SomeRemade == {NoTable, [shape |-> "auto", indexes |-> {<<u, i>>}]}

Interchangeable == Permutations(Sessions)
=============================================================================
