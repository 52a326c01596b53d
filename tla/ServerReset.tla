---------------------------- MODULE ServerReset ----------------------------
(***************************************************************************)
(* Server.Reset on the server's own SQLite connection, next to clients     *)
(* that read and write the shared database: the choice between a data-only *)
(* and a full reset, the two transactions of either (delete or drop, then  *)
(* seed or set up), the error paths of withSQLiteTransaction and the       *)
(* context a caller may let expire.                                        *)
(*                                                                         *)
(* The database has one configured table, whose rows are keys, possibly a  *)
(* trigger, and what clients add to the schema at run time.  A step of     *)
(* Reset is one SQLite statement.  Calls of Reset do not overlap.  What    *)
(* Reset clears in memory (diagnostics, once rules, AUTO_INCREMENT         *)
(* allocations) is left out; the parsed table metadata is not.             *)
(***************************************************************************)
EXTENDS Naturals, FiniteSets

CONSTANTS
    Clients,
    Keys,        \* keys of rows, those of the seed and those clients insert
    Seed,        \* keys of the configured seed rows
    Schemas,     \* the configurations looked at: each a set of Objects
    Habits,      \* what happens besides: callers' deadlines, runtime DDL
    Nobody,      \* no connection has SQLite's write lock
    Server,      \* keepConn, the server's own connection
    MaxResets    \* bound of the model: calls of Reset

Objects == {"table", "trigger", "extra"}

ASSUME ResetAssumption ==
    /\ Seed \subseteq Keys
    /\ \A s \in Schemas : "table" \in s /\ s \subseteq {"table", "trigger"}
    /\ Habits \subseteq {"deadline", "ddl"}
    /\ Nobody \notin Clients /\ Server \notin Clients /\ Nobody # Server
    /\ MaxResets \in Nat

VARIABLES
    configured,  \* objects of s.preparedSchema
    committed,   \* what a new statement on any connection sees
    working,     \* what the connection with the write lock sees
    writer,      \* the connection that has the write lock
    reading,     \* clients with read locks: a SELECT inside a transaction
    foreignKeys, \* PRAGMA foreign_keys of keepConn
    version,     \* s.schemaVersion
    base,        \* s.baseSchemaVersion
    metadata,    \* whether the index, column and DDL maps describe the schema
    pc,          \* the statement of Reset that comes next
    kind,        \* resetKind
    expired,     \* the context of the running Reset is done
    result,      \* what the last Reset returned
    resets,      \* bound: calls of Reset so far
    late,        \* history: rows clients wrote after the first commit of Reset
    disturbed,   \* history: a client had locks or wrote during this Reset
    cut,         \* history: the context of some Reset was done before it was
    changed      \* history: a client changed the schema

dbVars == <<committed, working, writer>>
memVars == <<version, base, metadata>>
callVars == <<kind, expired, result, resets>>
pastVars == <<cut, changed>>
history == <<late, disturbed, pastVars>>
vars == <<configured, dbVars, reading, foreignKeys, memVars, pc, callVars, history>>

Databases == [schema : SUBSET Objects, rows : SUBSET Keys]

\* The statements of the two transactions, and those before and after them.
First == {"clear", "commitFirst"}
Second == {"setUp", "seeding"}
Steps == {"idle", "decide", "foreignKeysOff", "beginFirst", "foreignKeysOn",
          "beginSecond", "finish"} \cup First \cup Second

TypeOK ==
    /\ configured \in SUBSET Objects
    /\ committed \in Databases /\ working \in Databases
    /\ writer \in Clients \cup {Nobody, Server}
    /\ reading \in SUBSET Clients
    /\ foreignKeys \in BOOLEAN
    /\ version \in Nat /\ base \in 0..version
    /\ metadata \in BOOLEAN
    /\ pc \in Steps
    /\ kind \in {"data", "full"}
    /\ expired \in BOOLEAN
    /\ result \in {"none", "ok", "error"}
    /\ resets \in 0..MaxResets
    /\ late \in SUBSET Keys
    /\ disturbed \in BOOLEAN /\ cut \in BOOLEAN /\ changed \in BOOLEAN

\* openBackend has committed the configured schema and seed.
Init ==
    /\ configured \in Schemas
    /\ committed = [schema |-> configured, rows |-> Seed]
    /\ working = committed
    /\ writer = Nobody /\ reading = {}
    /\ foreignKeys = TRUE
    /\ version = 0 /\ base = 0 /\ metadata = TRUE
    /\ pc = "idle" /\ kind = "data" /\ expired = FALSE /\ result = "none"
    /\ resets = 0
    /\ late = {} /\ disturbed = FALSE /\ cut = FALSE /\ changed = FALSE

-----------------------------------------------------------------------------
(* SQLite, as keepConn meets it.                                           *)

\* keepConn's view: its own transaction's if it is in one.
Seen == IF writer = Server THEN working ELSE committed

\* PRAGMA foreign_keys does nothing inside a transaction.
ForeignKeysSet(value) == IF writer = Server THEN foreignKeys ELSE value

\* The open transaction of keepConn goes to database db.
Works(db) == working' = db /\ UNCHANGED <<committed, writer>>

\* Another connection's read locks can refuse a statement or a commit: of a
\* shared cache the statement, of a file the commit.
Obstructed == reading # {}

-----------------------------------------------------------------------------
(* Reset.                                                                  *)

ResetCall ==
    /\ pc = "idle" /\ resets < MaxResets
    /\ pc' = "decide"
    /\ expired' = FALSE
    /\ resets' = resets + 1
    /\ late' = {}
    /\ disturbed' = (reading # {} \/ writer \in Clients)
    /\ UNCHANGED <<configured, dbVars, reading, foreignKeys, memVars, kind, result,
                   pastVars>>

\* Reset returns an error.
Fails == pc' = "idle" /\ result' = "error"

\* canResetBackendData and the comparison of versions; a full reset forgets
\* the metadata maps before it touches SQLite.
DataOnly == version = base /\ "trigger" \notin Seen.schema

Decide ==
    /\ pc = "decide"
    /\ \/ expired /\ Fails /\ UNCHANGED <<kind, metadata>>
       \/ /\ ~expired
          /\ kind' = IF DataOnly THEN "data" ELSE "full"
          /\ metadata' = (DataOnly /\ metadata)
          /\ pc' = "foreignKeysOff"
          /\ UNCHANGED result
    /\ UNCHANGED <<configured, dbVars, reading, foreignKeys, version, base, expired,
                   resets, history>>

ForeignKeysOff ==
    /\ pc = "foreignKeysOff"
    /\ \/ expired /\ Fails /\ UNCHANGED foreignKeys
       \/ /\ ~expired
          /\ foreignKeys' = ForeignKeysSet(FALSE)
          /\ pc' = "beginFirst"
          /\ UNCHANGED result
    /\ UNCHANGED <<configured, dbVars, reading, memVars, kind, expired, resets, history>>

\* BEGIN IMMEDIATE succeeds when the context lives and nobody has the lock,
\* keepConn itself included.
CanBegin == ~expired /\ writer = Nobody

BeginFirst ==
    /\ pc = "beginFirst"
    /\ \/ /\ CanBegin
          /\ writer' = Server /\ working' = committed
          /\ pc' = "clear"
          /\ UNCHANGED <<committed, foreignKeys, result>>
       \/ /\ ~CanBegin /\ Fails
          /\ foreignKeys' = IF expired THEN foreignKeys ELSE ForeignKeysSet(TRUE)
          /\ UNCHANGED dbVars
    /\ UNCHANGED <<configured, reading, memVars, kind, expired, resets, history>>

\* Mutant of Clear: a full reset drops, a data-only one does not delete.
ClearSchemaOnly ==
    /\ pc = "clear" /\ ~expired
    /\ IF kind = "data" THEN UNCHANGED dbVars
       ELSE Works([schema |-> {}, rows |-> {}])
    /\ pc' = "commitFirst"
    /\ UNCHANGED <<configured, reading, foreignKeys, memVars, callVars, history>>

\* deleteSQLiteTableRows and resetSQLiteSequences, or dropSQLiteObjects.
Clear ==
    /\ pc = "clear" /\ ~expired
    /\ Works([schema |-> IF kind = "data" THEN working.schema ELSE {}, rows |-> {}])
    /\ pc' = "commitFirst"
    /\ UNCHANGED <<configured, reading, foreignKeys, memVars, callVars, history>>

CommitFirst ==
    /\ pc = "commitFirst" /\ ~expired
    /\ committed' = working /\ writer' = Nobody
    /\ pc' = "foreignKeysOn"
    /\ UNCHANGED <<configured, working, reading, foreignKeys, memVars, callVars, history>>

ForeignKeysOn ==
    /\ pc = "foreignKeysOn"
    /\ \/ expired /\ Fails /\ UNCHANGED foreignKeys
       \/ /\ ~expired
          /\ foreignKeys' = TRUE
          /\ pc' = "beginSecond"
          /\ UNCHANGED result
    /\ UNCHANGED <<configured, dbVars, reading, memVars, kind, expired, resets, history>>

BeginSecond ==
    /\ pc = "beginSecond"
    /\ \/ /\ CanBegin
          /\ writer' = Server /\ working' = committed
          /\ pc' = "setUp"
          /\ UNCHANGED <<committed, result>>
       \/ ~CanBegin /\ Fails /\ UNCHANGED dbVars
    /\ UNCHANGED <<configured, reading, foreignKeys, memVars, kind, expired, resets,
                   history>>

\* applySchema, of a full reset only; it fills the metadata maps again.
SetUp ==
    /\ pc = "setUp" /\ ~expired
    /\ IF kind = "full"
       THEN /\ Works([working EXCEPT !.schema = @ \cup configured])
            /\ metadata' = TRUE
       ELSE UNCHANGED <<dbVars, metadata>>
    /\ pc' = "seeding"
    /\ UNCHANGED <<configured, reading, foreignKeys, version, base, callVars, history>>

\* applySeedRows inserts the rows one by one ...
SeedRow ==
    /\ pc = "seeding" /\ ~expired
    /\ "table" \in working.schema
    /\ \E r \in Seed \ working.rows : Works([working EXCEPT !.rows = @ \cup {r}])
    /\ UNCHANGED <<configured, reading, foreignKeys, memVars, pc, callVars, history>>

\* ... and fails on a key a client inserted since, or without the table.
SeedRefused ==
    /\ pc = "seeding"
    /\ "table" \notin working.schema \/ Seed \cap committed.rows # {}

\* Mutant of CommitSecond: the seed loop stops early.
CommitSeedEarly ==
    /\ pc = "seeding" /\ ~expired
    /\ Seed \cap (working.rows \ committed.rows) # {}
    /\ committed' = working /\ writer' = Nobody
    /\ pc' = "finish"
    /\ UNCHANGED <<configured, working, reading, foreignKeys, memVars, callVars, history>>

CommitSecond ==
    /\ pc = "seeding" /\ ~expired
    /\ Seed \subseteq working.rows \ committed.rows
    /\ committed' = working /\ writer' = Nobody
    /\ pc' = "finish"
    /\ UNCHANGED <<configured, working, reading, foreignKeys, memVars, callVars, history>>

\* Mutant of Finish: the next version becomes the base before it exists.
FinishUnbumped ==
    /\ pc = "finish"
    /\ base' = IF kind = "full" THEN version + 1 ELSE base
    /\ pc' = "idle" /\ result' = "ok"
    /\ UNCHANGED <<configured, dbVars, reading, foreignKeys, version, metadata, kind,
                   expired, resets, history>>

\* bumpSchemaVersion and baseSchemaVersion.Store, of a full reset.
Finish ==
    /\ pc = "finish"
    /\ IF kind = "full"
       THEN version' = version + 1 /\ base' = version + 1
       ELSE UNCHANGED <<version, base>>
    /\ pc' = "idle" /\ result' = "ok"
    /\ UNCHANGED <<configured, dbVars, reading, foreignKeys, metadata, kind, expired,
                   resets, history>>

\* Mutant of RolledBack: withSQLiteTransaction without its deferred ROLLBACK.
NotRolledBack == writer' = Server

\* A statement of withSQLiteTransaction fails and its deferred ROLLBACK runs
\* under the same context: once that is done the driver refuses the ROLLBACK
\* unheard.  SQLite itself rolls back what it interrupts in the middle.
RolledBack ==
    \/ writer' = Nobody
    \/ expired /\ writer' = Server

TransactionFails ==
    /\ pc \in First \cup Second
    /\ expired \/ Obstructed \/ SeedRefused
    /\ Fails
    /\ RolledBack
    /\ foreignKeys' = IF pc \in First /\ ~expired THEN TRUE ELSE foreignKeys
    /\ UNCHANGED <<configured, committed, working, reading, memVars, kind, expired,
                   resets, history>>

\* The caller's deadline passes, or it cancels.
ContextExpires ==
    /\ "deadline" \in Habits /\ pc # "idle" /\ ~expired
    /\ expired' = TRUE /\ cut' = TRUE
    /\ UNCHANGED <<configured, dbVars, reading, foreignKeys, memVars, pc, kind, result,
                   resets, late, disturbed, changed>>

ResetStep ==
    \/ Decide \/ ForeignKeysOff \/ BeginFirst \/ Clear \/ CommitFirst
    \/ ForeignKeysOn \/ BeginSecond \/ SetUp \/ SeedRow \/ CommitSecond
    \/ Finish \/ TransactionFails

-----------------------------------------------------------------------------
(* The clients.                                                            *)

ClientVars == <<configured, foreignKeys, memVars, pc, callVars>>
Disturbs == disturbed' = (disturbed \/ pc # "idle")

\* Rows that a client's commit of db adds after Reset's first commit.
Late(db) ==
    IF pc \in {"foreignKeysOn", "beginSecond"}
    THEN (late \cup (db.rows \ committed.rows)) \cap db.rows ELSE late

\* BEGIN and a SELECT.
ReadIn(c) ==
    /\ c \notin reading /\ writer # Server
    /\ reading' = reading \cup {c}
    /\ Disturbs
    /\ UNCHANGED <<ClientVars, dbVars, late, pastVars>>

\* INSERT or DELETE of row r in a client's transaction.
WriteIn(c, r) ==
    /\ c \in reading /\ writer \in {Nobody, c}
    /\ LET db == IF writer = c THEN working ELSE committed IN
       /\ "table" \in db.schema
       /\ working' = [db EXCEPT !.rows = IF r \in @ THEN @ \ {r} ELSE @ \cup {r}]
    /\ writer' = c
    /\ Disturbs
    /\ UNCHANGED <<ClientVars, committed, reading, late, pastVars>>

\* COMMIT or ROLLBACK.
EndTransaction(c) ==
    /\ c \in reading
    /\ reading' = reading \ {c}
    /\ \/ writer = c /\ committed' = working /\ late' = Late(working)
       \/ UNCHANGED <<committed, late>>
    /\ writer' = IF writer = c THEN Nobody ELSE writer
    /\ Disturbs
    /\ UNCHANGED <<ClientVars, working, pastVars>>

\* "INSERT ...; CREATE ..." in one query: executeQuery looks at its first
\* words, the driver executes all of it, and nothing bumps the version.
RuntimeDDL(c) ==
    /\ "ddl" \in Habits /\ c \notin reading /\ writer = Nobody
    /\ \E o \in {"trigger", "extra"} \ committed.schema :
          committed' = [committed EXCEPT !.schema = @ \cup {o}]
    /\ changed' = TRUE
    /\ Disturbs
    /\ UNCHANGED <<ClientVars, working, writer, reading, late, cut>>

Next ==
    \/ ResetCall \/ ResetStep \/ ContextExpires
    \/ \E c \in Clients :
          \/ ReadIn(c) \/ EndTransaction(c) \/ RuntimeDDL(c)
          \/ \E r \in Keys : WriteIn(c, r)

Spec == Init /\ [][Next]_vars

-----------------------------------------------------------------------------
(* Properties.                                                             *)

\* "Reset restores the configured schema and seed data": what its second
\* commit publishes is the seed and the rows that clients committed after the
\* first, with the configured objects; and until a client has changed the
\* schema, no others, and the metadata maps describe it again.
ResetRestoresData ==
    [][pc = "seeding" /\ pc' = "finish" =>
         /\ committed'.rows = Seed \cup late
         /\ configured \subseteq committed'.schema
         /\ ~changed => committed'.schema = configured /\ metadata']_vars

\* No client sees half a reset: each state of the database that Reset
\* publishes has no row at all, or has the whole seed.
NoHalfReset ==
    [][writer = Server /\ committed' # committed =>
         committed'.rows = {} \/ Seed \subseteq committed'.rows]_vars

\* Between two calls keepConn is out of any transaction and enforces foreign
\* keys, however the last Reset failed, as long as no context ran out.
NothingLeftOpen == pc = "idle" /\ ~cut => writer # Server /\ foreignKeys

\* A data-only reset suffices while nothing has changed the schema: without a
\* configured trigger and without runtime DDL the table never goes away.
TableStaysForClients ==
    "trigger" \notin configured /\ ~changed => "table" \in committed.schema

\* The Reset that runs now has been alone and in time.
Undisturbed == ~disturbed /\ ~expired

\* A Reset that no client disturbs and whose context lives succeeds, unless a
\* context has run out or an earlier Reset lost the schema: these two, and no
\* leftover row or version, are what Reset cannot repair.
ResetRecovers ==
    [][pc # "idle" /\ pc' = "idle" /\ Undisturbed /\ ~cut =>
         result' = "ok" \/ "table" \notin committed.schema]_vars
=============================================================================
