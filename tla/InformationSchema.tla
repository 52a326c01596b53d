------------------------- MODULE InformationSchema -------------------------
(***************************************************************************)
(* How an information_schema query is answered: from the server-wide cache *)
(* of results, or from the tables of the attached in-memory database       *)
(* "information_schema", which the session refreshes first unless the      *)
(* server-wide marks say that they are loaded at the current schema        *)
(* version (information_schema.go, information_schema_cache.go).           *)
(*                                                                         *)
(* Three things meet here.  The refresh runs on the session's own driver   *)
(* connection, so inside the client's transaction if there is one: a       *)
(* ROLLBACK undoes the rows, and until it ends other connections meet its  *)
(* table locks.  The marks are the server's, under informationSchemaMu,    *)
(* which is held while SQLite works.  And the schema changes without its   *)
(* version: a full Server.Reset drops and applies it first and bumps the   *)
(* version later, or not at all when it fails between the two, and a       *)
(* client changes it with DDL behind another statement (protocol.go looks  *)
(* at first words only).  The DDL of a client is outside transactions.     *)
(*                                                                         *)
(* The sqlite driver makes a statement wait for the connection that has    *)
(* its shared-cache table locked.  The model has one lock for all eight    *)
(* information_schema tables.                                              *)
(***************************************************************************)
EXTENDS Integers

CONSTANTS
    Sessions, NoSession,
    Dbs,             \* names of databases a client can be connected to
    DbOf,            \* each session's currentDB
    NoDb,
    Tables,          \* the tables of the configured schema
    Queries,         \* the queries clients ask: tables, "list", "all", "schemata"
    Cacheable,       \* those whose text names no function like NOW or RAND
    MaxStatements,   \* bound of the model: queries and schema changes sent
    MaxTransactions, \* bound of the model: transactions begun
    MaxResets        \* bound of the model: full resets

Kinds == Tables \cup {"list", "all", "schemata"}

ASSUME InformationSchemaAssumption ==
    /\ NoSession \notin Sessions
    /\ NoDb \notin Dbs
    /\ DbOf \in [Sessions -> Dbs]
    /\ Tables \cap {"list", "all", "schemata"} = {}
    /\ Queries \subseteq Kinds /\ Cacheable \subseteq Queries
    /\ MaxStatements \in Nat /\ MaxTransactions \in Nat
    /\ MaxResets \in Nat

VARIABLES
    schema,    \* the tables sqlite_master lists
    version,   \* s.schemaVersion
    reset,     \* where the full reset stands
    resets,    \* full resets begun
    changed,   \* history: the schema changed behind the version's back since its last bump
    rows,      \* what the information_schema tables hold, uncommitted writes included
    undo,      \* what they held before the writer's transaction wrote them
    writer,    \* the session whose transaction has written them
    readers,   \* sessions whose transaction has read them
    marks,     \* s.informationSchema: what is loaded, and at which version
    results,   \* s.informationSchema.queryResults
    mutex,     \* the holder of s.informationSchemaMu
    inTx,      \* each session: a transaction is open
    pc,        \* each session: where its query stands
    ask,       \* each session: the query and the versions it read
    sent, begun,
    misled,    \* history: a query was not answered as the schema would have it
    undone     \* history: a rollback took a refresh back that the marks still vouch for

database == <<rows, undo, writer, readers>>
cache == <<marks, results>>
resetVars == <<schema, version, reset, resets, changed>>
counters == <<sent, begun>>
vars == <<resetVars, database, cache, mutex, inTx, pc, ask, counters, misled, undone>>

NotLoaded == -1
Versions == 0..MaxResets
Marks == Versions \cup {NotLoaded}
Answers == SUBSET (Tables \cup Dbs)
Contents == [schemata : Dbs \cup {NoDb}, tables : SUBSET (Dbs \X Tables),
             columns : SUBSET (Dbs \X Tables)]

Nothing == [full |-> NotLoaded, list |-> NotLoaded, schemata |-> NotLoaded,
            table |-> [t \in Tables |-> NotLoaded]]
Empty == [schemata |-> NoDb, tables |-> {}, columns |-> {}]
NoResults == [e \in Dbs \X Kinds |-> [version |-> NotLoaded, answer |-> {}]]
NoQuery == [query |-> "all", calm |-> FALSE, version |-> 0, refreshVersion |-> 0, got |-> {}]

Idle(k) == pc[k] = "idle"

TypeOK ==
    /\ schema \subseteq Tables
    /\ version \in Versions
    /\ reset \in {"idle", "dropped", "applied", "bumped"}
    /\ resets \in 0..MaxResets
    /\ rows \in Contents /\ undo \in Contents
    /\ writer \in Sessions \cup {NoSession}
    /\ readers \subseteq Sessions
    /\ marks \in [full : Marks, list : Marks, schemata : Marks, table : [Tables -> Marks]]
    /\ results \in [Dbs \X Kinds -> [version : Marks, answer : Answers]]
    /\ mutex \in Sessions \cup {NoSession}
    /\ inTx \in [Sessions -> BOOLEAN]
    /\ pc \in [Sessions -> {"idle", "lookup", "prepare", "refresh", "locked", "read", "store"}]
    /\ ask \in [Sessions -> [query : Kinds, calm : BOOLEAN, version : Versions,
                             refreshVersion : Versions, got : Answers]]
    /\ sent \in 0..MaxStatements /\ begun \in 0..MaxTransactions
    /\ changed \in BOOLEAN /\ misled \in BOOLEAN /\ undone \in BOOLEAN

Init ==
    /\ schema = Tables /\ version = 0
    /\ reset = "idle" /\ resets = 0
    /\ rows = Empty /\ undo = Empty
    /\ writer = NoSession /\ readers = {}
    /\ marks = Nothing /\ results = NoResults
    /\ mutex = NoSession
    /\ inTx = [k \in Sessions |-> FALSE]
    /\ pc = [k \in Sessions |-> "idle"]
    /\ ask = [k \in Sessions |-> NoQuery]
    /\ sent = 0 /\ begun = 0
    /\ changed = FALSE /\ misled = FALSE /\ undone = FALSE

-----------------------------------------------------------------------------
(* What the tables say, and what they should say.                          *)

\* The rows a query of that kind finds in contents r for its own database.
Found(query, db, r) ==
    CASE query = "schemata" -> {d \in {db} : r.schemata = d}
      [] query = "list"     -> {t \in Tables : <<db, t>> \in r.tables}
      [] query = "all"      -> {t \in Tables : <<db, t>> \in r.columns}
      [] OTHER              -> {t \in {query} : <<db, t>> \in r.columns}

\* The same question put to the SQLite schema itself.
Derived(query, db) ==
    CASE query = "schemata"        -> {db}
      [] query \in {"list", "all"} -> schema
      [] OTHER                     -> schema \cap {query}

\* The contents after the refresh that serves query, run by a session of db.
Refreshed(query, db) ==
    LET own == {db} \X schema IN
    CASE query = "schemata" -> [rows EXCEPT !.schemata = db]
      [] query = "list"     -> [rows EXCEPT !.schemata = db, !.tables = own]
      [] query = "all"      -> [schemata |-> db, tables |-> own, columns |-> own]
      [] OTHER -> [schemata |-> db,
                   tables  |-> (rows.tables \ {<<db, query>>}) \cup (own \cap {<<db, query>>}),
                   columns |-> (rows.columns \ {<<db, query>>}) \cup (own \cap {<<db, query>>})]

\* Mutant of MarkedAt: a refresh of the table list vouches for everything.
ListMarksAll(query, v) ==
    IF query = "list" THEN [marks EXCEPT !.full = v]
    ELSE [marks EXCEPT !.table = [t \in Tables |-> IF t = query THEN v ELSE @[t]]]

\* The marks after that refresh at version v.
MarkedAt(query, v) ==
    CASE query = "schemata" -> [marks EXCEPT !.schemata = v]
      [] query = "list"     -> [marks EXCEPT !.schemata = v, !.list = v]
      [] query = "all"      -> [marks EXCEPT !.full = v,
                                             !.table = [t \in Tables |-> NotLoaded]]
      [] OTHER              -> [marks EXCEPT !.table[query] = v]

\* The marks say that nothing needs a refresh.
Loaded(query, v) ==
    \/ marks.full = v
    \/ query = "schemata" /\ marks.schemata = v
    \/ query = "list" /\ marks.list = v
    \/ query \in Tables /\ marks.table[query] = v

-----------------------------------------------------------------------------
(* Shared-cache table locks.                                               *)

WriteBlockers(k) == ({writer} \cup readers) \ {k, NoSession}
ReadBlockers(k) == {writer} \ {k, NoSession}

\* A full refresh answers for a table without a mark of its own, but its
\* existence is then read from information_schema.tables under the mutex.
ChecksExistence(query, v) ==
    /\ query \in Tables
    /\ marks.full = v /\ marks.table[query] # v

RefreshBlockers(k) ==
    LET query == ask[k].query
        v == ask[k].refreshVersion IN
    IF ~Loaded(query, v) THEN WriteBlockers(k)
    ELSE IF ChecksExistence(query, v) THEN ReadBlockers(k) ELSE {}

MutexFree == mutex = NoSession
KeepsReadLock(k) == readers' = IF inTx[k] THEN readers \cup {k} ELSE readers

-----------------------------------------------------------------------------
(* A query.                                                                *)

Goto(k, label) == pc' = [pc EXCEPT ![k] = label]

\* The client gets its result; nothing is said of one that a Reset overlapped.
Answer(k, got) ==
    /\ misled' = (misled \/ (ask[k].calm /\ got # Derived(ask[k].query, DbOf[k])))
    /\ ask' = [ask EXCEPT ![k] = NoQuery]
    /\ Goto(k, "idle")

\* The query arrives; the schema version it is answered under is read first.
Ask(k) ==
    /\ Idle(k) /\ sent < MaxStatements
    /\ \E query \in Queries :
         /\ ask' = [ask EXCEPT ![k] = [NoQuery EXCEPT !.query = query,
                                         !.calm = (reset = "idle"), !.version = version]]
         /\ Goto(k, IF query \in Cacheable THEN "lookup" ELSE "prepare")
    /\ sent' = sent + 1
    /\ UNCHANGED <<resetVars, database, cache, mutex, inTx, begun, misled, undone>>

\* A result stored under this version answers the query.
Lookup(k) ==
    /\ pc[k] = "lookup" /\ MutexFree
    /\ LET entry == results[<<DbOf[k], ask[k].query>>] IN
       IF entry.version = ask[k].version
       THEN Answer(k, entry.answer)
       ELSE /\ Goto(k, "prepare")
            /\ UNCHANGED <<ask, misled>>
    /\ UNCHANGED <<resetVars, database, cache, mutex, inTx, counters, undone>>

\* The refresh reads the version again, then asks for the mutex.
Prepare(k) ==
    /\ pc[k] = "prepare"
    /\ ask' = [ask EXCEPT ![k].refreshVersion = version]
    /\ Goto(k, "refresh")
    /\ UNCHANGED <<resetVars, database, cache, mutex, inTx, counters, misled, undone>>

Lock(k) ==
    /\ pc[k] = "refresh" /\ MutexFree
    /\ mutex' = k
    /\ Goto(k, "locked")
    /\ UNCHANGED <<resetVars, database, cache, inTx, ask, counters, misled, undone>>

\* Mutants of Unlock: a refresh returns without the deferred unlock, always or
\* when the marks make it unnecessary.
UnlockForgotten(k) == mutex' = k
UnlockUnlessLoaded(k) ==
    mutex' = IF Loaded(ask[k].query, ask[k].refreshVersion) THEN k ELSE NoSession

Unlock(k) == mutex' = NoSession

\* Under the mutex: nothing to do, or the refresh batch in a savepoint of the
\* driver connection, which becomes part of the client's transaction.
Refresh(k) ==
    /\ pc[k] = "locked" /\ RefreshBlockers(k) = {}
    /\ LET query == ask[k].query
           v == ask[k].refreshVersion IN
       IF Loaded(query, v)
       THEN /\ IF ChecksExistence(query, v) THEN KeepsReadLock(k) ELSE UNCHANGED readers
            /\ UNCHANGED <<rows, undo, writer, marks>>
       ELSE /\ rows' = Refreshed(query, DbOf[k])
            /\ marks' = MarkedAt(query, v)
            /\ writer' = IF inTx[k] THEN k ELSE writer
            /\ undo' = IF inTx[k] /\ writer # k THEN rows ELSE undo
            /\ UNCHANGED readers
    /\ Unlock(k)
    /\ Goto(k, "read")
    /\ ask' = [ask EXCEPT ![k].refreshVersion = 0]
    /\ UNCHANGED <<resetVars, results, inTx, counters, misled, undone>>

\* The query itself, on the information_schema tables.
Read(k) ==
    /\ pc[k] = "read" /\ ReadBlockers(k) = {}
    /\ LET got == Found(ask[k].query, DbOf[k], rows) IN
       IF ask[k].query \in Cacheable
       THEN /\ ask' = [ask EXCEPT ![k].got = got]
            /\ Goto(k, "store")
            /\ UNCHANGED misled
       ELSE Answer(k, got)
    /\ KeepsReadLock(k)
    /\ UNCHANGED <<resetVars, rows, undo, writer, cache, mutex, inTx, counters, undone>>

\* Mutant of Store: the result is stored under the version read just now.
StoreUnderNewVersion(k) ==
    /\ pc[k] = "store" /\ MutexFree
    /\ results' = [results EXCEPT ![<<DbOf[k], ask[k].query>>] =
                     [version |-> version, answer |-> ask[k].got]]
    /\ Answer(k, ask[k].got)
    /\ UNCHANGED <<resetVars, database, marks, mutex, inTx, counters, undone>>

\* The result is stored under the version the query began with.
Store(k) ==
    /\ pc[k] = "store" /\ MutexFree
    /\ results' = [results EXCEPT ![<<DbOf[k], ask[k].query>>] =
                     [version |-> ask[k].version, answer |-> ask[k].got]]
    /\ Answer(k, ask[k].got)
    /\ UNCHANGED <<resetVars, database, marks, mutex, inTx, counters, undone>>

-----------------------------------------------------------------------------
(* The client's transactions.                                              *)

Begin(k) ==
    /\ Idle(k) /\ ~inTx[k] /\ begun < MaxTransactions
    /\ inTx' = [inTx EXCEPT ![k] = TRUE]
    /\ begun' = begun + 1
    /\ UNCHANGED <<resetVars, database, cache, mutex, pc, ask, sent, misled, undone>>

\* COMMIT and ROLLBACK release the table locks.
EndTransaction(k) ==
    /\ Idle(k) /\ inTx[k]
    /\ inTx' = [inTx EXCEPT ![k] = FALSE]
    /\ writer' = IF writer = k THEN NoSession ELSE writer
    /\ undo' = IF writer = k THEN Empty ELSE undo
    /\ readers' = readers \ {k}
    /\ UNCHANGED <<resetVars, cache, mutex, pc, ask, counters, misled>>

Commit(k) ==
    /\ EndTransaction(k)
    /\ UNCHANGED <<rows, undone>>

\* A refresh made in the transaction goes with it; the marks stay.
Rollback(k) ==
    /\ EndTransaction(k)
    /\ rows' = IF writer = k THEN undo ELSE rows
    /\ undone' = (undone \/ writer = k)

-----------------------------------------------------------------------------
(* A full Server.Reset.                                                    *)

\* The first transaction drops the schema.  It needs sqlite_master, which a
\* refresh inside a transaction has read.
ResetDrop ==
    /\ reset = "idle" /\ resets < MaxResets /\ writer = NoSession
    /\ schema' = {}
    /\ reset' = "dropped" /\ resets' = resets + 1
    /\ ask' = [k \in Sessions |-> [ask[k] EXCEPT !.calm = FALSE]]
    /\ misled' = FALSE
    /\ UNCHANGED <<version, changed, database, cache, mutex, inTx, pc, counters, undone>>

\* Mutant of ResetApply: the version is bumped after each of the transactions.
ResetApplyBumps ==
    /\ reset = "dropped" /\ writer = NoSession
    /\ schema' = Tables
    /\ version' = version + 1
    /\ reset' = "applied"
    /\ UNCHANGED <<resets, changed, database, cache, mutex, inTx, pc, ask, counters,
                   misled, undone>>

\* The second transaction applies schema and seed.
ResetApply ==
    /\ reset = "dropped" /\ writer = NoSession
    /\ schema' = Tables
    /\ reset' = "applied"
    /\ UNCHANGED <<version, resets, changed, database, cache, mutex, inTx, pc, ask, counters,
                   misled, undone>>

\* It fails and is rolled back, and Reset returns the error: what the first
\* transaction committed stays, under the version there is.
ResetFails ==
    /\ reset = "dropped"
    /\ reset' = "idle"
    /\ changed' = TRUE
    /\ UNCHANGED <<schema, version, resets, database, cache, mutex, inTx, pc, ask, counters,
                   misled, undone>>

\* bumpSchemaVersion: the version first ...
ResetBump ==
    /\ reset = "applied"
    /\ version' = version + 1
    /\ reset' = "bumped"
    /\ changed' = FALSE
    /\ UNCHANGED <<schema, resets, database, cache, mutex, inTx, pc, ask, counters,
                   misled, undone>>

\* ... then the cache, under the mutex.
ResetClear ==
    /\ reset = "bumped" /\ MutexFree
    /\ marks' = Nothing /\ results' = NoResults
    /\ reset' = "idle"
    /\ undone' = (undone /\ \E k \in Sessions : ~Idle(k))
    /\ UNCHANGED <<schema, version, resets, changed, database, mutex, inTx, pc, ask, counters,
                   misled>>

Reset == ResetDrop \/ ResetApply \/ ResetFails \/ ResetBump \/ ResetClear

-----------------------------------------------------------------------------
(* Schema changes of clients.                                              *)

\* An INSERT followed by CREATE TABLE or DROP TABLE in the same text runs on
\* SQLite whole, and nothing bumps the version.
RuntimeDDL(k) ==
    /\ Idle(k) /\ ~inTx[k] /\ writer = NoSession /\ sent < MaxStatements
    /\ \E t \in Tables : schema' = IF t \in schema THEN schema \ {t} ELSE schema \cup {t}
    /\ changed' = TRUE
    /\ sent' = sent + 1
    /\ UNCHANGED <<version, reset, resets, database, cache, mutex, inTx, pc, ask, begun,
                   misled, undone>>

QueryStep(k) ==
    \/ Lookup(k) \/ Prepare(k) \/ Lock(k) \/ Refresh(k) \/ Read(k) \/ Store(k)

Next ==
    \/ \E k \in Sessions : \/ Ask(k) \/ QueryStep(k)
                           \/ Begin(k) \/ Commit(k) \/ Rollback(k)
                           \/ RuntimeDDL(k)
    \/ Reset

\* The handler of a query and a started Reset go on; a client ends its
\* transaction some time, unless it waits for an answer.
Fairness ==
    /\ \A k \in Sessions : WF_vars(QueryStep(k)) /\ WF_vars(Commit(k) \/ Rollback(k))
    /\ WF_vars(ResetApply \/ ResetFails \/ ResetBump \/ ResetClear)

Spec == Init /\ [][Next]_vars /\ Fairness

-----------------------------------------------------------------------------
(* Properties.                                                             *)

\* A query that no Reset overlapped was answered as the SQLite schema would
\* have been, for the database the session is connected to, unless a ROLLBACK
\* has taken back a refresh that the server's marks still vouch for, or the
\* schema has changed since the version was last bumped (by a client, or by a
\* Reset that failed): with one database name, nothing else makes an answer
\* wrong, whatever the order of refreshes, version reads and resets.
WrongOnlyAfterUndoneRefresh == undone \/ changed \/ ~misled

\* Outside a Reset, what the cache would hand to the next query is what the
\* schema says, with the same two exceptions: no result computed while the
\* schema was half rebuilt, or before a Reset put right what a client or a
\* failed Reset had changed, is kept under the version that follows.
StoredResultsAreCurrent ==
    reset = "idle" /\ ~undone /\ ~changed =>
        \A k \in Sessions, query \in Queries :
            LET entry == results[<<DbOf[k], query>>] IN
            entry.version = version => entry.answer = Derived(query, DbOf[k])

\* A session in a transaction has the tables locked against the refresh of
\* the session that holds the mutex, and needs the mutex itself to go on.
\* SQLite sees no cycle: half of it is a Go mutex.
MutexCycle ==
    \E k \in Sessions : /\ pc[k] = "locked"
                        /\ \E other \in RefreshBlockers(k) :
                              pc[other] \in {"lookup", "refresh", "store"}

\* Every information_schema query ends, and every Reset, whose last step needs
\* the mutex too; except in a cycle through the mutex.
CallsEnd ==
    /\ \A k \in Sessions : ~Idle(k) ~> Idle(k) \/ MutexCycle
    /\ reset # "idle" ~> reset = "idle" \/ MutexCycle
=============================================================================
