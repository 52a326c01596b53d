------------------------------ MODULE Metadata ------------------------------
(***************************************************************************)
(* What the server remembers of the schema beside SQLite itself.           *)
(*                                                                         *)
(* The metadata maps (index_metadata.go) hold what SQLite has no room for: *)
(* which table has an AUTO_INCREMENT column, the MySQL name of an index,   *)
(* the text of CREATE TABLE.  They are filled from the statements of the   *)
(* configured schema, as each is applied.  The caches (upsert.go,          *)
(* auto_increment_compat.go) hold what PRAGMAs say of a table, each entry  *)
(* under the schema version its reader began with; sessions fill them at   *)
(* any moment, a Reset in progress included.                               *)
(*                                                                         *)
(* A statement of the schema is a record; a table is what it was created   *)
(* as and the SQLite names of its indexes.  Clients' DDL is accepted and   *)
(* not executed (ddl_compat.go), except where it follows another statement *)
(* in one text: that reaches SQLite, and neither the versions nor the maps *)
(* take notice.                                                            *)
(***************************************************************************)
EXTENDS Naturals, Sequences

CONSTANTS
    Sessions,
    Tables,
    IndexNames,
    Scripts,      \* the configured schemas looked at: sequences of statements
    Remade,       \* what clients make of a table, or a new one, at run time
    NoTable,      \* the table does not exist, or the map has no entry
    MaxResets,    \* bound of the model: calls of Reset
    MaxDDLs,      \* bound of the model: changes of the schema by clients
    MaxLookups    \* bound of the model: lookups in the caches

\* Whether a column has AUTO_INCREMENT: "auto", the primary key, which becomes
\* SQLite's AUTOINCREMENT; "composite", one of several key columns, which does
\* not (translateCreateTableStatements).
Shapes == {"plain", "auto", "composite"}

Statements ==
    [op : {"create", "createIfNotExists"}, table : Tables, shape : Shapes,
     indexes : SUBSET IndexNames]
      \cup [op : {"addIndex"}, table : Tables, index : IndexNames]
      \cup [op : {"rename"}, table : Tables, to : Tables]
      \cup [op : {"drop"}, table : Tables]
      \cup [op : {"trigger"}]

ASSUME MetadataAssumption ==
    /\ \A script \in Scripts : script \in Seq(Statements)
    /\ Tables # {}
    /\ NoTable \notin Shapes \cup [shape : Shapes, indexes : SUBSET (Tables \X IndexNames)]
    /\ Remade \subseteq
          [shape : Shapes, indexes : SUBSET (Tables \X IndexNames)] \cup {NoTable}
    /\ MaxResets \in Nat /\ MaxDDLs \in Nat /\ MaxLookups \in Nat

VARIABLES
    script,        \* s.preparedSchema
    committed,     \* the schema that connections see
    working,       \* the schema of the setup transaction
    autoIncrementColumns, \* tables with an entry
    indexMetadata, \* pairs of a table and the MySQL name of an index
    tableDDL,      \* each table: the shape its recorded DDL declares, or NoTable
    version,       \* s.schemaVersion
    base,          \* s.baseSchemaVersion
    cache,         \* each cache and table: the set of its entries, at most one
    pc,            \* where the setup or the Reset is
    applied,       \* statements of the script applied so far
    job,           \* each session: its lookup
    resets, ddls, lookups, \* bounds
    failed,        \* history: the last full Reset returned an error
    torn,          \* history: a Reset dropped the schema and did not restore it
    touched        \* history: tables that clients changed since a Reset dropped all

ddlVars == <<touched, ddls>>
dbVars == <<script, committed, working, ddlVars>>
mapVars == <<autoIncrementColumns, indexMetadata, tableDDL>>
resetVars == <<pc, applied, resets, failed, torn>>
lookupVars == <<job, lookups>>
vars == <<dbVars, mapVars, version, base, cache, resetVars, lookupVars>>

Caches == {"columns", "keys", "autoIncrement"}

\* Names of SQLite indexes (sqliteIndexName): one name space for the database,
\* made of the table's name at the time and the index's.
SQLiteIndexes == Tables \X IndexNames

Table == [shape : Shapes, indexes : SUBSET SQLiteIndexes] \cup {NoTable}
Schema == [table : [Tables -> Table], trigger : BOOLEAN]
Empty == [table |-> [t \in Tables |-> NoTable], trigger |-> FALSE]

Exists(db, t) == db.table[t] # NoTable
ShapeOf(db, t) == IF Exists(db, t) THEN db.table[t].shape ELSE NoTable
IndexesOf(db, t) == IF Exists(db, t) THEN db.table[t].indexes ELSE {}

\* What a lookup finds out about table t: PRAGMA table_info; the same and
\* PRAGMA index_list; whether sqlite_master's text says AUTOINCREMENT.
Content(c, db, t) ==
    [shape |-> IF c = "autoIncrement" /\ ShapeOf(db, t) # "auto" THEN NoTable
               ELSE ShapeOf(db, t),
     indexes |-> IF c = "keys" THEN IndexesOf(db, t) ELSE {}]

ShapesFound == Shapes \cup {NoTable}
Contents == [shape : ShapesFound, indexes : SUBSET SQLiteIndexes]
NoContent == [shape |-> NoTable, indexes |-> {}]
Entries == [version : Nat, content : Contents]

\* A lookup: its place; the cache and the table asked; the version it began
\* with and, of uniqueKeys, the version its lookup of the columns began with;
\* what it found; the indexes listed whose columns it has not read yet.
Jobs ==
    [pc : {"idle", "look", "query", "store", "readVersion", "lookColumns",
           "queryColumns", "storeColumns", "listIndexes", "readIndexes"},
     cache : Caches, table : Tables, version : Nat, inner : Nat, content : Contents,
     unread : SUBSET SQLiteIndexes]

Idle ==
    [pc |-> "idle", cache |-> "columns", table |-> CHOOSE t \in Tables : TRUE,
     version |-> 0, inner |-> 0, content |-> NoContent, unread |-> {}]

TypeOK ==
    /\ script \in Scripts
    /\ committed \in Schema /\ working \in Schema
    /\ autoIncrementColumns \in SUBSET Tables
    /\ indexMetadata \in SUBSET SQLiteIndexes
    /\ tableDDL \in [Tables -> ShapesFound]
    /\ version \in 0..MaxResets /\ base \in 0..version
    /\ \A c \in Caches, t \in Tables :
          /\ cache[c][t] \subseteq Entries
          /\ \A e, f \in cache[c][t] : e = f
          /\ \A e \in cache[c][t] : e.version <= version
    /\ pc \in {"setup", "closed", "idle", "decide", "drop", "begin", "apply", "bump",
               "clearCaches", "newBase"}
    /\ applied \in 0..Len(script)
    /\ job \in [Sessions -> Jobs]
    /\ resets \in 0..MaxResets /\ lookups \in 0..MaxLookups
    /\ failed \in BOOLEAN /\ torn \in BOOLEAN
    /\ touched \in SUBSET Tables /\ ddls \in 0..MaxDDLs

Init ==
    /\ script \in Scripts
    /\ committed = Empty /\ working = Empty
    /\ autoIncrementColumns = {} /\ indexMetadata = {}
    /\ tableDDL = [t \in Tables |-> NoTable]
    /\ version = 0 /\ base = 0
    /\ cache = [c \in Caches |-> [t \in Tables |-> {}]]
    /\ pc = "setup" /\ applied = 0
    /\ job = [s \in Sessions |-> Idle]
    /\ resets = 0 /\ lookups = 0
    /\ failed = FALSE /\ torn = FALSE
    /\ touched = {} /\ ddls = 0

-----------------------------------------------------------------------------
(* The statements of the schema.                                           *)

AllIndexes(db) == UNION {IndexesOf(db, t) : t \in Tables}

\* A statement that SQLite refuses: a table or an index that is there, a
\* table that is not.
Refused(db, st) ==
    LET taken == AllIndexes(db) IN
    CASE st.op = "create" ->
             Exists(db, st.table) \/ ({st.table} \X st.indexes) \cap taken # {}
      [] st.op = "createIfNotExists" -> ({st.table} \X st.indexes) \cap taken # {}
      [] st.op = "addIndex" -> ~Exists(db, st.table) \/ <<st.table, st.index>> \in taken
      [] st.op = "rename" -> ~Exists(db, st.table) \/ Exists(db, st.to)
      [] st.op = "drop" -> ~Exists(db, st.table)
      [] st.op = "trigger" -> db.trigger

WithTable(db, t, what) == [db EXCEPT !.table[t] = what]

\* translateCreateTableStatements makes one CREATE TABLE and a CREATE INDEX
\* for each KEY, which does not ask whether the table was there.
WithIndexes(db, t, names) ==
    WithTable(db, t, [db.table[t] EXCEPT !.indexes = @ \cup ({t} \X names)])

Created(db, st) ==
    WithIndexes(IF Exists(db, st.table) THEN db
                ELSE WithTable(db, st.table, [shape |-> st.shape, indexes |-> {}]),
                st.table, st.indexes)

Applied(db, st) ==
    CASE st.op \in {"create", "createIfNotExists"} -> Created(db, st)
      [] st.op = "addIndex" -> WithIndexes(db, st.table, {st.index})
      [] st.op = "rename" -> WithTable(WithTable(db, st.to, db.table[st.table]),
                                       st.table, NoTable)
      [] st.op = "drop" -> WithTable(db, st.table, NoTable)
      [] st.op = "trigger" -> [db EXCEPT !.trigger = TRUE]

Creates(st) == st.op \in {"create", "createIfNotExists"}

\* Mutant of IndexesRecorded: only CREATE TABLE is parsed for indexes.
IndexesOfCreate(st) == IF Creates(st) THEN {st.table} \X st.indexes ELSE {}

\* recordMySQLIndexMetadata, recordMySQLColumnMetadata and
\* recordMySQLTableDDL parse the statement as it was written.  CREATE and
\* ADD INDEX add entries; DROP and RENAME are not looked at.
IndexesRecorded(st) ==
    CASE Creates(st) -> {st.table} \X st.indexes
      [] st.op = "addIndex" -> {<<st.table, st.index>>}
      [] OTHER -> {}

\* AUTO_INCREMENT is recorded of a key of any kind.
AutoIncrementRecorded(st) ==
    IF Creates(st) /\ st.shape # "plain" THEN {st.table} ELSE {}

DDLRecorded(st) ==
    IF Creates(st) THEN [tableDDL EXCEPT ![st.table] = st.shape] ELSE tableDDL

Recorded(st) ==
    /\ indexMetadata' = indexMetadata \cup IndexesRecorded(st)
    /\ autoIncrementColumns' = autoIncrementColumns \cup AutoIncrementRecorded(st)
    /\ tableDDL' = DDLRecorded(st)

\* applyPreparedSchemaStatement, of the initial setup and of a full reset.
ApplyStatement ==
    /\ pc \in {"setup", "apply"} /\ applied < Len(script)
    /\ LET st == script[applied + 1] IN
       /\ ~Refused(working, st)
       /\ working' = Applied(working, st)
       /\ Recorded(st)
    /\ applied' = applied + 1
    /\ UNCHANGED <<script, committed, ddlVars, version, base, cache, pc, resets, failed,
                   torn, lookupVars>>

\* The rest is one transaction; after it the server starts, or Reset goes on.
CommitSetup ==
    /\ pc \in {"setup", "apply"} /\ applied = Len(script)
    /\ committed' = working
    /\ pc' = IF pc = "setup" THEN "idle" ELSE "bump"
    /\ torn' = FALSE
    /\ UNCHANGED <<script, working, ddlVars, mapVars, version, base, cache, applied,
                   resets, failed, lookupVars>>

-----------------------------------------------------------------------------
(* Reset.                                                                  *)

ResetFails ==
    /\ pc' = "idle" /\ failed' = TRUE

\* A statement of the setup or its seed is refused, or the Reset's context
\* ends: the transaction rolls back and the maps keep what they have.
SetupFails ==
    \/ /\ pc = "setup" /\ applied < Len(script) /\ Refused(working, script[applied + 1])
       /\ pc' = "closed"
       /\ UNCHANGED <<dbVars, mapVars, version, base, cache, applied, resets, failed,
                      torn, lookupVars>>
    \/ /\ pc \in {"begin", "apply"}
       /\ ResetFails
       /\ UNCHANGED <<dbVars, mapVars, version, base, cache, applied, resets, torn,
                      lookupVars>>

ResetCall ==
    /\ pc = "idle" /\ resets < MaxResets
    /\ pc' = "decide" /\ resets' = resets + 1
    /\ UNCHANGED <<dbVars, mapVars, version, base, cache, applied, failed, torn,
                   lookupVars>>

\* A data-only reset, well or not, changes nothing of what is modelled; a full
\* one first clears the maps, under s.mu.
Decide ==
    /\ pc = "decide"
    /\ IF version = base /\ ~committed.trigger
       THEN /\ pc' = "idle"
            /\ UNCHANGED mapVars
       ELSE /\ pc' = "drop"
            /\ autoIncrementColumns' = {} /\ indexMetadata' = {}
            /\ tableDDL' = [t \in Tables |-> NoTable]
    /\ UNCHANGED <<dbVars, version, base, cache, applied, resets, failed, torn,
                   lookupVars>>

\* The transaction "reset drop"; a client's locks or the context can refuse it.
DropObjects ==
    /\ pc = "drop"
    /\ \/ /\ committed' = Empty /\ torn' = TRUE /\ touched' = {}
          /\ pc' = "begin" /\ UNCHANGED failed
       \/ ResetFails /\ UNCHANGED <<committed, torn, touched>>
    /\ UNCHANGED <<script, working, ddls, mapVars, version, base, cache, applied, resets,
                   lookupVars>>

BeginSetup ==
    /\ pc = "begin"
    /\ working' = committed /\ applied' = 0
    /\ pc' = "apply"
    /\ UNCHANGED <<script, committed, ddlVars, mapVars, version, base, cache, resets,
                   failed, torn, lookupVars>>

\* bumpSchemaVersion counts first ...
Bump ==
    /\ pc = "bump"
    /\ version' = version + 1
    /\ pc' = "clearCaches"
    /\ UNCHANGED <<dbVars, mapVars, base, cache, applied, resets, failed, torn, lookupVars>>

\* ... and empties the caches after that.
ClearCaches ==
    /\ pc = "clearCaches"
    /\ cache' = [c \in Caches |-> [t \in Tables |-> {}]]
    /\ pc' = "newBase"
    /\ UNCHANGED <<dbVars, mapVars, version, base, applied, resets, failed, torn,
                   lookupVars>>

\* Mutant of NewBase: the version that the next Reset will make.
NewBaseAhead ==
    /\ pc = "newBase"
    /\ base' = version + 1
    /\ pc' = "idle" /\ failed' = FALSE
    /\ UNCHANGED <<dbVars, mapVars, version, cache, applied, resets, torn, lookupVars>>

\* baseSchemaVersion.Store; Reset returns.
NewBase ==
    /\ pc = "newBase"
    /\ base' = version
    /\ pc' = "idle" /\ failed' = FALSE
    /\ UNCHANGED <<dbVars, mapVars, version, cache, applied, resets, torn, lookupVars>>

ResetStep ==
    \/ ApplyStatement \/ CommitSetup \/ SetupFails
    \/ Decide \/ DropObjects \/ BeginSetup \/ Bump \/ ClearCaches \/ NewBase

-----------------------------------------------------------------------------
(* Lookups of the sessions.                                                *)

Start(s) ==
    /\ job[s].pc = "idle" /\ lookups < MaxLookups
    /\ pc \notin {"setup", "closed"}
    /\ \E c \in Caches, t \in Tables :
          job' = [job EXCEPT ![s] = [Idle EXCEPT !.pc = "look", !.cache = c, !.table = t,
                                                 !.version = version]]
    /\ lookups' = lookups + 1
    /\ UNCHANGED <<dbVars, mapVars, version, base, cache, resetVars>>

\* An entry counts if it has the version that the lookup read.
Hit(c, t, v) == {e \in cache[c][t] : e.version = v}

Steps(s, place, next) ==
    /\ job[s].pc = place
    /\ job' = [job EXCEPT ![s].pc = next]
    /\ UNCHANGED <<dbVars, mapVars, version, base, resetVars, lookups>>

\* The cached entry counts if it has the version read; uniqueKeys otherwise
\* asks tableColumns first.
Look(s) ==
    LET j == job[s]
        hit == Hit(j.cache, j.table, j.version) # {}
    IN /\ Steps(s, "look", IF hit THEN "idle"
                           ELSE IF j.cache = "keys" THEN "readVersion" ELSE "query")
       /\ UNCHANGED cache

ReadVersion(s) ==
    /\ job[s].pc = "readVersion"
    /\ job' = [job EXCEPT ![s].pc = "lookColumns", ![s].inner = version]
    /\ UNCHANGED <<dbVars, mapVars, version, base, cache, resetVars, lookups>>

LookColumns(s) ==
    LET hit == Hit("columns", job[s].table, job[s].inner) IN
    /\ job[s].pc = "lookColumns"
    /\ IF hit = {} THEN job' = [job EXCEPT ![s].pc = "queryColumns"]
       ELSE \E e \in hit : job' = [job EXCEPT ![s].pc = "listIndexes",
                                              ![s].content = e.content]
    /\ UNCHANGED <<dbVars, mapVars, version, base, cache, resetVars, lookups>>

\* A PRAGMA reads the committed schema, or is refused: because a transaction of
\* the server or of another client has changed it, or the session's context ends.
Query(s) ==
    LET j == job[s]
        c == IF j.pc = "query" THEN j.cache ELSE "columns"
    IN /\ j.pc \in {"query", "queryColumns"}
       /\ job' = [job EXCEPT ![s].pc = IF @ = "query" THEN "store" ELSE "storeColumns",
                             ![s].content = Content(c, committed, j.table)]
       /\ UNCHANGED <<dbVars, mapVars, version, base, cache, resetVars, lookups>>

QueryRefused(s) ==
    /\ job[s].pc \in {"query", "queryColumns", "listIndexes", "readIndexes"}
    /\ job' = [job EXCEPT ![s] = Idle]
    /\ UNCHANGED <<dbVars, mapVars, version, base, cache, resetVars, lookups>>

\* index_list, then one index_info for each of the names it gave, which finds
\* no columns of an index that is gone, and the entry then has no such key.
ListIndexes(s) ==
    LET listed == IndexesOf(committed, job[s].table) IN
    /\ job[s].pc = "listIndexes"
    /\ job' = [job EXCEPT ![s].pc = IF listed = {} THEN "store" ELSE "readIndexes",
                          ![s].content.indexes = listed, ![s].unread = listed]
    /\ UNCHANGED <<dbVars, mapVars, version, base, cache, resetVars, lookups>>

ReadIndex(s) ==
    /\ job[s].pc = "readIndexes"
    /\ \E name \in job[s].unread :
          job' = [job EXCEPT ![s].pc = IF job[s].unread = {name} THEN "store" ELSE @,
                             ![s].content.indexes = @ \ ({name} \ AllIndexes(committed)),
                             ![s].unread = @ \ {name}]
    /\ UNCHANGED <<dbVars, mapVars, version, base, cache, resetVars, lookups>>

\* Mutant of EntryVersion: an entry gets the version there is when it is stored.
EntryVersionNow(j) == version

\* The version that the lookup began with, and not the one there is now.
EntryVersion(j) == IF j.pc = "store" THEN j.version ELSE j.inner

Store(s) ==
    LET j == job[s]
        c == IF j.pc = "store" THEN j.cache ELSE "columns"
    IN /\ j.pc \in {"store", "storeColumns"}
       /\ cache' = [cache EXCEPT ![c][j.table] =
                       {[version |-> EntryVersion(j), content |-> j.content]}]
       /\ job' = [job EXCEPT ![s] = IF j.pc = "store" THEN Idle
                                    ELSE [j EXCEPT !.pc = "listIndexes"]]
       /\ UNCHANGED <<dbVars, mapVars, version, base, resetVars, lookups>>

Lookup(s) ==
    \/ Start(s) \/ Look(s) \/ ReadVersion(s) \/ LookColumns(s)
    \/ Query(s) \/ QueryRefused(s) \/ ListIndexes(s) \/ ReadIndex(s) \/ Store(s)

-----------------------------------------------------------------------------
(* The clients' DDL.                                                       *)

\* A table that SQLite can have next to the others.
Fits(db, t, what) ==
    what # NoTable => what.indexes \cap AllIndexes(WithTable(db, t, NoTable)) = {}

\* "INSERT ...; ALTER ..." in one text: executeQuery looks at its first words
\* and the driver executes all of it, while no other connection has the write
\* lock.  A table is made, dropped or altered, or gets or loses an index;
\* renaming one is two such steps, and so are a statement in a transaction and
\* the ROLLBACK that takes it back.  Or a trigger comes or goes.  Nothing bumps
\* the version, and the maps' parsers look at the first words too.
RuntimeDDL(s) ==
    /\ job[s].pc = "idle" /\ ddls < MaxDDLs
    /\ pc \notin {"setup", "closed", "apply"}
    /\ \/ \E t \in Tables, what \in Remade :
             /\ Fits(committed, t, what)
             /\ committed' = WithTable(committed, t, what)
             /\ touched' = touched \cup {t}
       \/ committed' = [committed EXCEPT !.trigger = ~@] /\ UNCHANGED touched
    /\ ddls' = ddls + 1
    /\ UNCHANGED <<script, working, mapVars, version, base, cache, resetVars, lookupVars>>

Next == ResetCall \/ ResetStep \/ \E s \in Sessions : Lookup(s) \/ RuntimeDDL(s)

Spec == Init /\ [][Next]_vars

-----------------------------------------------------------------------------
(* Properties.                                                             *)

\* A cached entry that counts says what SQLite says: what a lookup began
\* before a Reset, or read while the schema was gone, is never taken for the
\* schema after it.  Only of a table that a client has changed behind another
\* statement may an entry be stale, and no longer than to the next full Reset.
CacheCurrent ==
    pc = "idle" /\ ~torn =>
        \A c \in Caches, t \in Tables \ touched : \A e \in Hit(c, t, version) :
            e.content = Content(c, committed, t)

\* Tables the script creates once, and does not drop or rename.
Settled(t) ==
    LET creates == {n \in 1..Len(script) : Creates(script[n]) /\ script[n].table = t} IN
    /\ \A m, n \in creates : m = n
    /\ \A n \in 1..Len(script) :
          /\ script[n].op \in {"rename", "drop"} => script[n].table # t
          /\ script[n].op = "rename" => script[n].to # t

\* The maps describe the settled tables that exist and that no client has
\* changed, whatever full Resets failed before the last, which did not: their
\* AUTO_INCREMENT columns, DDL and indexes.
MetadataFollowsSchema ==
    pc = "idle" /\ ~failed =>
        \A t \in Tables \ touched : Settled(t) /\ Exists(committed, t) =>
            /\ t \in autoIncrementColumns <=> ShapeOf(committed, t) # "plain"
            /\ tableDDL[t] = ShapeOf(committed, t)
            /\ {i \in indexMetadata : i[1] = t} = IndexesOf(committed, t)
=============================================================================
