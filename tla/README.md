# mysqlmock, in TLA+

mysqlmock is a MySQL-protocol test server on top of SQLite: a Go process that
listens for MySQL clients, answers what an ORM asks while it sets itself up,
and runs the remaining SQL on SQLite after a light translation. This directory
models the parts of it that keep state between steps of several actors, checks
them with TLC on small instances, and proves all of their safety properties with
TLAPS, for every value of the constants.

Paths below are relative to `src/pkg/mysqlmock/` unless they say otherwise.

## The system

| Component | State it keeps | Operations | Interacts through |
|---|---|---|---|
| Server lifecycle (`server.go`) | `listener`, `done`, `closeOnce`, `wg`, `db`, `keepConn`, `nextConnectionID` | `Start`, `Close`, `acceptLoop`, `handleNetConn` | one goroutine per client; the `database/sql` pool of 16 connections; `WaitGroup` |
| Advisory locks (`server_state.go`) | name -> connection id | `get`, `release`, `releaseAll` | called from a session's `SELECT GET_LOCK(...)`, and deferred by `handleNetConn` |
| Session (`protocol.go`) | status flags, current database, variables, last insert id, restore marks, prepared statements | `serve` dispatches commands, `executeQuery` routes: rules, compat handlers, SQLite | its own `*sql.Conn`; the `Server`'s maps and stores |
| AUTO_INCREMENT (`auto_increment_compat.go`) | `Server.autoIncrement` (highest value given per table), restore marks per session | record, restore, next value | every INSERT and every rollback |
| Reset and setup (`server.go`) | `schemaVersion`, `baseSchemaVersion`, prepared schema and seed, metadata maps | `openBackend`, `Reset` (data-only or full) | `keepConn`; the clients, by SQLite's locks and the version counter |
| Rules (`rules.go`) | prepared rules, `ruleOnceUsed` | `matchRule`, `executeRule` | asked first for each query; cleared by `Reset` |
| Prepared statements (`prepared.go`) | statements, parameter types and long data per session | prepare, send long data, execute, reset, close | `executeQuery` with arguments |
| INSERT compatibility (`upsert.go`) | none of its own | ON DUPLICATE KEY UPDATE, IGNORE, REPLACE row by row | several SQLite statements for one query; unique-key cache; AUTO_INCREMENT |
| information_schema (`information_schema.go`, `information_schema_cache.go`) | eight tables in an attached in-memory database that all connections share; what is loaded at which schema version, and kept results | refresh of schemata, table list, one table or all; query; keep a result | the client's transaction, `informationSchemaMu`, `bumpSchemaVersion` |
| Other caches (`sql_translation_cache.go`, `upsert.go`, `auto_increment_compat.go`) | translated texts (4096, oldest out), table columns, unique keys | look up, build outside the lock, store | `bumpSchemaVersion` empties those that depend on the schema |
| Wire protocol (`protocol.go`, `protocol_codec.go`, `sqlite_result.go`) | capabilities of the client, status flags | greeting, command loop, packets, OK / ERR / result sets | the client; `executeQuery` |
| Scanner and translation (`sqlscanner.go`, `sql_compat.go`, `ddl_compat.go`, `mysql_syntax_compat.go`, `function_compat.go`) | none | split statements, rewrite MySQL syntax | `executeQuery`, schema setup |
| Diagnostics, stats (`diagnostics.go`, `stats.go`) | logs and counters | append, snapshot, reset | written everywhere, read by tests |
| Errors, SQL functions (`mysql_error_compat.go`, `sqlite_functions.go`) | none | conversions | session |
| Config, CLI (`config.go`, `config_schema.go`, `src/cmd/mysqlmock/main.go`) | none once started | load, validate, serve | owner of the server |

What makes each of them right:

- **Lifecycle**: the backend closes after the last handler; Close leaves
  nothing; a driver connection is never in two hands nor lost; a client waits
  only for clients that are really there; locks end with their session.
- **Sessions**: the flag sent to the client agrees with the SQLite connection;
  what was acknowledged outside a transaction stays.
- **AUTO_INCREMENT**: no value is given twice, rollbacks included.
- **Reset**: it restores schema and seed, clients see no half of it, and after
  a failure the next one still works.
- **Rules, prepared statements**: a once rule fires once between two resets; an
  execution uses the parameters sent for it.
- **INSERT compatibility**: a row that no other session disturbs does what it
  does in MySQL, and what a failing row leaves behind is known.
- **information_schema**: answers are what the SQLite schema says; a query ends.
- **Wire protocol**: each answer is one the client can follow to its end, and it
  has an end; both sides agree on the statements that are open.
- **Caches**: what is served was built from the schema of its version, or is
  what translating the text now would give.
- **Scanner**: every scan of a text sees the same quotes, comments and
  placeholders, and a part cut out of a text means what it meant in it.
- **Diagnostics**: a query that was answered is counted and listed, unless a
  Reset came in between.

The behaviours that are hardest to test are the order of accept, `wg.Add` and
Close, the pool at its limit, a connection that goes back to the pool in the
middle of a transaction, rollbacks whose bookkeeping is a second statement,
clients between the two transactions of Reset, contexts that run out there, metadata
written inside a client's transaction, a mutex held while SQLite waits, INSERTs
that are several statements, and texts that two scanners read differently.
`PROJECT.json` lists them line by line under "hazards".

## The modules

### ConnectionLease - what the others may assume

The abstract pool: pairs of client and driver connection, granted when neither
is leased and given back once. `Session` uses its actions; `ServerLifecycle`
implements it.

### ServerLifecycle

The goroutines of a server. `closer` is the place reached inside
`closeOnce.Do`, `acceptor` that of `acceptLoop`, `handler[c]` that of the
goroutine of client `c`:

    absent -> backlog -> accepted -> checkout -> initializing -> serving
                                        |             |             |
                                        v             v             v
                                     exiting <--- returning <--- unlocking

with the deferred calls (`releaseAdvisoryLocks`, `sqliteConn.Close`,
`conn.Close` and `wg.Done`) as one step each, in Go's order. `Start`,
`CloseSignal`, `CloseListener` and `CloseBackend` are Start and the three parts
of Close between which others run. `Start` may come after `Close`, as the code
allows; `closeOnce` is spent then. `GetLock` and `ReleaseLock` are what
`GET_LOCK` and `RELEASE_LOCK` do; a refused lock changes nothing and is not an
action.

### Session

Sessions on one table whose key is a single-column AUTO_INCREMENT. A step is
one SQLite statement or one access to the server's allocation map: `Rollback`
is SQLite's ROLLBACK, `FinishRollback` the restore of `sqlite_sequence` and the
flag; `InsertExec` is SQLite's INSERT, `RecordAllocation` the bookkeeping and
the OK packet. SQLite is modelled by what the code meets: one write lock per
database (`writer`), the database as its writer sees it (`image`), and per
driver connection the frames of its open transaction (`undo`), each with what a
rollback to it brings back. The habits say what clients do besides well-formed
transactions: `abandon` leaves in the middle of one, `bareSavepoint` starts one
with SAVEPOINT. The history variables `handed`, `durable` and `raced` are read
by properties only.

### ServerReset

`Server.Reset`, one SQLite statement per step, next to clients in transactions.
`pc` is the next statement; `working` is the database inside the open
transaction and `committed` what everybody else sees. `TransactionFails` is any
error path of `withSQLiteTransaction` with its deferred ROLLBACK, which the
driver refuses once the context is done; `Decide` is `canResetBackendData` and
the comparison of versions. The habits are a caller's `deadline` and the `ddl`
that clients get executed behind an INSERT. Not in the module: what Reset
clears in memory besides the parsed metadata, and concurrent calls of Reset.

### InformationSchema

How a query on `information_schema` is answered. `pc[k]` is the place of session
k: `lookup` (kept results), `prepare` (the version is read again), `refresh`
(it waits for `informationSchemaMu`), `locked` (it has it, and waits for the
table locks of SQLite), `read` (the query itself) and `store`. `rows` are the
shared tables, `marks` and `results` the server's cache. A query is a kind: one
table (targeted), `"list"`, `"schemata"` or `"all"`; it asks for the rows of
`DATABASE()`, as introspecting clients do. SQLite is modelled by its shared-cache
table locks: a writer's uncommitted refresh keeps others from reading, a
transaction that has read keeps others from refreshing, and a statement waits.
One lock stands for all eight tables, so two refreshing transactions never wait
for each other here. A full Reset is four steps: schema dropped, applied,
version bumped, cache cleared; `ResetFails` is one whose second transaction
fails, which leaves the schema dropped under the old version. The server accepts
and ignores DDL that is a statement of its own, but a text that begins with
INSERT and goes on with DDL runs whole on SQLite and bumps no version:
`RuntimeDDL`, of a session outside a transaction. Left out: such a text inside a
transaction, ROLLBACK TO SAVEPOINT over a refresh (as ROLLBACK), a refresh whose
statement fails (it is rolled back with its own savepoint), SHOW FULL FIELDS and
the eviction of results.

`misled` is history: a query that no Reset overlapped was answered differently
from the SQLite schema. `undone` says that a rollback has taken a refresh back
that the marks vouch for, `changed` that the schema is not the one the version
stands for: since the version went up a client changed it, or a Reset failed
after dropping it. `MutexCycle` names the one situation in which sessions
wait for each other for good: one holds the mutex and waits for a transaction's
table lock, the owner of that transaction waits for the mutex. SQLite cannot see
a cycle of which half is a Go mutex.

### Dialogue

One connection: `srv` is the place of the handler, `out` the packets of the
response it still writes (one per step), `stmts` its statement table; `cl` is
what the client waits for, `known` its own table of statements. A packet is its
kind and sequence number. `Columns`, `ResultSet`, `PrepareReply` and
`DefinitionsEnd` are the sequences the writers of `protocol_codec.go` and
`prepared.go` produce, for clients with and without `CLIENT_DEPRECATE_EOF`.
`HandleQuery` and `ExecuteReply` allow every outcome of an execution: OK, ERR, a
disconnecting rule, a result, a result cut off. The client follows the protocol
strictly and drops the connection (`lost`) on a packet that is out of sequence
or out of place; it may leave out types too early, name a statement that is
none, and go away at any moment. `strange` is history: a result without columns,
or a binary row of 16MB or more, both of which the server answers with packets
that no client can follow (hazards in `PROJECT.json`). A packet has fewer than
2^24-1 bytes, or is a row of 2^24 and more, which the server refuses: packets of
exactly 2^24-1 bytes, after which a client expects the rest in the next, are left
out. `misbound` is history: a
statement was executed with other types or long data than the client meant.

### Upsert

How `upsert.go` carries out INSERT, INSERT IGNORE, REPLACE and ON DUPLICATE KEY
UPDATE on a table with the composite key `(id, code)`, `id` AUTO_INCREMENT, and
`UNIQUE (ref)` - the case in which mysqlmock, not SQLite, chooses the ids. A
statement is a list of rows, each executed on its own and without a transaction
around the row or the statement. `job[s].pc` is the next SQLite statement or
access to the allocation map: `readMax` and `readAllocation` choose an id,
`find` asks key by key which row is in the way, then `insert`, `delete` (of
REPLACE), or `fetchBefore`, `update`, `fetchAfter` and `readId`, and `record`.
Sessions run alone or inside BEGIN ... COMMIT or ROLLBACK; SQLite's one write
lock is `writer`.

`MySQLRow` is the abstract specification: what MySQL does with the row in one
step. `RowAsInMySQL` compares the table and the affected-rows count after each
row with it. It speaks of rows next to which no other session wrote: the row
found may otherwise be gone, or another one, when it is updated. `KeptByFailure`
names what a failing row leaves behind in spite of MySQL: REPLACE has deleted
rows before its INSERT fails, and an UPDATE is done when the SELECT after it is
refused. The last insert id of a row with an explicit id is SQLite's rowid; no
property is about it.
The module assumes the default `database.shared: true`; otherwise several
databases share one allocation map, ids skip values, and nothing the repository
promises is broken.

### Rules

What happens around the execution of a query: `WithDefaults` and `ValidRule` are
what `config.go` makes of the rules; `MatchRule` goes through them as `matchRule`
does, one rule after another, with the use of a once rule under its mutex as one
step; then the delay, the rule's answer or the route (`compat`, DDL, SQLite,
unsupported), and the order in which the counters, the query event and the
unsupported query are written relative to the answer. `ResetStep` is the part
of `Server.Reset` that clears events and used rules, which is left out of
`ServerReset`. Texts, parameters and patterns are members of small sets:
`Normal`, `Covers` and `Repr` stand for `normalizeSQL`, the regular expressions
and substrings, and `fmt.Sprint`. A compatibility query that is answered by asking
SQLite (SHOW TABLES, information_schema) has the plan of a query for SQLite, since
it can end in a syntax error like one.

### Metadata

The maps beside SQLite (`index_metadata.go`): which table has an AUTO_INCREMENT
column, the MySQL names of indexes, the text of CREATE TABLE; and the three
caches of what PRAGMAs say of a table (`tableColumns`, `uniqueKeys`,
`sqliteTableUsesAutoincrement`), each entry under the schema version its reader
saw first. A lookup of unique keys is one query of the list of indexes
(`ListIndexes`) and one for each of them (`ReadIndex`), between which others run. The configured schema is a script of statements; `setup` and a full
`Reset` apply it one by one in a transaction and write the maps on the way,
outside of it. The maps are keyed by the names the script used: DROP and RENAME
inside a schema leave the old names behind, CREATE TABLE IF NOT EXISTS of an
existing table overwrites what is recorded, and a full Reset that fails leaves
the maps as far as it came. `RuntimeDDL` is what a client gets executed behind an
INSERT: a table made, dropped or altered, with its indexes, or a trigger, under
the same version and past the maps. `touched` is the history of the tables so
changed since the last full Reset dropped everything, and both properties except
those tables and no others. `MetadataFollowsSchema` says exactly when the maps
describe the tables. The rename and drop functions of `index_metadata.go` have
no caller that reaches them with an entry.

### TranslationCache

One of the four caches of `sql_translation_cache.go`: look under the mutex,
translate outside of it, store under it, drop the oldest at the limit. The
invariant is the code's own: `order` lists the keys of `items` once each. Its
names differ from those of `Metadata` (`TranslationInit`, `LookText`, ...)
because `Translation_proofs` extends both modules.

### SQLScanner

The scanners as functions on texts, under the names of the code:
`quotedSQLSpan`, `sqlCommentSpan`, `countPlaceholders`, `splitSQLTopLevelList`,
`splitSQLStatements`, the parsing of the rows of VALUES (`RowsFrom`) with the
arguments they take (`Taken`), and the body of CREATE TABLE taken apart and put together
(`Rebuilt`). The state is a text that grows by one piece a step, so that a run
visits every text up to a length. `countPlaceholders` is an automaton of its own
and ends a line comment at a carriage return too, which the other scanners do
not: `ArgumentsReachTheirRows` excepts texts with a carriage return in a line
comment (`InLineComments`), and is violated without that exception. A dump's CREATE TABLE that
follows a comment is dropped by `schemaStatementsFromDump`; the module has the
scanner it uses and not that filter.

### MC modules and proof modules

`MCServerLifecycle`, `MCSession`, `MCServerReset`, `MCInformationSchema`,
`MCDialogue`, `MCUpsert`, `MCRules`, `MCMetadata`, `MCTranslationCache` and
`MCSQLScanner` add the symmetry sets, configurations and values for TLC.
`ServerLifecycle_proofs`, `Session_proofs`, `ServerReset_proofs`,
`InformationSchema_proofs`, `Dialogue_proofs`, `Upsert_proofs` and `Rules_proofs`
hold the theorems about the module they are named for, `Translation_proofs` those
about `Metadata`, `TranslationCache` and `SQLScanner`.

Operators named `...AtOnce`, `...Uncounted`, `Not...` and the like, marked
"Mutant of", are wrong versions of the definition that follows them. They are
not part of any specification; each shows that some property notices the bug.

## The runs

| Run | Instance | What it shows |
|---|---|---|
| `server_lifecycle` | 3 clients, 2 driver connections, 1 lock name, 3 sessions; `FairSpec` | shutdown order, nothing left after Close, locks end with sessions, Close returns and waiting clients are served unless a client stays; `ConnectionLease` is implemented |
| `session` | 2 clients, 2 connections, shared database, 1 savepoint name, 4 key values, 3 frames | the flag is right, acknowledged rows stay, and a key value comes back only when an INSERT fell between another session's ROLLBACK and its restore |
| `session_abandon` | as above with `abandon` | expected violation: the next client of a connection inherits an open transaction while its flag says it has none |
| `reset` | 2 clients, 3 keys of which 2 are seed, with and without a configured trigger, deadlines and runtime DDL, 3 resets | rows are always restored, the schema until a client changes it; no half reset is seen; failures leave nothing behind unless a context expired; an undisturbed Reset works again unless a context expired or the schema was lost |
| `information_schema` | 2 sessions of one database, 2 tables of which 1 is asked for, 3 statements (queries of three kinds, schema changes), 1 transaction, 1 full Reset that may fail half way | answers follow the schema unless a refresh was rolled back or the schema changed behind the version; no result of a half-built schema is kept; queries and Reset end, except in a cycle through the mutex |
| `dialogue` | with and without EOF packets, 2 statements, up to 2 parameters, 2 columns and 2 rows, 2 type vectors, 1 piece of long data per parameter, 4 commands, sequence numbers modulo 4 | the client can follow each answer, is in step whenever it is idle, gets all answers or the end of the connection; its statements and arguments are the server's |
| `upsert` | 2 sessions, 2 seed rows, 2 codes, 1 ref and NULL, ids up to 4 of which 2 are named explicitly, 2 rows in all statements | an undisturbed row does what MySQL does; an id is generated twice only when another session was between the choice and the INSERT; the allocation map covers the table |
| `rules` | 2 sessions, 4 rule files with every kind of match, 6 texts, 2 queries, 1 Reset | a query takes the first rule that matches and was not used up; a once rule fires once between two clearings; what was answered is recorded; queries and Reset end |
| `metadata` | 2 sessions, 2 tables, 7 scripts of which 2 have a trigger, 2 Resets, 2 lookups, 1 schema change of a client | no cache entry is served that another schema filled; the maps describe the schema except where a script, a failed Reset or a client's DDL is known to leave them behind |
| `translation_cache` | 3 sessions, 4 texts, limit 2, 6 calls | whatever was stored and dropped meanwhile, a call answers what translating its text gives; the order list and the limit hold |
| `sql_scanner` | 5 beginnings, 13 pieces, 5 pieces: every such text | placeholders, rows and statements are found alike by all scanners; a part scanned alone is what it was in the text |
| `scanner_comment` | as above | expected violation: CREATE TABLE is put together with a line comment that swallows its closing parenthesis |

The expected violations are disagreements of the code with its documentation;
"findings" in `PROJECT.json` quotes both. Where a promise has limits, the
passing property states them: `NoReuseUnlessRaced` excepts the INSERT between
ROLLBACK and restore, `ResetRecovers` a context that expired inside a
transaction and a full Reset that failed between its two commits,
`ResetRestoresData` DDL that a client got executed behind an INSERT,
`WrongOnlyAfterUndoneRefresh` and `StoredResultsAreCurrent` a refresh that its
transaction took back and a schema that such DDL or a failed Reset changed behind
the version, `CacheCurrent` and `MetadataFollowsSchema` the tables such DDL changed,
`FreshUnlessRaced` a composite id chosen next to another session's,
`CallsEnd` the cycle through the mutex. Each was seen to be violated without
its exception.
The exception of `ResetRestoresData` is a divergence too: the comment of `Reset`
(`server.go:309`) promises the configured schema, but without a trigger nothing
tells Reset that a client has made or dropped a table behind an INSERT, and it
deletes rows only.

**Bounds.** `MaxSessions` counts sessions ever opened: three allow a client to
come back and meet the id and lock of an earlier session. Two driver
connections stand for the pool of 16: one is `keepConn`, so the second client
finds the pool empty. Four key values allow an insert, a rollback, another
insert by each session and one more after the restore; three frames are BEGIN
and a savepoint name used twice. Three resets are a failing one, one that
inherits its state and one after that. Two clients suffice in `ServerReset`,
as one reads while the other writes. In `InformationSchema` three queries let
one session fill the cache, another use it and a third ask in the transaction
that blocks them; one Reset suffices, as each version differs from all others, and
a schema change of a client, one of the three statements, may come before, during
or after it. A fourth kind of query, `"schemata"`, whose rows and mark no other kind
relies on, was checked as well and doubles the time of the run. In
`Dialogue` four commands are prepare, long data, execute and execute again, or
two statements used in turn; the sequence numbers wrap within one result. In
`Upsert` two rows are one statement of two rows or one row of each session,
which is every way one row's steps meet another's; with two seed rows one new
row can conflict with two, and `MaxId`, the last AUTO_INCREMENT value, is
reached by one explicit id. In `Rules` two queries are both sides of a once
rule, and one Reset gives it back. `Metadata` needs a Reset that fails and one
that inherits its state; one session with three lookups, and two with three,
were checked as well, before clients changed schemas in it. Its one schema change drops a table, or makes it one with
AUTOINCREMENT and an index, or makes or drops a trigger, which is what turns the
Resets of the scripts without one into full ones, anywhere among those steps; several of
them are no other thing for a property that excepts the tables touched, and the
proof is for any number. In `TranslationCache` four texts pass through two entries,
so that one is dropped and stored again while a third session translates it. In
`SQLScanner` the beginnings open what takes many pieces to open, so that five
more close it, comment it and ask for an argument. The bounds stand in guards
(`Dial`, `SetSavepoint`, `InsertExec`, `ResetCall`, `Ask`, `Begin`,
`ResetDrop`, `Sends`, `SendLong`, `SendPrepare`, `Start`, `RuntimeDDL`,
`Call`, `Grow`).

**Deadlock.** Checked in the runs of `Session`. Unchecked in
`server_lifecycle`, where a server that was closed is done; in `reset`, where a
write lock leaked by an expired context stops every writer for good and the
bound stops Reset; in `information_schema`, where the bounds end and the mutex
cycle is a real deadlock; in `dialogue`, where a connection ends; and in the
runs of `Upsert`, `Rules`, `Metadata`, `TranslationCache` and `SQLScanner`,
whose bounds of statements, queries, lookups, calls and length end them.

**Fairness.** In `information_schema` each handler goes on with its query and
Reset with its steps, and a client that waits for no answer ends its transaction
some time (without that a transaction may block the others for ever, as in any
database). In `dialogue` the handler and the client's reading go on; no client
has to send anything. In `rules` Reset and each session's handler go on with
their steps (a delay ends); no client has to ask. In `server_lifecycle` goroutines that can run do run
(weak fairness of Close's continuation, the accept loop and the handlers'
steps). `Checkout` is strongly fair: `database/sql` hands a returned connection
to one of its waiters, chosen at random, so that a waiter which can be chosen
again and again is. A handler whose client is gone finds out (`PeerLost`). No
client has to dial, hang up or quit, and the owner has to call nothing.

## What is proved

**ServerLifecycle_proofs**, for any finite set of clients, any pool, any lock
names and any bound: `TypeCorrect`, `BackendOutlivesItsHandlers`,
`CloseLeavesNothing`, `LocksEndWithTheirSession`, `ConnsExclusive` and
`LeaseImplemented`. The inductive invariant is `IInv`. Its centre is `Counted`:
`wg` is the number of handlers between `wg.Add` and `wg.Done` plus one while
the accept loop lives, which is what lets `CloseBackend`, waiting for zero,
conclude that nobody runs; the steps need the library's facts on cardinalities,
whence the assumption that `Clients` is finite. `Phases` ties the listener, the
accept loop and Close together (a connection is accepted only while the accept
loop is counted, so `wg.Add` never starts from zero), `Stages` the handlers to
the backend, `Conns` says who holds which driver connection, and `Ids` that
session ids are distinct and below `nextConnectionID`, without which a lock's
owner would not be one session.

**ServerReset_proofs**, for any clients, keys, seed and configurations:
`ResetTypeCorrect`, `ResetLeavesNothingOpen`, `TableStays`, `NoHalfResetSeen`,
`ResetRestoresWhatItSays` and `ResetRecoversAlone`. The inductive invariant
`ResetInv` says who has the write lock at each statement (`Locks`), that an
undisturbed Reset has neither readers nor late rows (`Alone`), what `working`
and `committed` hold between the statements (`Progress`), that version and
metadata follow the schema (`SchemaKept`) and that a data-only reset was chosen
only when it suffices (`KindFits`). `ResetRestoresWhatItSays` assumes that the
seed has a row: with an empty seed a data-only Reset on a lost schema has
nothing to insert and reports success.

`TableStays` is proved and not a property of a run: without triggers and
runtime DDL the table clients use never disappears.

**Session_proofs**: `StateHasItsType` for all clients, and for clients that
neither leave inside a transaction nor start one with SAVEPOINT (`Polite`, that
is `Habits = {}`) `FlagIsTrue`, `AcknowledgedRowsStay` and, on a shared database,
`NoValueComesBack`. The hypothesis is needed: `session_abandon` is the
counterexample without it. Every command is described once, as one change of
its connection's database image, write lock and frames, and what such a change
may be (`Legal`) is shown command by command; each invariant is then shown for
legal changes. `PairInv` says that a driver connection has one user, is inside a
transaction only while it has, and that the place a session has reached decides
what its flag may say. `UndoInv` says that the frames of a transaction hold
less the further out they are, so that no rollback brings back more than was
there, and `DurableInv` what a session knows of the row it has just inserted.
`NoValueComesBack` is an action property about all histories; it rests on
`ReuseInv`: `sqlite_sequence` is behind the allocation map only while a marked
session has rolled back and not restored, a marked session keeps the write lock
until its rollback, and an unmarked one has nothing to lose that was handed out.
An INSERT in the gap is what `raced` records, and what the property excepts.

**InformationSchema_proofs**: `VariablesHaveTheirTypes`, and for sessions of one
database name (`OneDb`) `OnlyUndoneRefreshMisleads` and
`StoredResultsFollowSchema`. Rows carry the name of the session that refreshed
them while marks are for everybody, so with two names the answers do depend on
who refreshed (a hazard in `PROJECT.json`). The inductive invariant `TruthInv`:
once the schema is whole and the version bumped, a mark of this version vouches
for rows that are right, a result kept under it is right, and a query that has
read this version finds or has found what the schema says, unless the schema
changed behind the version; while a Reset is under way no query counts as calm.

**Dialogue_proofs**, for clients with EOF packets and without, any numbers of
columns, rows, parameters, statements and commands, and sequence numbers of any
modulus above two: `DialogueTypes`, `ClientsFollow`, `InStep` and
`StatementsAgreement`. What has still to come from the server, on its way or not
yet written, is one sequence of packets (`Coming`), and `Turns` says for each
state of the client what it is: the rest of an answer, numbered from the number
the client expects, or nothing. The packet sequences of the writers are shown to
be answers once (`ResultSetShape`, `CutShape`, `HugeRowShape`, `PrepareShape`),
and that a packet at the head of the rest has its place and leaves a rest of the
same kind (`ReceiveFollows`). `Agreement` is about statements: the client
changes its table when it sends a command, the server its own when it handles
it, so there is a table for every command on its way - the server's once it has
handled that command - the last of which is the client's. That COM_RESET_CONNECTION
forgets the client's statements and not the server's is why the tables need to
agree on the statements that the client knows only. A statement of the client
that was never prepared (id 0) is open in none of them.

**Upsert_proofs**: `RowsHaveTheirTypes`, `AllocationIsAhead`, `GeneratedOnce` and
`RowsAreAsInMySQL`. The second and third are one argument: what was handed out is not above the allocation map,
a value is generated above both the table and the map, and nobody raises the map
while the row is undisturbed (`Ahead`); only an INSERT puts an id into the table,
and its session is the one about to record it. The highest id of a table exists
because tables are finite, by well-founded induction over finite sets.
`RowsAreAsInMySQL` rests on `WayInv`, which says at each place of a row's way
what the session reads, compared with the table the row began with: that table
still, the rows in the way being deleted one by one, the found row with its new
value, or the row done. Whoever changes what a session reads while its row is on
the way disturbs it, and of disturbed rows the property does not speak. The
tables meet their keys throughout (`Keyed`), so a key finds at most one row.

**Rules_proofs**: `ListsHaveTheirTypes`, `OnceIsOnce` and `ListsTellAnswers`. The
marks are exactly
the once rules taken since the marks were cleared, each by one query
(`MarksAreTakes`), and a query that still looks at rules has taken none
(`PassedToOthers`), so a rule it finds used was used by another one. The rest
keeps queries apart by their ids (`QueriesApart`) and says where in its plan a
query is (`InOrder`). `ListsTellAnswers` states `AnsweredIsRecorded` and counts:
`Times` is how often something is in a list, it adds up over the parts of a plan,
and `RecordsInv` says that the events of a query and those its plan has still to
add are together as many as its answer needs, that a plan ends with the answer,
and that a query from before the lists were cleared is one of those carried.

**Translation_proofs**, of `Metadata`: `StateHasItsType`, `CachedEntriesAreCurrent` and
`MapsFollowSchema`. An entry counts by its version, so `CacheInv` says that no
version is ahead of the server's (`VersionsBehind`), and that an entry or a lookup
on its way to store one under the present version has what SQLite says now,
except between a Reset's commit and its bump, or after one that stopped there, and
but for tables that a client touched (`CurrentWhenSettling`). `MapsInv` follows the script: after each statement a
table it does not rename, drop or create twice is described by the maps exactly
if a statement applied so far created it (`GrowTogether`).

Of `TranslationCache`: `OrderMatchesEntries` and `AnswersAsTranslatedNow`.
`TranslationInv` adds to the type, which says that list and entries agree, that
each entry is what its text parses to.

Of `SQLScanner`: `PartsAlone` and `ArgumentsReach`. The scanners are loops over the text and their model
is recursive, so this is an argument about data: `Upward` and `Downward` are
induction over positions, from the well-foundedness of the natural numbers, and
`ForwardExists` and `BackwardExists` say that the functions defined by recursion
exist and are what their definitions say. On them rests one fact about scanning:
a part of a text, at which a scan of the text arrives and that ends where the
scan comes by, in white space, or before a closing parenthesis (`Passage`), is
seen alike when it is scanned alone (`PassageAlike`), because quotes and comments
that begin in it have the same ends in both or end with it (`SpanAlike`). Then
its depth is that in the text less what was open before (`NestingAlike`), so
that what was no separator is none alone, and what was open is closed.

`ArgumentsReach` compares two scanners. The automaton of `countPlaceholders` is in
code again wherever a scan comes by (`CountAfter`: over a quote by `CountQuoted`,
over comments by `CountLine`, which needs that no carriage return is in them, and
`CountBlock`), so what it counts are the placeholders the scan sees
(`CountIsMarks`). What two positions hold between them (`Held`) adds up, a passage
holds when counted alone what it holds in the text (`PassageCounts`), and so the
parts between commas hold all there is (`PartsCount`), a row what is between its
parentheses (`RowTakes`), the rows what the text of VALUES holds (`RowsTake`), and
rows and update what the statement holds (`RowsAndUpdate`).

The proofs rest only on the named assumptions of the modules
(`LifecycleAssumption`, `SessionAssumption`, `ResetAssumption`,
`InformationSchemaAssumption`, `DialogueAssumption`, `UpsertAssumption`,
`RulesAssumption`, `MetadataAssumption`, `CacheAssumption`, `ScannerAssumption`), which say what kind
of thing the constants are, on `SeedAssumption` (the seed rows meet the keys of
their table, or the backend would not have been set up), and on the hypotheses
named above. None bounds the number of clients, sessions, rows, texts or rules.
Where a module bounds a counter for TLC (`MaxResets`, `MaxQueries`, ...) the
proof is for every bound.

**Only model-checked**: the liveness properties `CloseReturns`,
`WaitingMeansBusy`, `CallsEnd`, `NobodyIsLeftWaiting` and `QueriesEnd` (liveness
is beyond the prover). Every other property that a passing run checks is a theorem.

## Not modelled

Error mapping and scalar functions are stateless conversions, one pattern each,
which a model would only repeat. The same holds for the rewriting of single
MySQL words and functions, for the contents of packets (length-encoded values,
rows), the JSON of snapshots, the buckets of the statistics, and the parsing of
files and flags in config and CLI. Reading schema and seed files, the order of
`applySeedRows`, session variables, `SHOW FULL FIELDS` results, the eviction of
kept information_schema results and sessions of several database names
(`InformationSchema` has them as a constant, with one in the run), its schema
changes inside a client's transaction, and packets of exactly 2^24-1 bytes with
the one that follows them are left out
of components that are modelled partly. What Reset does to AUTO_INCREMENT
allocations is left out: no module has both.

Of SQLite only what is named above is modelled: deadlock detection between
upgrading readers, busy timeouts and file journals appear as a statement that
is refused. `COM_RESET_CONNECTION` answers OK and resets nothing; `Dialogue`
covers what that means for statements, sessions in `Session` do not send it.
`uint32` connection ids do not wrap within the bounds of any test suite and are
natural numbers here.

## What could come next

1. Reset next to INSERT: the allocation map is cleared after the last commit of
   Reset, between two statements of a client perhaps.
2. Without `Polite`: what of `FlagTracksTransaction` and `AckedOutsideIsDurable`
   remains for the well-behaved sessions next to one that leaves inside a
   transaction.
3. Sessions of several database names in a run of `InformationSchema`, with what
   their answers then depend on stated as a property.
4. A client's schema change inside a transaction in `InformationSchema`, with what
   a ROLLBACK of it does to a refresh of the same transaction.
