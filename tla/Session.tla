------------------------------ MODULE Session ------------------------------
(***************************************************************************)
(* Client sessions and the SQLite transactions behind them: BEGIN, COMMIT, *)
(* ROLLBACK [AND CHAIN], SAVEPOINT, RELEASE, ROLLBACK TO and INSERT as     *)
(* executeQuery and execSQLite carry them out, the SERVER_STATUS_IN_TRANS  *)
(* flag mysqlmock keeps for the client, and the bookkeeping that restores  *)
(* sqlite_sequence after a rollback so that AUTO_INCREMENT values are not  *)
(* handed out twice (auto_increment_compat.go).                            *)
(*                                                                         *)
(* The data is one table with a single-column AUTO_INCREMENT key, that is  *)
(* an AUTOINCREMENT table in SQLite: the rows are its key values.  A step  *)
(* is one SQLite statement or one access to the server's allocation map,   *)
(* so that sessions interleave where the code lets them.                   *)
(***************************************************************************)
EXTENDS Naturals, Sequences

CONSTANTS
    Clients, DriverConns,
    Savepoints,     \* names given to SAVEPOINT
    Begun,          \* the name of the frame a BEGIN opens, not a savepoint name
    NoConn,
    Shared,         \* database.shared: one database, or one per connection
    SharedDb,       \* the one database when it is shared
    Habits,         \* what clients do besides BEGIN .. COMMIT and a polite quit
    MaxId,          \* bound of the model: AUTO_INCREMENT values 1..MaxId
    MaxFrames       \* bound of the model: BEGIN and SAVEPOINT nesting

ASSUME SessionAssumption ==
    /\ NoConn \notin DriverConns
    /\ Begun \notin Savepoints
    /\ Shared \in BOOLEAN
    /\ SharedDb \notin DriverConns
    /\ Habits \subseteq {"bareSavepoint", "abandon"}
    /\ MaxId \in Nat /\ MaxFrames \in Nat

VARIABLES
    lease,     \* which session uses which driver connection (ConnectionLease)
    image,     \* each database: the rows and sqlite_sequence its writer sees
    writer,    \* each database: the driver connection that has the write lock
    undo,      \* each driver connection: the open transaction's frames
    inTrans,   \* each session: statusFlags & serverStatusInTrans
    marked,    \* each session: the table is in autoIncrementRestoreTables
    alloc,     \* s.autoIncrement of the table, for the whole server
    pc,        \* each session: the command it is in the middle of
    newId,     \* each session: LastInsertID of the INSERT in progress
    handed,    \* history: each database, the values acknowledged to a client
    durable,   \* history: rows acknowledged outside any transaction
    raced      \* history: an INSERT fell between a ROLLBACK and its restore

serverVars == <<image, writer, undo, alloc>>
sessionVars == <<inTrans, marked, pc, newId>>
history == <<handed, durable, raced>>
vars == <<lease, serverVars, sessionVars, history>>

LeaseModel == INSTANCE ConnectionLease

Dbs == IF Shared THEN {SharedDb} ELSE DriverConns
Db(k) == IF Shared THEN SharedDb ELSE k

Ids == 1..MaxId
Images == [rows : SUBSET Ids, seq : 0..MaxId]
Seeded == [rows |-> {}, seq |-> 0]
Frames == [name : Savepoints \cup {Begun}, image : Images]

Open(k) == undo[k] # <<>>
Uses(c, k) == <<c, k>> \in lease

\* The session waits for its client's next command.
Idle(c) == pc[c] = "idle"

TypeOK ==
    /\ LeaseModel!LeaseTypeOK
    /\ image \in [Dbs -> Images]
    /\ writer \in [Dbs -> DriverConns \cup {NoConn}]
    /\ undo \in [DriverConns -> Seq(Frames)]
    /\ inTrans \in [Clients -> BOOLEAN]
    /\ marked \in [Clients -> BOOLEAN]
    /\ alloc \in 0..MaxId
    /\ pc \in [Clients -> {"idle", "inserted", "rolledBack", "chaining", "rolledBackTo"}]
    /\ newId \in [Clients -> 0..MaxId]
    /\ handed \in [Dbs -> SUBSET Ids]
    /\ durable \in [Dbs -> SUBSET Ids]
    /\ raced \in BOOLEAN

Init ==
    /\ LeaseModel!LeaseInit
    /\ image = [d \in Dbs |-> Seeded]
    /\ writer = [d \in Dbs |-> NoConn]
    /\ undo = [k \in DriverConns |-> <<>>]
    /\ inTrans = [c \in Clients |-> FALSE]
    /\ marked = [c \in Clients |-> FALSE]
    /\ alloc = 0
    /\ pc = [c \in Clients |-> "idle"]
    /\ newId = [c \in Clients |-> 0]
    /\ handed = [d \in Dbs |-> {}]
    /\ durable = [d \in Dbs |-> {}]
    /\ raced = FALSE

-----------------------------------------------------------------------------
(* SQLite.                                                                 *)

\* A statement that writes needs the database's one write lock, which its
\* transaction then keeps; SQLite answers BUSY or LOCKED while another has it.
CanWrite(k) == writer[Db(k)] \in {NoConn, k}

\* A new frame; until its transaction writes it has nothing to undo.
Frame(k, s) ==
    [name |-> s, image |-> IF writer[Db(k)] = k THEN image[Db(k)] ELSE Seeded]

\* k writes image img: alone (autocommit) or as part of its open transaction,
\* whose frames go back to what they found when k became the writer.
Write(k, img) ==
    LET d == Db(k) IN
    /\ image' = [image EXCEPT ![d] = img]
    /\ IF Open(k) /\ writer[d] = NoConn
       THEN /\ writer' = [writer EXCEPT ![d] = k]
            /\ undo' = [undo EXCEPT ![k] =
                          [i \in DOMAIN @ |-> [@[i] EXCEPT !.image = image[d]]]]
       ELSE UNCHANGED <<writer, undo>>

\* k's transaction ends: its write lock is free.
Unlocked(k) == [writer EXCEPT ![Db(k)] = IF @ = k THEN NoConn ELSE @]

\* The image with k's changes since frame i undone.
Undone(k, i) ==
    IF writer[Db(k)] = k THEN [image EXCEPT ![Db(k)] = undo[k][i].image] ELSE image

\* The innermost frame named s, as RELEASE and ROLLBACK TO look it up.
IsInnermost(k, s, i) ==
    /\ i \in DOMAIN undo[k] /\ undo[k][i].name = s
    /\ \A j \in DOMAIN undo[k] : j > i => undo[k][j].name # s

Committed(d) == IF writer[d] = NoConn THEN image[d] ELSE undo[writer[d]][1].image

-----------------------------------------------------------------------------
(* handleNetConn: the session gets a driver connection and gives it back.  *)

\* With database.shared false resetBackendFull rebuilds the private database
\* first, and its BEGIN IMMEDIATE fails on a connection that is still in a
\* transaction: that client is turned away, which leaves no trace here.
Connect(c, k) ==
    /\ LeaseModel!Grant(c, k)
    /\ inTrans' = [inTrans EXCEPT ![c] = FALSE]
    /\ marked' = [marked EXCEPT ![c] = FALSE]
    /\ IF Shared
       THEN UNCHANGED <<image, handed, durable>>
       ELSE /\ ~Open(k)
            /\ image' = [image EXCEPT ![k] = Seeded]
            /\ handed' = [handed EXCEPT ![k] = {}]
            /\ durable' = [durable EXCEPT ![k] = {}]
    /\ UNCHANGED <<writer, undo, alloc, pc, newId, raced>>

\* serve returns between two commands and the deferred sqliteConn.Close puts
\* the driver connection back into the pool, in whatever state it is.
Disconnect(c, k) ==
    /\ Idle(c)
    /\ LeaseModel!GiveBack(c, k)
    /\ Open(k) => "abandon" \in Habits
    /\ UNCHANGED <<serverVars, sessionVars, history>>

-----------------------------------------------------------------------------
(* executeQuery, one action for each case that reaches a transaction.      *)

\* Mutant of Begin: serverStatusInTrans is not set.
BeginUnflagged(c, k) ==
    /\ Uses(c, k) /\ Idle(c)
    /\ undo' = IF Open(k) THEN undo
               ELSE [undo EXCEPT ![k] = <<Frame(k, Begun)>>]
    /\ UNCHANGED <<lease, image, writer, alloc, inTrans, marked, pc, newId, history>>

\* BEGIN: execSQLite sets the flag before SQLite refuses a second BEGIN.
Begin(c, k) ==
    /\ Uses(c, k) /\ Idle(c)
    /\ inTrans' = [inTrans EXCEPT ![c] = TRUE]
    /\ undo' = IF Open(k) THEN undo
               ELSE [undo EXCEPT ![k] = <<Frame(k, Begun)>>]
    /\ UNCHANGED <<lease, image, writer, alloc, marked, pc, newId, history>>

\* SAVEPOINT: outside a transaction SQLite opens one, and no flag is set.
SetSavepoint(c, k, s) ==
    /\ Uses(c, k) /\ Idle(c)
    /\ Len(undo[k]) < MaxFrames
    /\ Open(k) \/ "bareSavepoint" \in Habits
    /\ undo' = [undo EXCEPT ![k] = Append(@, Frame(k, s))]
    /\ UNCHANGED <<lease, image, writer, alloc, sessionVars, history>>

\* RELEASE SAVEPOINT: releasing the outermost frame commits.
ReleaseSavepoint(c, k, s) ==
    /\ Uses(c, k) /\ Idle(c)
    /\ \E i \in DOMAIN undo[k] :
          /\ IsInnermost(k, s, i)
          /\ undo' = [undo EXCEPT ![k] = SubSeq(@, 1, i - 1)]
          /\ writer' = IF i = 1 THEN Unlocked(k) ELSE writer
    /\ UNCHANGED <<lease, image, alloc, sessionVars, history>>

\* Mutant of Commit: serverStatusInTrans is not cleared.
CommitInTrans(c, k) ==
    /\ Uses(c, k) /\ Idle(c) /\ Open(k)
    /\ undo' = [undo EXCEPT ![k] = <<>>]
    /\ writer' = Unlocked(k)
    /\ marked' = [marked EXCEPT ![c] = FALSE]
    /\ UNCHANGED <<lease, image, alloc, inTrans, pc, newId, history>>

\* COMMIT: on SQLite's error, no transaction being open, nothing changes.
Commit(c, k) ==
    /\ Uses(c, k) /\ Idle(c) /\ Open(k)
    /\ undo' = [undo EXCEPT ![k] = <<>>]
    /\ writer' = Unlocked(k)
    /\ marked' = [marked EXCEPT ![c] = FALSE]
    /\ inTrans' = [inTrans EXCEPT ![c] = FALSE]
    /\ UNCHANGED <<lease, image, alloc, pc, newId, history>>

\* ROLLBACK and ROLLBACK AND CHAIN: SQLite rolls back, sqlite_sequence with it.
Rollback(c, k, then) ==
    /\ Uses(c, k) /\ Idle(c) /\ Open(k)
    /\ image' = Undone(k, 1)
    /\ undo' = [undo EXCEPT ![k] = <<>>]
    /\ writer' = Unlocked(k)
    /\ pc' = [pc EXCEPT ![c] = then]
    /\ UNCHANGED <<lease, alloc, inTrans, marked, newId, history>>

\* ROLLBACK TO SAVEPOINT: the frame and the write lock stay.
RollbackTo(c, k, s) ==
    /\ Uses(c, k) /\ Idle(c)
    /\ \E i \in DOMAIN undo[k] :
          /\ IsInnermost(k, s, i)
          /\ image' = Undone(k, i)
          /\ undo' = [undo EXCEPT ![k] = SubSeq(@, 1, i)]
    /\ pc' = [pc EXCEPT ![c] = "rolledBackTo"]
    /\ UNCHANGED <<lease, writer, alloc, inTrans, marked, newId, history>>

\* restoreMySQLAutoIncrementSequences has a sequence to raise.
MustRestore(c) == marked[c] /\ alloc > 0

\* Mutants of RestoreWrite: one past the allocated value; nothing restored.
RestoreNext(c, k) ==
    IF MustRestore(c)
    THEN Write(k, [image[Db(k)] EXCEPT !.seq = IF @ <= alloc THEN alloc + 1 ELSE @])
    ELSE UNCHANGED <<image, writer, undo>>

RestoreNothing(c, k) == UNCHANGED <<image, writer, undo>>

\* setSQLiteSequenceAtLeast: the UPDATE or INSERT of the sqlite_sequence row.
RestoreWrite(c, k) ==
    IF MustRestore(c)
    THEN Write(k, [image[Db(k)] EXCEPT !.seq = IF @ < alloc THEN alloc ELSE @])
    ELSE UNCHANGED <<image, writer, undo>>

\* The rest of ROLLBACK: the flag goes down, and the marks if the restore
\* could write.
FinishRollback(c, k) ==
    /\ Uses(c, k) /\ pc[c] = "rolledBack"
    /\ pc' = [pc EXCEPT ![c] = "idle"]
    /\ inTrans' = [inTrans EXCEPT ![c] = FALSE]
    /\ \/ /\ MustRestore(c) => CanWrite(k)
          /\ RestoreWrite(c, k)
          /\ marked' = [marked EXCEPT ![c] = FALSE]
       \/ /\ MustRestore(c) /\ ~CanWrite(k)
          /\ UNCHANGED <<image, writer, undo, marked>>
    /\ UNCHANGED <<lease, alloc, newId, history>>

\* The rest of ROLLBACK AND CHAIN: after a restore that failed no transaction
\* follows.
FinishChain(c, k) ==
    /\ Uses(c, k) /\ pc[c] = "chaining"
    /\ pc' = [pc EXCEPT ![c] = "idle"]
    /\ \/ /\ MustRestore(c) => CanWrite(k)
          /\ image' = IF MustRestore(c) /\ image[Db(k)].seq < alloc
                      THEN [image EXCEPT ![Db(k)].seq = alloc] ELSE image
          /\ marked' = [marked EXCEPT ![c] = FALSE]
          /\ inTrans' = [inTrans EXCEPT ![c] = TRUE]
          /\ undo' = [undo EXCEPT ![k] = <<Frame(k, Begun)>>]
       \/ /\ MustRestore(c) /\ ~CanWrite(k)
          /\ inTrans' = [inTrans EXCEPT ![c] = FALSE]
          /\ UNCHANGED <<image, undo, marked>>
    /\ UNCHANGED <<lease, writer, alloc, newId, history>>

\* The rest of ROLLBACK TO SAVEPOINT: inside the transaction that goes on,
\* whose marks stay for the rollback that may still come.
FinishRollbackTo(c, k) ==
    /\ Uses(c, k) /\ pc[c] = "rolledBackTo"
    /\ pc' = [pc EXCEPT ![c] = "idle"]
    /\ IF CanWrite(k) THEN RestoreWrite(c, k) ELSE UNCHANGED <<image, writer, undo>>
    /\ UNCHANGED <<lease, alloc, inTrans, marked, newId, history>>

\* execSQLite of an INSERT without a key: SQLite takes the next value.
InsertExec(c, k) ==
    /\ Uses(c, k) /\ Idle(c) /\ CanWrite(k)
    /\ LET d == Db(k)
           v == image[d].seq + 1
       IN  /\ v \in Ids
           /\ Write(k, [rows |-> image[d].rows \cup {v}, seq |-> v])
           /\ newId' = [newId EXCEPT ![c] = v]
           /\ raced' = (raced \/ \E b \in Clients \ {c} :
                                   pc[b] \in {"rolledBack", "chaining"} /\ MustRestore(b))
    /\ pc' = [pc EXCEPT ![c] = "inserted"]
    /\ UNCHANGED <<lease, alloc, inTrans, marked, handed, durable>>

\* recordMySQLAutoIncrementAllocation, then the OK packet: only a value above
\* the server's maximum counts, and only inside a transaction is it marked.
RecordAllocation(c, k) ==
    /\ Uses(c, k) /\ pc[c] = "inserted"
    /\ pc' = [pc EXCEPT ![c] = "idle"]
    /\ IF newId[c] > alloc
       THEN /\ alloc' = newId[c]
            /\ marked' = [marked EXCEPT ![c] = @ \/ inTrans[c]]
       ELSE UNCHANGED <<alloc, marked>>
    /\ handed' = [handed EXCEPT ![Db(k)] = @ \cup {newId[c]}]
    /\ durable' = [durable EXCEPT ![Db(k)] =
                     IF inTrans[c] THEN @ ELSE @ \cup {newId[c]}]
    /\ newId' = [newId EXCEPT ![c] = 0]
    /\ UNCHANGED <<lease, image, writer, undo, inTrans, raced>>

-----------------------------------------------------------------------------
Next ==
    \E c \in Clients, k \in DriverConns :
        \/ Connect(c, k) \/ Disconnect(c, k)
        \/ Begin(c, k) \/ Commit(c, k)
        \/ Rollback(c, k, "rolledBack") \/ Rollback(c, k, "chaining")
        \/ \E s \in Savepoints :
              SetSavepoint(c, k, s) \/ ReleaseSavepoint(c, k, s) \/ RollbackTo(c, k, s)
        \/ FinishRollback(c, k) \/ FinishChain(c, k) \/ FinishRollbackTo(c, k)
        \/ InsertExec(c, k) \/ RecordAllocation(c, k)

Spec == Init /\ [][Next]_vars

-----------------------------------------------------------------------------
(* Properties.                                                             *)

\* The client is told the truth: between commands SERVER_STATUS_IN_TRANS is
\* set exactly when its SQLite connection is in a transaction, whatever BEGIN,
\* COMMIT, ROLLBACK and savepoint commands succeeded or failed before.
FlagTracksTransaction ==
    \A c \in Clients, k \in DriverConns :
        Uses(c, k) /\ Idle(c) => (inTrans[c] <=> Open(k))

\* A row acknowledged to a client that was not in a transaction is committed
\* and stays: no rollback of any session takes it back.
AckedOutsideIsDurable ==
    \A d \in Dbs : durable[d] \subseteq Committed(d).rows

\* The new rows of a step, which are never a rollback's doing.
Inserted(d) == image'[d].rows \ image[d].rows

\* An AUTO_INCREMENT value a client was given is never given out again by the
\* same database, rollbacks and savepoint rollbacks included, while no INSERT
\* falls in between another session's ROLLBACK and the restore of
\* sqlite_sequence that follows it: that race, and no other interleaving,
\* rollback or savepoint, brings a value back.
NoReuseUnlessRaced ==
    [][raced' \/ \A d \in Dbs : handed[d] \cap Inserted(d) = {}]_vars
=============================================================================
