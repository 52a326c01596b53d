------------------------------- MODULE Upsert -------------------------------
(***************************************************************************)
(* INSERT, INSERT IGNORE, REPLACE and INSERT ... ON DUPLICATE KEY UPDATE   *)
(* as upsert.go carries them out: row by row, several SQLite statements    *)
(* for each row, no transaction of their own, so that another session or a *)
(* failing row meets them half done.                                       *)
(*                                                                         *)
(* The table is one whose AUTO_INCREMENT column belongs to a composite     *)
(* primary key, the case in which mysqlmock chooses the values itself      *)
(* (auto_increment_compat.go): PRIMARY KEY (id, code), UNIQUE (ref), code  *)
(* NOT NULL.  A step is one SQLite statement or one access to the server's *)
(* allocation map.                                                         *)
(***************************************************************************)
EXTENDS Naturals, Sequences, FiniteSets, Functions

CONSTANTS
    Sessions,
    NoSession,
    Codes, Refs,       \* values of the columns code and ref
    Null,
    Default,           \* the bare word DEFAULT in place of a value
    Implicit,          \* the implicit default of code (Compat.ImplicitDefaults)
    ImplicitDefaults,  \* Compat.ImplicitDefaults
    ExplicitIds,       \* ids that statements name
    SeedRows,          \* the table's rows at the start
    MaxId,             \* stands for MaxInt64, the last AUTO_INCREMENT value
    MaxRows            \* bound of the model: rows in all statements together

Columns == {"id", "code", "ref"}

\* uniqueKeys: PRIMARY first, then the unique indexes.
Keys == <<{"id", "code"}, {"ref"}>>

Ids == 1..MaxId
Values == [id : Ids \cup {0}, code : Codes \cup {Implicit, Null}, ref : Refs \cup {Null}]
StoredRows == [rowid : Nat, id : Ids, code : Codes \cup {Implicit}, ref : Refs \cup {Null}]

ASSUME UpsertAssumption ==
    /\ NoSession \notin Sessions
    /\ Null \notin Ids \cup Codes \cup Refs \cup {Implicit}
    /\ Default \notin Codes \cup Refs \cup {Implicit, Null}
    /\ ImplicitDefaults \in BOOLEAN
    /\ MaxId \in Nat /\ MaxRows \in Nat
    /\ ExplicitIds \subseteq Ids
    /\ SeedRows \subseteq StoredRows /\ IsFiniteSet(SeedRows)

Kinds == {"insert", "ignore", "replace", "upsert"}

\* What ON DUPLICATE KEY UPDATE assigns: nothing new (id = id), or one column
\* from VALUES(column).
Assignments == {"none", "code", "ref"}

VARIABLES
    rows,       \* the table as its writer sees it
    saved,      \* the table as committed, while a transaction has changed it
    writer,     \* the session whose transaction has SQLite's write lock
    inTrans,    \* each session: it is in a transaction
    alloc,      \* s.autoIncrement of the table
    job,        \* each session: the statement in progress, a record
    asked,      \* number of rows asked for so far
    begun,      \* history: the table and the count at the start of the row, or
                \* Disturbed when another session has changed something since
    handed      \* history: the values generated for rows that went in

dbVars == <<rows, saved, writer, inTrans>>
history == <<begun, handed>>
vars == <<dbVars, alloc, job, asked, history>>

Places == {"idle", "next", "readMax", "readAllocation", "find", "insert", "record",
           "fetchBefore", "update", "fetchAfter", "readId", "delete", "failed"}

NoValues == [id |-> 0, code |-> Null, ref |-> Null]

\* The statement of a session: pc, kind and assignment; the rows left; the
\* values of the row at work and whether its id was generated; MAX(id) as
\* read; the next key to look at and the rowids found; the row inserted or
\* to be updated, by rowid and as it was; affected rows and last insert id.
Jobs ==
    [pc : Places, kind : Kinds, assign : Assignments, left : 0..MaxRows,
     values : Values, generated : BOOLEAN, base : 0..MaxId,
     key : 1..Len(Keys), found : Seq(Nat), rowid : Nat, before : StoredRows \cup {Null},
     affected : Nat, lastId : Nat]

\* Values of begun outside a statement, and after a disturbance.
Nothing == [table |-> {}, affected |-> 0]
Disturbed == [table |-> {}, affected |-> 0, disturbed |-> TRUE]

NoJob ==
    [pc |-> "idle", kind |-> "insert", assign |-> "none", left |-> 0,
     values |-> NoValues, generated |-> FALSE, base |-> 0, key |-> 1,
     found |-> <<>>, rowid |-> 0, before |-> Null, affected |-> 0, lastId |-> 0]

TypeOK ==
    /\ rows \subseteq StoredRows
    /\ saved \subseteq StoredRows
    /\ writer \in Sessions \cup {NoSession}
    /\ inTrans \in [Sessions -> BOOLEAN]
    /\ alloc \in 0..MaxId
    /\ job \in [Sessions -> Jobs]
    /\ asked \in 0..MaxRows
    /\ \A s \in Sessions :
          begun[s] = Disturbed \/ (begun[s].table \subseteq StoredRows /\ begun[s].affected \in Nat)
    /\ handed \subseteq Ids

Init ==
    /\ rows = SeedRows /\ saved = {}
    /\ writer = NoSession
    /\ inTrans = [s \in Sessions |-> FALSE]
    /\ alloc = 0
    /\ job = [s \in Sessions |-> NoJob]
    /\ asked = 0
    /\ begun = [s \in Sessions |-> Nothing]
    /\ handed = {}

-----------------------------------------------------------------------------
(* SQLite.                                                                 *)

Highest(S) == CHOOSE n \in S \cup {0} : \A m \in S : m <= n

\* Values v and row r agree on a whole unique key; NULL agrees with nothing.
Collide(k, r, v) == \A c \in Keys[k] : v[c] # Null /\ r[c] = v[c]
Clash(r, v) == \E k \in DOMAIN Keys : Collide(k, r, v)
Clashes(T, v) == {r \in T : Clash(r, v)}

\* A table meets its unique keys, and no two rows have one rowid.
Keyed(T) == \A q, r \in T : q # r => q.rowid # r.rowid /\ ~Clash(q, r)

ASSUME SeedAssumption == Keyed(SeedRows)

\* SQLite gives a new row the rowid after the highest in use.
Stored(T, v) ==
    [rowid |-> Highest({r.rowid : r \in T}) + 1, id |-> v.id, code |-> v.code, ref |-> v.ref]

\* What session s reads: its own changes or what is committed.
View(s) == IF writer \in {NoSession, s} THEN rows ELSE saved

\* SQLite may refuse any statement while another session is in a transaction
\* (a table or database lock), and refuses a write while another has written.
MayBeRefused(s) == \E t \in Sessions \ {s} : inTrans[t]
CanWrite(s) == writer \in {NoSession, s}

\* Others who are in the middle of a statement find the database changed.
Disturbs(s) ==
    begun' = [t \in Sessions |-> IF t # s /\ job[t].pc # "idle" THEN Disturbed ELSE begun[t]]

\* Session s writes table T: alone, or as part of its transaction.
Write(s, T) ==
    /\ rows' = T
    /\ IF inTrans[s] /\ writer = NoSession
       THEN writer' = s /\ saved' = rows
       ELSE UNCHANGED <<writer, saved>>
    /\ IF T = rows THEN UNCHANGED begun ELSE Disturbs(s)

Begin(s) ==
    /\ job[s].pc = "idle" /\ ~inTrans[s]
    /\ inTrans' = [inTrans EXCEPT ![s] = TRUE]
    /\ UNCHANGED <<rows, saved, writer, alloc, job, asked, history>>

\* COMMIT and ROLLBACK end the transaction; the allocation map stays as it is.
End(s, T) ==
    /\ job[s].pc = "idle" /\ inTrans[s]
    /\ inTrans' = [inTrans EXCEPT ![s] = FALSE]
    /\ IF writer = s
       THEN /\ rows' = T /\ saved' = {}
            /\ writer' = NoSession
            /\ Disturbs(s)
       ELSE UNCHANGED <<rows, saved, writer, begun>>
    /\ UNCHANGED <<alloc, job, asked, handed>>

Commit(s) == End(s, rows)
Rollback(s) == End(s, saved)

-----------------------------------------------------------------------------
(* One statement: execMySQLUpsert, execMySQLPlainInsert,                   *)
(* execMySQLInsertIgnore and execMySQLReplace.                             *)

At(s, place) == job[s].pc = place
Goes(s, place) == job' = [job EXCEPT ![s].pc = place]

\* The row of job j is done with: what it needed on its way is forgotten.
RowDone(j, place) ==
    [j EXCEPT !.pc = place, !.generated = FALSE, !.base = 0, !.key = 1,
              !.found = <<>>, !.rowid = 0, !.before = Null]

\* A statement ends with the error of one of its rows.
Fails(s) == job' = [job EXCEPT ![s] = RowDone(@, "failed")]

\* SQLite refuses the statement the row has come to.
Refused(s) == MayBeRefused(s) /\ Fails(s) /\ UNCHANGED <<dbVars, begun>>

\* After the id is known: REPLACE looks for the rows in its way first.
AfterValue(kind) == IF kind = "replace" THEN "find" ELSE "insert"

\* executeQuery finds an INSERT or REPLACE that needs the row-by-row way.
Ask(s) ==
    /\ At(s, "idle")
    /\ \E kind \in Kinds, n \in 1..(MaxRows - asked), a \in Assignments :
          /\ kind # "upsert" => a = "none"
          /\ job' = [job EXCEPT ![s] = [NoJob EXCEPT !.pc = "next", !.kind = kind,
                                                     !.assign = a, !.left = n]]
          /\ asked' = asked + n
    /\ UNCHANGED <<dbVars, alloc, history>>

\* DEFAULT of a NOT NULL column that has none is its implicit default with the
\* option on, and else an error.  A NULL stays one: applyImplicitDefaultInsertValues
\* leaves the columns of the primary key alone.
NoDefault(code) == code = Default /\ ~ImplicitDefaults
Defaulted(code) == IF code = Default THEN Implicit ELSE code

\* shouldGenerateAutoIncrementValue: id 0 stands for 0, NULL, DEFAULT and an
\* id left out.
AsksForValue(id) == id = 0

\* evaluateUpsertRow and applyImplicitDefaultInsertValues, then the test of
\* applyMySQLAutoIncrementInsertValue.
NextRow(s) ==
    /\ At(s, "next") /\ job[s].left > 0
    /\ \E id \in ExplicitIds \cup {0}, code \in Codes \cup {Null, Default},
          ref \in Refs \cup {Null} :
          job' = [job EXCEPT ![s] =
                    [NoJob EXCEPT
                       !.pc = IF NoDefault(code) THEN "failed"
                              ELSE IF AsksForValue(id) THEN "readMax"
                              ELSE AfterValue(job[s].kind),
                       !.values = IF NoDefault(code) THEN NoValues
                                  ELSE [id |-> id, code |-> Defaulted(code), ref |-> ref],
                       !.kind = job[s].kind, !.assign = job[s].assign,
                       !.left = job[s].left - 1,
                       !.affected = job[s].affected, !.lastId = job[s].lastId]]
    /\ begun' = [begun EXCEPT ![s] = [table |-> View(s), affected |-> job[s].affected]]
    /\ UNCHANGED <<dbVars, alloc, asked, handed>>

\* nextMySQLAutoIncrementValue: SELECT MAX(id) ...
ReadMax(s) ==
    /\ At(s, "readMax")
    /\ \/ Refused(s)
       \/ /\ job' = [job EXCEPT ![s].pc = "readAllocation",
                                ![s].base = Highest({r.id : r \in View(s)})]
          /\ UNCHANGED <<dbVars, begun>>
    /\ UNCHANGED <<alloc, asked, handed>>

\* Mutant of NextId: the table's maximum alone.
NextIdOfTable(base) == base + 1

\* The value after the table's and the server's highest.
NextId(base) == (IF alloc > base THEN alloc ELSE base) + 1

\* Mutant of ReadAllocation: the values go on past the last one.
ReadAllocationUnlimited(s) ==
    /\ At(s, "readAllocation")
    /\ job' = [job EXCEPT ![s].pc = AfterValue(job[s].kind), ![s].generated = TRUE,
                          ![s].values.id = NextId(job[s].base)]
    /\ UNCHANGED <<dbVars, alloc, asked, history>>

\* ... and the allocation map, with the end of the values at MaxId.
ReadAllocation(s) ==
    /\ At(s, "readAllocation")
    /\ LET id == NextId(job[s].base) IN
       IF id > MaxId THEN Fails(s)
       ELSE job' = [job EXCEPT ![s].pc = AfterValue(job[s].kind),
                               ![s].generated = TRUE, ![s].values.id = id]
    /\ UNCHANGED <<dbVars, alloc, asked, history>>

\* What a unique key violation means for each kind of statement.
AfterConflict(s) ==
    CASE job[s].kind = "ignore" -> job' = [job EXCEPT ![s] = RowDone(@, "next")]
      [] job[s].kind = "upsert" -> Goes(s, "find")
      [] OTHER                  -> Fails(s)

\* The INSERT itself.  SQLite looks at NOT NULL before the unique keys.
Insert(s) ==
    /\ At(s, "insert")
    /\ LET v == job[s].values IN
       \/ Refused(s)
       \/ /\ CanWrite(s)
          /\ v.code = Null \/ Clashes(rows, v) # {}
          /\ IF v.code = Null THEN Fails(s) ELSE AfterConflict(s)
          /\ UNCHANGED <<dbVars, begun>>
       \/ /\ CanWrite(s)
          /\ v.code # Null /\ Clashes(rows, v) = {}
          /\ Write(s, rows \cup {Stored(rows, v)})
          /\ job' = [job EXCEPT ![s].pc = "record", ![s].affected = @ + 1,
                                ![s].rowid = Stored(rows, v).rowid]
          /\ UNCHANGED inTrans
    /\ UNCHANGED <<alloc, asked, handed>>

\* Mutant of Recorded: explicit values are not recorded.
RecordedGenerated(s) ==
    IF job[s].generated /\ job[s].values.id > alloc THEN job[s].values.id ELSE alloc

\* recordMySQLAutoIncrementAllocation keeps the highest value, explicit or not.
Recorded(s) == IF job[s].values.id > alloc THEN job[s].values.id ELSE alloc

\* The first last insert id of the statement stays.
FirstId(s, id) == IF job[s].lastId # 0 THEN job[s].lastId ELSE id

\* After the INSERT: the allocation map and the last insert id, which for an
\* explicit id is SQLite's last rowid.
Record(s) ==
    /\ At(s, "record")
    /\ alloc' = Recorded(s)
    /\ job' = [job EXCEPT ![s] =
                 [RowDone(@, "next") EXCEPT !.lastId = FirstId(s, IF job[s].generated THEN job[s].values.id
                                          ELSE job[s].rowid)]]
    /\ handed' = IF job[s].generated THEN handed \cup {job[s].values.id} ELSE handed
    /\ IF alloc' = alloc THEN UNCHANGED begun ELSE Disturbs(s)
    /\ UNCHANGED <<dbVars, asked>>

-----------------------------------------------------------------------------
(* A row that conflicts.                                                   *)

\* Where a row goes once all keys were looked at.
AfterFind(kind, found) ==
    CASE kind = "replace" /\ found = <<>> -> "insert"
      [] kind = "replace" /\ found # <<>> -> "delete"
      [] kind # "replace" /\ found = <<>> -> "failed"
      [] OTHER                            -> "fetchBefore"

\* Mutant of Matching: NULL is looked for like any value.
MatchingNull(s, k) ==
    {r.rowid : r \in {q \in View(s) : \A c \in Keys[k] : q[c] = job[s].values[c]}}

\* The rows that agree with the values on key k, which is skipped when the
\* values have NULL in it.
Matching(s, k) ==
    {r.rowid : r \in {q \in View(s) : Collide(k, q, job[s].values)}}

\* findConflictRowIDs: one SELECT per key, rowids in the order of the keys.
Find(s) ==
    /\ At(s, "find")
    /\ \/ Refused(s)
       \/ /\ LET k == job[s].key
                 all == IF Matching(s, k) \subseteq Range(job[s].found) THEN job[s].found
                        ELSE Append(job[s].found, CHOOSE id \in Matching(s, k) : TRUE)
             IN  job' = [job EXCEPT
                           ![s].found = all,
                           ![s].key = IF k < Len(Keys) THEN k + 1 ELSE 1,
                           ![s].pc = IF k < Len(Keys) THEN "find"
                                     ELSE AfterFind(job[s].kind, all)]
          /\ UNCHANGED <<dbVars, begun>>
    /\ UNCHANGED <<alloc, asked, handed>>

\* The row of a rowid, which may be gone by now, or another one.
Fetched(s, id) == {r \in View(s) : r.rowid = id}

\* Mutant of Target: the row of the last key, not of the first.
TargetLast(s) == job[s].found[Len(job[s].found)]

\* findConflictRowID: the first row found is the one updated.
Target(s) == Head(job[s].found)

\* fetchRowByRowID before the update.
FetchBefore(s) ==
    /\ At(s, "fetchBefore")
    /\ \/ Refused(s)
       \/ /\ \/ Fetched(s, Target(s)) = {} /\ Fails(s)
             \/ \E r \in Fetched(s, Target(s)) :
                   job' = [job EXCEPT ![s].pc = "update", ![s].before = r,
                                      ![s].rowid = r.rowid]
          /\ UNCHANGED <<dbVars, begun>>
    /\ UNCHANGED <<alloc, asked, handed>>

\* Row r after the assignments, with VALUES(c) from v (rewriteUpsertReference).
Assigned(a, r, v) == IF a = "none" THEN r ELSE [r EXCEPT ![a] = v[a]]

\* buildSQLiteUpsertUpdate: UPDATE ... WHERE rowid = ?.  No row, no error; a
\* row that would then clash with another is an error.
Update(s) ==
    /\ At(s, "update")
    /\ \/ Refused(s)
       \/ /\ CanWrite(s)
          /\ LET old == {r \in rows : r.rowid = job[s].rowid}
                 new == {Assigned(job[s].assign, r, job[s].values) : r \in old}
                 others == rows \ old
             IN  IF \E r \in new : Clashes(others, r) # {}
                 THEN Fails(s) /\ UNCHANGED <<rows, saved, writer, begun>>
                 ELSE Write(s, others \cup new) /\ Goes(s, "fetchAfter")
          /\ UNCHANGED inTrans
    /\ UNCHANGED <<alloc, asked, handed>>

\* Mutant of Changed: an update always counts.
ChangedAlways(s, r) == 2

\* MySQL counts 2 for a row that changed and 0 for one that did not.
Changed(s, r) == IF r # job[s].before THEN 2 ELSE 0

\* fetchRowByRowID after the update.
FetchAfter(s) ==
    /\ At(s, "fetchAfter")
    /\ \/ Refused(s)
       \/ /\ \/ Fetched(s, job[s].rowid) = {} /\ Fails(s)
             \/ \E r \in Fetched(s, job[s].rowid) :
                   job' = [job EXCEPT ![s].pc = "readId",
                                      ![s].affected = @ + Changed(s, r)]
          /\ UNCHANGED <<dbVars, begun>>
    /\ UNCHANGED <<alloc, asked, handed>>

\* autoIncrementValue, whose errors are no errors of the statement.
ReadId(s) ==
    /\ At(s, "readId")
    /\ \/ /\ MayBeRefused(s) \/ Fetched(s, job[s].rowid) = {}
          /\ job' = [job EXCEPT ![s] = RowDone(@, "next")]
       \/ \E r \in Fetched(s, job[s].rowid) :
             job' = [job EXCEPT ![s] = [RowDone(@, "next") EXCEPT !.lastId = FirstId(s, r.id)]]
    /\ UNCHANGED <<dbVars, alloc, asked, history>>

\* REPLACE deletes the rows in its way one by one, and counts each DELETE.
Delete(s) ==
    /\ At(s, "delete")
    /\ \/ Refused(s)
       \/ /\ CanWrite(s)
          /\ Write(s, {r \in rows : r.rowid # Target(s)})
          /\ job' = [job EXCEPT ![s].affected = @ + 1, ![s].found = Tail(@),
                                ![s].pc = IF Len(job[s].found) = 1 THEN "insert" ELSE "delete"]
          /\ UNCHANGED inTrans
    /\ UNCHANGED <<alloc, asked, handed>>

\* The OK packet, or the error of the row that failed.
Answer(s) ==
    /\ At(s, "failed") \/ (At(s, "next") /\ job[s].left = 0)
    /\ job' = [job EXCEPT ![s] = NoJob]
    /\ begun' = [begun EXCEPT ![s] = Nothing]
    /\ UNCHANGED <<dbVars, alloc, asked, handed>>

-----------------------------------------------------------------------------
RowStep(s) ==
    \/ NextRow(s) \/ ReadMax(s) \/ ReadAllocation(s) \/ Insert(s) \/ Record(s)
    \/ Find(s) \/ FetchBefore(s) \/ Update(s) \/ FetchAfter(s) \/ ReadId(s)
    \/ Delete(s)

Next ==
    \E s \in Sessions :
        \/ Begin(s) \/ Commit(s) \/ Rollback(s)
        \/ Ask(s) \/ RowStep(s) \/ Answer(s)

Spec == Init /\ [][Next]_vars

-----------------------------------------------------------------------------
(* Properties.                                                             *)

\* A table without SQLite's rowids, as clients know it.
Contents(T) == {[id |-> r.id, code |-> r.code, ref |-> r.ref] : r \in T}

\* What MySQL does with one row, in one step: the row goes in, is passed over,
\* takes the place of all rows in its way, or updates the first of them; each
\* with its count.
MySQLRow(j, T) ==
    LET v == j.values
        inWay == {r \in Contents(T) : Clash(r, v)}
        first == CHOOSE r \in inWay :
                    \E k \in DOMAIN Keys :
                       /\ Collide(k, r, v)
                       /\ \A i \in 1..k - 1, q \in inWay : ~Collide(i, q, v)
        updated == Assigned(j.assign, first, v)
    IN  CASE j.kind = "replace" -> [table |-> (Contents(T) \ inWay) \cup {v},
                                    count |-> 1 + Cardinality(inWay)]
          [] j.kind # "replace" /\ inWay = {} -> [table |-> Contents(T) \cup {v}, count |-> 1]
          [] j.kind = "upsert" /\ inWay # {} ->
                 [table |-> (Contents(T) \ {first}) \cup {updated},
                  count |-> IF updated = first THEN 0 ELSE 2]
          [] OTHER -> [table |-> Contents(T), count |-> 0]

\* Nobody else has changed anything since s began its row.
Undisturbed(s) == begun[s] # Disturbed

\* A row is at its end, and nobody else has changed anything since it began.
RowEnded(s, place) == At(s, place) /\ job[s].values # NoValues /\ Undisturbed(s)

\* A row that fails leaves the table as it found it, with two exceptions: a
\* REPLACE may have taken away rows already, and then only rows in its way, and
\* a row whose UPDATE is done may be refused the SELECT that follows.
KeptByFailure(s) ==
    LET old == Contents(begun[s].table)
        new == Contents(View(s))
    IN  \/ new = old
        \/ job[s].kind = "upsert" /\ new = MySQLRow(job[s], begun[s].table).table
        \/ /\ job[s].kind = "replace" /\ new \subseteq old
           /\ \A r \in old \ new : Clash(r, job[s].values)

\* Row by row, left alone, is what MySQL does: the same table and the same
\* count of affected rows, for every kind of statement and whichever unique
\* keys stand in the way; and a row that fails has changed nothing.
RowAsInMySQL ==
    \A s \in Sessions :
        /\ RowEnded(s, "next") =>
               LET row == MySQLRow(job[s], begun[s].table) IN
               /\ Contents(View(s)) = row.table
               /\ job[s].affected = begun[s].affected + row.count
        /\ RowEnded(s, "failed") => KeptByFailure(s)

\* A generated value is not one that was generated before, for a row that is
\* still there, was rolled back or was replaced since; unless another session
\* changed the table or the allocations while this row was at work.
FreshUnlessRaced ==
    \A s \in Sessions :
        At(s, "record") /\ job[s].generated /\ Undisturbed(s) =>
            job[s].values.id \notin handed

\* The allocation map is above every id that a statement put into the table,
\* committed or not, whatever the sessions do to each other; only an INSERT
\* whose bookkeeping is still to come is ahead of it.
AllocationCoversTable ==
    \A r \in rows \cup saved :
        \/ r.id <= alloc
        \/ \E q \in SeedRows : q.id = r.id
        \/ \E s \in Sessions : At(s, "record") /\ job[s].values.id = r.id
=============================================================================
