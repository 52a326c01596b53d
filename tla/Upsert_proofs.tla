---------------------------- MODULE Upsert_proofs ----------------------------
(***************************************************************************)
(* What the server knows of AUTO_INCREMENT and what rows come to, for any  *)
(* number of sessions, rows and values: proofs of the invariants of Upsert.*)
(*                                                                         *)
(* Rows get their ids by INSERT only, and the session that made it is the  *)
(* one that records the id, so an id not yet recorded has a session about  *)
(* to record it.  A value generated is above every one recorded until the  *)
(* allocation map moves, which only another session can make it do before  *)
(* the row is in.                                                          *)
(*                                                                         *)
(* A row does what MySQL does because each place on its way says what the  *)
(* session reads compared with the table the row began with, and whoever   *)
(* changes what it reads disturbs it.                                      *)
(***************************************************************************)
EXTENDS Upsert, TLAPS, FiniteSetTheorems, SequenceTheorems, WellFoundedInduction

-----------------------------------------------------------------------------
(* The highest of finitely many numbers, and other sets of rows.           *)

\* By induction over the finite sets: take one number away and compare it with
\* the highest of the rest.
LEMMA FiniteHasHighest ==
    ASSUME NEW S \in SUBSET Nat, IsFiniteSet(S), S # {}
    PROVE  \E n \in S : \A m \in S : m <= n
<1>. DEFINE Without == {X \in FiniteSubsetsOf(Nat) : X # {} /\ ~\E n \in X : \A m \in X : m <= n}
<1>1. ASSUME Without # {} PROVE FALSE
  <2>1. PICK X \in Without :
          \A Y \in Without : ~ (<<Y, X>> \in StrictSubsetOrdering(Nat))
    <3>1. IsWellFoundedOn(StrictSubsetOrdering(Nat), FiniteSubsetsOf(Nat))
      BY FS_StrictSubsetOrderingWellFounded
    <3>2. Without \subseteq FiniteSubsetsOf(Nat)
      OBVIOUS
    <3>. HIDE DEF Without
    <3>. QED
      BY <1>1, <3>1, <3>2, WFMin
  <2>2. X \in SUBSET Nat /\ IsFiniteSet(X) /\ X # {}
        /\ ~\E n \in X : \A m \in X : m <= n
    BY <2>1 DEF FiniteSubsetsOf
  <2>3. PICK x \in X : TRUE
    BY <2>2
  <2>. DEFINE Y == X \ {x}
  <2>4. IsFiniteSet(Y) /\ Y \in SUBSET Nat
    BY <2>2, FS_RemoveElement
  <2>5. <<Y, X>> \in StrictSubsetOrdering(Nat)
    BY <2>2, <2>3 DEF StrictSubsetOrdering
  <2>6. Y = {} \/ \E n \in Y : \A m \in Y : m <= n
    BY <2>1, <2>4, <2>5 DEF FiniteSubsetsOf
  <2>7. CASE Y = {}
    BY <2>2, <2>3, <2>7
  <2>8. CASE \E n \in Y : \A m \in Y : m <= n
    <3>1. PICK n \in Y : \A m \in Y : m <= n
      BY <2>8
    <3>2. n \in X /\ n \in Nat /\ x \in Nat /\ \A m \in X : m = x \/ m <= n
      BY <2>2, <2>3, <3>1
    <3>3. CASE x <= n
      BY <2>2, <3>2, <3>3
    <3>4. CASE n <= x
      <4>1. \A m \in X : m \in Nat
        BY <2>2
      <4>2. \A m \in X : m <= x
        BY <3>2, <3>4, <4>1
      <4>. QED
        BY <2>2, <4>2
    <3>. QED
      BY <3>2, <3>3, <3>4
  <2>. QED
    BY <2>6, <2>7, <2>8
<1>. QED
  BY <1>1 DEF FiniteSubsetsOf

\* Highest is what its name says, 0 of no numbers.
LEMMA HighestOf ==
    ASSUME NEW S \in SUBSET Nat, IsFiniteSet(S)
    PROVE  Highest(S) \in S \cup {0} /\ \A m \in S : m <= Highest(S)
<1>1. \E n \in S \cup {0} : \A m \in S : m <= n
  BY FiniteHasHighest
<1>. QED
  BY <1>1, Zenon DEF Highest

\* What is found in finitely many rows is finite.
LEMMA FiniteImage ==
    ASSUME NEW S, IsFiniteSet(S), NEW f, DOMAIN f = S
    PROVE  IsFiniteSet({f[x] : x \in S})
<1>. DEFINE g == [x \in S |-> f[x]]
            T == {f[x] : x \in S}
<1>1. g \in Surjection(S, T)
  BY DEF Surjection
<1>. QED
  BY <1>1, FS_Surjection

\* The row that SQLite stores is one, with a rowid that no row has.
LEMMA StoredType ==
    ASSUME NEW T \in SUBSET StoredRows, IsFiniteSet(T), NEW v \in Values,
           v.id \in Ids, v.code # Null
    PROVE  Stored(T, v) \in StoredRows /\ Stored(T, v).id = v.id
<1>. DEFINE f == [r \in T |-> r.rowid]
<1>1. {r.rowid : r \in T} = {f[r] : r \in T} /\ DOMAIN f = T
  OBVIOUS
<1>. HIDE DEF f
<1>2. IsFiniteSet({r.rowid : r \in T})
  BY <1>1, FiniteImage
<1>3. {r.rowid : r \in T} \in SUBSET Nat
  BY DEF StoredRows
<1>4. Highest({r.rowid : r \in T}) \in Nat
  BY <1>2, <1>3, HighestOf
<1>. QED
  BY <1>4 DEF Stored, StoredRows, Values

\* MAX(id) is a value of the column, or 0.
LEMMA MaxIdType ==
    ASSUME NEW T \in SUBSET StoredRows, IsFiniteSet(T)
    PROVE  Highest({r.id : r \in T}) \in 0..MaxId
<1>. DEFINE f == [r \in T |-> r.id]
<1>1. {r.id : r \in T} = {f[r] : r \in T} /\ DOMAIN f = T
  OBVIOUS
<1>. HIDE DEF f
<1>2. IsFiniteSet({r.id : r \in T})
  BY <1>1, FiniteImage
<1>3. {r.id : r \in T} \in SUBSET Ids
  BY DEF StoredRows
<1>4. Ids \subseteq Nat /\ Ids \cup {0} \subseteq 0..MaxId
  BY UpsertAssumption DEF Ids
<1>5. Highest({r.id : r \in T}) \in {r.id : r \in T} \cup {0}
  BY <1>2, <1>3, <1>4, HighestOf
<1>. QED
  BY <1>3, <1>4, <1>5

\* An assignment leaves the id.
LEMMA AssignedType ==
    ASSUME NEW r \in StoredRows, NEW a \in Assignments, NEW v \in Values,
           v.code # Null
    PROVE  Assigned(a, r, v) \in StoredRows /\ Assigned(a, r, v).id = r.id
<1>1. CASE a = "none"
  BY <1>1 DEF Assigned
<1>2. CASE a = "code"
  <2>1. Assigned(a, r, v) = [r EXCEPT !.code = v.code]
    BY <1>2 DEF Assigned
  <2>2. v.code \in Codes \cup {Implicit}
    BY DEF Values
  <2>. QED
    BY <2>1, <2>2 DEF StoredRows
<1>3. CASE a = "ref"
  <2>1. Assigned(a, r, v) = [r EXCEPT !.ref = v.ref]
    BY <1>3 DEF Assigned
  <2>2. v.ref \in Refs \cup {Null}
    BY DEF Values
  <2>. QED
    BY <2>1, <2>2 DEF StoredRows
<1>. QED
  BY <1>1, <1>2, <1>3 DEF Assignments

-----------------------------------------------------------------------------
(* The inductive invariant.                                                *)

Begun == [table : SUBSET StoredRows, affected : Nat] \cup {Disturbed}

\* TypeOK with the shape of begun, and finite tables.
Typed ==
    /\ rows \in SUBSET StoredRows /\ IsFiniteSet(rows)
    /\ saved \in SUBSET StoredRows /\ IsFiniteSet(saved)
    /\ writer \in Sessions \cup {NoSession}
    /\ inTrans \in [Sessions -> BOOLEAN]
    /\ alloc \in 0..MaxId
    /\ job \in [Sessions -> Jobs]
    /\ asked \in 0..MaxRows
    /\ begun \in [Sessions -> Begun]
    /\ handed \in SUBSET Ids

\* What a statement has at each place: a value before the INSERT, a code when
\* the INSERT met its conflict, and a row to delete.
InPlace(j) ==
    /\ j.pc \in {"insert", "record", "find", "delete"} => j.values.id \in Ids
    /\ j.pc \in {"fetchBefore", "update", "fetchAfter"} => j.values.code # Null
    /\ j.pc = "find" /\ j.kind # "replace" => j.values.code # Null
    /\ j.pc = "delete" => j.found # <<>>
    /\ j.generated => j.pc # "idle"

\* A value generated is above the allocations, for a row left alone.
Ahead(s) == job[s].generated /\ begun[s] # Disturbed => alloc < job[s].values.id

UpsertInv ==
    /\ Typed /\ AllocationCoversTable
    /\ \A id \in handed : id <= alloc
    /\ \A s \in Sessions : InPlace(job[s]) /\ Ahead(s)

LEMMA InitUpsertInv == Init => UpsertInv
<1>. SUFFICES ASSUME Init PROVE UpsertInv
  OBVIOUS
<1>. USE DEF Init
<1>1. MaxId \in Nat /\ MaxRows \in Nat /\ rows \in SUBSET StoredRows /\ IsFiniteSet(rows)
  BY UpsertAssumption
<1>2. saved \in SUBSET StoredRows /\ IsFiniteSet(saved)
  BY FS_EmptySet
<1>3. NoJob \in Jobs /\ NoJob.pc = "idle" /\ NoJob.generated = FALSE
  BY <1>1 DEF NoJob, Jobs, NoValues, Values, Places, Kinds, Assignments, Keys
<1>4. Nothing \in Begun
  BY DEF Nothing, Begun
<1>5. job \in [Sessions -> Jobs] /\ begun \in [Sessions -> Begun]
  BY <1>3, <1>4
<1>6. alloc \in 0..MaxId /\ asked \in 0..MaxRows /\ inTrans \in [Sessions -> BOOLEAN]
  BY <1>1
<1>7. Typed
  BY <1>1, <1>2, <1>5, <1>6 DEF Typed
<1>8. AllocationCoversTable
  BY DEF AllocationCoversTable
<1>9. \A s \in Sessions : InPlace(job[s]) /\ Ahead(s)
  BY <1>3 DEF InPlace, Ahead
<1>. QED
  BY <1>7, <1>8, <1>9 DEF UpsertInv

-----------------------------------------------------------------------------
(* The steps.                                                              *)

\* What others have begun is disturbed or as it was.
LEMMA DisturbsOthers ==
    ASSUME UpsertInv, NEW s \in Sessions, Disturbs(s) \/ UNCHANGED begun
    PROVE  /\ begun' \in [Sessions -> Begun] /\ begun'[s] = begun[s]
           /\ \A t \in Sessions : begun'[t] = begun[t] \/ begun'[t] = Disturbed
BY DEF UpsertInv, Typed, Disturbs, Begun

\* A step of session s other than the one after its INSERT: what it has to
\* show of the table and of its statement.
LEMMA SessionStepInv ==
    ASSUME UpsertInv, NEW s \in Sessions, NEW j \in Jobs,
           job' = [job EXCEPT ![s] = j], job[s].pc # "record",
           InPlace(j), j.generated /\ begun'[s] # Disturbed => alloc < j.values.id,
           rows' \in SUBSET StoredRows, IsFiniteSet(rows'),
           saved' \in SUBSET StoredRows, IsFiniteSet(saved'),
           writer' \in Sessions \cup {NoSession}, inTrans' \in [Sessions -> BOOLEAN],
           asked' \in 0..MaxRows, UNCHANGED <<alloc, handed>>,
           begun' \in [Sessions -> Begun],
           \A t \in Sessions \ {s} : begun'[t] = begun[t] \/ begun'[t] = Disturbed,
           \A r \in rows' \cup saved' :
               \/ \E q \in rows \cup saved : q.id = r.id
               \/ j.pc = "record" /\ j.values.id = r.id
    PROVE  UpsertInv'
<1>1. \A t \in Sessions : job'[t] = IF t = s THEN j ELSE job[t]
  BY DEF UpsertInv, Typed
<1>2. job' \in [Sessions -> Jobs]
  BY DEF UpsertInv, Typed
<1>3. Typed'
  BY <1>2 DEF UpsertInv, Typed
<1>4. ASSUME NEW r \in rows' \cup saved'
      PROVE  \/ r.id <= alloc'
             \/ \E q \in SeedRows : q.id = r.id
             \/ \E t \in Sessions : At(t, "record")' /\ job'[t].values.id = r.id
  <2>1. CASE \E q \in rows \cup saved : q.id = r.id
    <3>1. \/ r.id <= alloc
          \/ \E q \in SeedRows : q.id = r.id
          \/ \E t \in Sessions : At(t, "record") /\ job[t].values.id = r.id
      BY <2>1 DEF UpsertInv, AllocationCoversTable
    <3>2. \A t \in Sessions : At(t, "record") => job'[t] = job[t]
      BY <1>1 DEF At
    <3>. QED
      BY <3>1, <3>2 DEF At
  <2>2. CASE j.pc = "record" /\ j.values.id = r.id
    BY <1>1, <2>2 DEF At
  <2>. QED
    BY <2>1, <2>2
<1>5. AllocationCoversTable'
  BY <1>4 DEF AllocationCoversTable, At
<1>6. ASSUME NEW t \in Sessions PROVE InPlace(job[t])' /\ Ahead(t)'
  <2>1. CASE t = s
    BY <1>1, <2>1 DEF InPlace, Ahead
  <2>2. CASE t # s
    <3>1. job'[t] = job[t] /\ InPlace(job[t]) /\ Ahead(t)
      BY <1>1, <2>2 DEF UpsertInv
    <3>2. begun'[t] = begun[t] \/ begun'[t] = Disturbed
      BY <2>2
    <3>. QED
      BY <3>1, <3>2 DEF InPlace, Ahead
  <2>. QED
    BY <2>1, <2>2
<1>7. \A id \in handed' : id <= alloc'
  BY DEF UpsertInv
<1>. QED
  BY <1>3, <1>5, <1>6, <1>7 DEF UpsertInv

\* A step that changes nothing but the statement of s.
LEMMA QuietStepInv ==
    ASSUME UpsertInv, NEW s \in Sessions, NEW j \in Jobs,
           job' = [job EXCEPT ![s] = j], job[s].pc # "record",
           InPlace(j), j.generated /\ begun[s] # Disturbed => alloc < j.values.id,
           asked' \in 0..MaxRows, UNCHANGED <<dbVars, alloc, history>>
    PROVE  UpsertInv'
<1>1. /\ UNCHANGED <<rows, saved, writer, inTrans, begun, handed, alloc>>
      /\ rows \in SUBSET StoredRows /\ IsFiniteSet(rows)
      /\ saved \in SUBSET StoredRows /\ IsFiniteSet(saved)
      /\ writer \in Sessions \cup {NoSession} /\ inTrans \in [Sessions -> BOOLEAN]
      /\ begun \in [Sessions -> Begun]
  BY DEF dbVars, history, UpsertInv, Typed
<1>. QED
  BY <1>1, SessionStepInv

\* A write of table T that brings no id of its own.
LEMMA WriteStep ==
    ASSUME UpsertInv, NEW s \in Sessions, NEW T \in SUBSET StoredRows, IsFiniteSet(T),
           Write(s, T), UNCHANGED inTrans
    PROVE  /\ rows' = T /\ rows' \in SUBSET StoredRows /\ IsFiniteSet(rows')
           /\ saved' \in SUBSET StoredRows /\ IsFiniteSet(saved')
           /\ writer' \in Sessions \cup {NoSession} /\ inTrans' \in [Sessions -> BOOLEAN]
           /\ begun' \in [Sessions -> Begun] /\ begun'[s] = begun[s]
           /\ \A t \in Sessions : begun'[t] = begun[t] \/ begun'[t] = Disturbed
           /\ saved' = saved \/ saved' = rows
<1>1. rows' = T /\ (saved' = saved \/ saved' = rows) /\ writer' \in Sessions \cup {NoSession}
      /\ inTrans' \in [Sessions -> BOOLEAN]
  BY DEF Write, UpsertInv, Typed
<1>2. Disturbs(s) \/ UNCHANGED begun
  BY DEF Write
<1>3. /\ begun' \in [Sessions -> Begun] /\ begun'[s] = begun[s]
      /\ \A t \in Sessions : begun'[t] = begun[t] \/ begun'[t] = Disturbed
  BY <1>2, DisturbsOthers
<1>4. saved' \in SUBSET StoredRows /\ IsFiniteSet(saved')
  BY <1>1 DEF UpsertInv, Typed
<1>. QED
  BY <1>1, <1>3, <1>4

\* The statement of a session.
LEMMA JobOf ==
    ASSUME UpsertInv, NEW s \in Sessions
    PROVE  job[s] \in Jobs /\ InPlace(job[s]) /\ Ahead(s)
BY DEF UpsertInv, Typed

LEMMA NoJobType ==
    /\ NoJob \in Jobs /\ NoJob.pc = "idle" /\ NoJob.generated = FALSE
    /\ 1 \in 1..Len(Keys) /\ 0 \in 0..MaxId
<1>1. MaxId \in Nat /\ MaxRows \in Nat /\ Len(Keys) = 2
  BY UpsertAssumption DEF Keys
<1>2. NoValues \in Values
  BY DEF NoValues, Values
<1>. QED
  BY <1>1, <1>2 DEF NoJob, Jobs, Places, Kinds, Assignments

\* A row that is done with, one way or the other.
LEMMA RowDoneType ==
    ASSUME NEW j \in Jobs, NEW place \in {"next", "failed"}
    PROVE  /\ RowDone(j, place) \in Jobs /\ RowDone(j, place).pc = place
           /\ RowDone(j, place).generated = FALSE
           /\ RowDone(j, place).lastId = j.lastId
           /\ InPlace(RowDone(j, place))
<1>1. 1 \in 1..Len(Keys) /\ 0 \in 0..MaxId /\ place \in Places
  BY NoJobType DEF Places
<1>2. <<>> \in Seq(Nat) /\ 0 \in Nat /\ Null \in StoredRows \cup {Null}
  OBVIOUS
<1>3. RowDone(j, place) \in Jobs
  BY <1>1, <1>2 DEF RowDone, Jobs
<1>4. /\ RowDone(j, place).pc = place
      /\ RowDone(j, place).generated = FALSE
      /\ RowDone(j, place).lastId = j.lastId
  BY DEF RowDone, Jobs
<1>. QED
  BY <1>3, <1>4 DEF InPlace

\* The ways a row ends in failure leave everything else.
LEMMA FailsInv ==
    ASSUME UpsertInv, NEW s \in Sessions, Fails(s), job[s].pc # "record",
           UNCHANGED <<dbVars, alloc, asked, history>>
    PROVE  UpsertInv'
<1>1. job[s] \in Jobs
  BY JobOf
<1>. DEFINE j == RowDone(job[s], "failed")
<1>2. job' = [job EXCEPT ![s] = j]
  BY DEF Fails
<1>3. j \in Jobs /\ j.generated = FALSE /\ InPlace(j)
  BY <1>1, RowDoneType
<1>4. asked' \in 0..MaxRows
  BY DEF UpsertInv, Typed
<1>. HIDE DEF j
<1>. QED
  BY <1>2, <1>3, <1>4, QuietStepInv

\* Transactions.
LEMMA TransactionInv ==
    ASSUME UpsertInv, NEW s \in Sessions, Begin(s) \/ Commit(s) \/ Rollback(s)
    PROVE  UpsertInv'
<1>1. job[s] \in Jobs /\ InPlace(job[s]) /\ Ahead(s)
  BY JobOf
<1>2. job[s].pc = "idle" /\ job' = [job EXCEPT ![s] = job[s]]
      /\ UNCHANGED <<alloc, asked, handed>>
  BY DEF Begin, Commit, Rollback, End, history, UpsertInv, Typed
<1>3. Disturbs(s) \/ UNCHANGED begun
  BY DEF Begin, Commit, Rollback, End, history
<1>4. /\ begun' \in [Sessions -> Begun] /\ begun'[s] = begun[s]
      /\ \A t \in Sessions : begun'[t] = begun[t] \/ begun'[t] = Disturbed
  BY <1>3, DisturbsOthers
<1>5. rows' \in {rows, saved} /\ saved' \in {saved, {}}
  BY DEF Begin, Commit, Rollback, End
<1>6. /\ writer' \in Sessions \cup {NoSession} /\ inTrans' \in [Sessions -> BOOLEAN]
  BY DEF Begin, Commit, Rollback, End, UpsertInv, Typed
<1>7. /\ rows' \in SUBSET StoredRows /\ IsFiniteSet(rows')
      /\ saved' \in SUBSET StoredRows /\ IsFiniteSet(saved')
  BY <1>5, FS_EmptySet DEF UpsertInv, Typed
<1>8. job[s].generated /\ begun'[s] # Disturbed => alloc < job[s].values.id
  BY <1>1, <1>4 DEF Ahead
<1>9. asked' \in 0..MaxRows
  BY <1>2 DEF UpsertInv, Typed
<1>10. \A r \in rows' \cup saved' : \E q \in rows \cup saved : q.id = r.id
  BY <1>5
<1>. QED
  BY <1>1, <1>2, <1>4, <1>6, <1>7, <1>8, <1>9, <1>10, SessionStepInv

\* The start and the end of a statement, and of a row.
LEMMA AskInv == ASSUME UpsertInv, NEW s \in Sessions, Ask(s) PROVE UpsertInv'
<1>1. PICK kind \in Kinds, n \in 1..(MaxRows - asked), a \in Assignments :
          /\ job' = [job EXCEPT ![s] = [NoJob EXCEPT !.pc = "next", !.kind = kind,
                                                     !.assign = a, !.left = n]]
          /\ asked' = asked + n
  BY DEF Ask
<1>. DEFINE j == [NoJob EXCEPT !.pc = "next", !.kind = kind, !.assign = a, !.left = n]
<1>2. MaxRows \in Nat /\ asked \in 0..MaxRows /\ n \in 0..MaxRows /\ "next" \in Places
  BY UpsertAssumption DEF UpsertInv, Typed, Places
<1>3. j \in Jobs /\ j.pc = "next" /\ j.generated = FALSE
  BY <1>2, NoJobType DEF Jobs
<1>4. InPlace(j)
  BY <1>3 DEF InPlace
<1>5. asked' \in 0..MaxRows
  BY <1>1, <1>2
<1>6. job' = [job EXCEPT ![s] = j] /\ job[s].pc # "record"
      /\ UNCHANGED <<dbVars, alloc, history>>
  BY <1>1 DEF Ask, At
<1>. HIDE DEF j
<1>. QED
  BY <1>3, <1>4, <1>5, <1>6, QuietStepInv

LEMMA NextRowInv == ASSUME UpsertInv, NEW s \in Sessions, NextRow(s) PROVE UpsertInv'
<1>1. PICK id \in ExplicitIds \cup {0}, code \in Codes \cup {Null, Default},
           ref \in Refs \cup {Null} :
        job' = [job EXCEPT ![s] =
                  [NoJob EXCEPT
                     !.pc = IF NoDefault(code) THEN "failed"
                            ELSE IF AsksForValue(id) THEN "readMax"
                            ELSE AfterValue(job[s].kind),
                     !.values = IF NoDefault(code) THEN NoValues
                                ELSE [id |-> id, code |-> Defaulted(code), ref |-> ref],
                     !.kind = job[s].kind, !.assign = job[s].assign,
                     !.left = job[s].left - 1,
                     !.affected = job[s].affected, !.lastId = job[s].lastId]]
  BY DEF NextRow
<1>2. PICK k \in Jobs : k = job[s]
  BY JobOf
<1>. DEFINE place == IF NoDefault(code) THEN "failed"
                     ELSE IF AsksForValue(id) THEN "readMax"
                     ELSE AfterValue(k.kind)
            values == IF NoDefault(code) THEN NoValues
                      ELSE [id |-> id, code |-> Defaulted(code), ref |-> ref]
            j == [NoJob EXCEPT !.pc = place, !.values = values, !.kind = k.kind,
                               !.assign = k.assign, !.left = k.left - 1,
                               !.affected = k.affected, !.lastId = k.lastId]
<1>3. k.left - 1 \in 0..MaxRows /\ k.pc = "next"
  BY <1>2, UpsertAssumption DEF NextRow, At, Jobs
<1>4. NoValues \in Values
  BY DEF NoValues, Values
<1>5. ~NoDefault(code) => Defaulted(code) \in Codes \cup {Implicit, Null}
  BY DEF NoDefault, Defaulted
<1>6. id \in Ids \cup {0}
  BY UpsertAssumption
<1>7. values \in Values
  BY <1>4, <1>5, <1>6 DEF Values
<1>8. /\ place \in Places
      /\ place \in {"failed", "readMax", "insert", "find"}
      /\ place \in {"insert", "find"} => values.id \in Ids
      /\ place = "find" => k.kind = "replace"
  BY <1>6, UpsertAssumption DEF Places, AfterValue, AsksForValue
<1>. HIDE DEF place, values
<1>9. /\ j \in Jobs /\ j.pc = place /\ j.values = values /\ j.kind = k.kind
      /\ j.generated = FALSE
  BY <1>3, <1>7, <1>8, NoJobType DEF Jobs
<1>10. InPlace(j)
  BY <1>8, <1>9 DEF InPlace
<1>11. job' = [job EXCEPT ![s] = j]
  BY <1>1, <1>2 DEF place, values
<1>. HIDE DEF j
<1>12. View(s) \in SUBSET StoredRows
  BY DEF View, UpsertInv, Typed
<1>13. begun' = [begun EXCEPT ![s] = [table |-> View(s), affected |-> k.affected]]
       /\ [table |-> View(s), affected |-> k.affected] \in Begun
  BY <1>2, <1>12 DEF NextRow, Begun, Jobs
<1>14. begun' \in [Sessions -> Begun] /\ \A t \in Sessions \ {s} : begun'[t] = begun[t]
  BY <1>13 DEF UpsertInv, Typed
<1>15. UNCHANGED <<rows, saved, writer, inTrans, alloc, asked, handed>>
  BY DEF NextRow, dbVars
<1>16. job[s].pc # "record" /\ Typed
  BY <1>2, <1>3 DEF UpsertInv
<1>. QED
  BY <1>9, <1>10, <1>11, <1>14, <1>15, <1>16, SessionStepInv DEF Typed

LEMMA AnswerInv == ASSUME UpsertInv, NEW s \in Sessions, Answer(s) PROVE UpsertInv'
<1>2. NoJob \in Jobs /\ NoJob.pc = "idle" /\ NoJob.generated = FALSE
  BY NoJobType
<1>3. InPlace(NoJob)
  BY <1>2 DEF InPlace
<1>4. Nothing \in Begun
  BY DEF Nothing, Begun
<1>5. begun' \in [Sessions -> Begun] /\ \A t \in Sessions \ {s} : begun'[t] = begun[t]
  BY <1>4 DEF Answer, UpsertInv, Typed
<1>6. /\ UNCHANGED <<rows, saved, writer, inTrans, alloc, asked, handed>>
      /\ job' = [job EXCEPT ![s] = NoJob] /\ job[s].pc # "record" /\ Typed
  BY DEF Answer, dbVars, At, UpsertInv
<1>. QED
  BY <1>2, <1>3, <1>5, <1>6, SessionStepInv DEF Typed

\* A row that SQLite refuses, or that fails.
LEMMA RefusedInv ==
    ASSUME UpsertInv, NEW s \in Sessions, job[s].pc # "record",
           Refused(s) \/ (Fails(s) /\ UNCHANGED <<dbVars, begun>>),
           UNCHANGED <<alloc, asked, handed>>
    PROVE  UpsertInv'
BY FailsInv DEF Refused, history

\* A step of the row that keeps the tables and the values.
LEMMA RowStepInv ==
    ASSUME UpsertInv, NEW s \in Sessions, NEW j \in Jobs,
           job' = [job EXCEPT ![s] = j], job[s].pc # "record",
           InPlace(j), j.generated = job[s].generated, j.values = job[s].values,
           UNCHANGED <<dbVars, begun, alloc, asked, handed>>
    PROVE  UpsertInv'
<1>1. j.generated /\ begun[s] # Disturbed => alloc < j.values.id
  BY JobOf DEF Ahead
<1>2. asked' \in 0..MaxRows /\ UNCHANGED <<dbVars, alloc, history>>
  BY DEF UpsertInv, Typed, history
<1>. QED
  BY <1>1, <1>2, QuietStepInv

LEMMA ViewType ==
    ASSUME UpsertInv, NEW s \in Sessions
    PROVE  View(s) \in SUBSET StoredRows /\ IsFiniteSet(View(s))
BY DEF View, UpsertInv, Typed

LEMMA ReadMaxInv == ASSUME UpsertInv, NEW s \in Sessions, ReadMax(s) PROVE UpsertInv'
<1>. DEFINE max == Highest({r.id : r \in View(s)})
<1>1. max \in 0..MaxId
  BY ViewType, MaxIdType
<1>. HIDE DEF max
<1>2. PICK k \in Jobs : k = job[s] /\ InPlace(k)
  BY JobOf
<1>3. k.pc = "readMax" /\ UNCHANGED <<alloc, asked, handed>>
  BY <1>2 DEF ReadMax, At
<1>4. CASE Refused(s)
  BY <1>2, <1>3, <1>4, RefusedInv
<1>5. CASE ~Refused(s)
  <2>. DEFINE j == [k EXCEPT !.pc = "readAllocation", !.base = max]
  <2>1. job' = [job EXCEPT ![s] = j] /\ UNCHANGED <<dbVars, begun>>
    BY <1>2, <1>5 DEF ReadMax, max, UpsertInv, Typed
  <2>2. j \in Jobs /\ j.pc = "readAllocation" /\ j.generated = k.generated
        /\ j.values = k.values
    BY <1>1 DEF Jobs, Places
  <2>3. InPlace(j)
    BY <2>2 DEF InPlace
  <2>. HIDE DEF j
  <2>. QED
    BY <1>2, <1>3, <2>1, <2>2, <2>3, RowStepInv
<1>. QED
  BY <1>4, <1>5

LEMMA ReadAllocationInv ==
    ASSUME UpsertInv, NEW s \in Sessions, ReadAllocation(s) PROVE UpsertInv'
<1>1. PICK k \in Jobs : k = job[s]
  BY JobOf
<1>. DEFINE id == NextId(k.base)
<1>2. k.pc = "readAllocation" /\ UNCHANGED <<dbVars, alloc, asked, history>>
  BY <1>1 DEF ReadAllocation, At
<1>3. alloc \in Nat /\ k.base \in Nat /\ MaxId \in Nat
  BY UpsertAssumption DEF UpsertInv, Typed, Jobs
<1>4. id \in Nat /\ alloc < id /\ 1 <= id
  BY <1>3 DEF NextId
<1>. HIDE DEF id
<1>5. CASE id > MaxId
  <2>1. Fails(s) /\ UNCHANGED <<dbVars, begun>> /\ UNCHANGED handed
    BY <1>1, <1>5 DEF ReadAllocation, history, id
  <2>. QED
    BY <1>1, <1>2, <2>1, RefusedInv
<1>6. CASE ~(id > MaxId)
  <2>1. PICK v \in Values : v = k.values
    BY DEF Jobs
  <2>. DEFINE place == AfterValue(k.kind)
              w == [v EXCEPT !.id = id]
              j == [k EXCEPT !.pc = place, !.generated = TRUE, !.values = w]
  <2>2. id \in Ids
    BY <1>3, <1>4, <1>6 DEF Ids
  <2>3. w \in Values /\ w.id = id
    BY <2>2 DEF Values
  <2>4. [k EXCEPT !.pc = place, !.generated = TRUE, !.values.id = id] = j
    BY <2>1
  <2>5. job' = [job EXCEPT ![s] = j]
    <3>1. job' = [job EXCEPT ![s].pc = AfterValue(job[s].kind), ![s].generated = TRUE,
                             ![s].values.id = id]
      BY <1>1, <1>6 DEF ReadAllocation, id
    <3>2. job' = [job EXCEPT ![s] = [k EXCEPT !.pc = AfterValue(k.kind), !.generated = TRUE,
                                              !.values.id = id]]
      BY <1>1, <3>1 DEF UpsertInv, Typed
    <3>. QED
      BY <2>4, <3>2
  <2>6. place \in Places /\ place \in {"find", "insert"} /\ (place = "find" => k.kind = "replace")
    BY DEF AfterValue, Places
  <2>. HIDE DEF w, place
  <2>7. /\ j \in Jobs /\ j.pc = place /\ j.generated = TRUE /\ j.values = w
        /\ j.kind = k.kind
    BY <2>3, <2>6 DEF Jobs
  <2>8. InPlace(j)
    BY <2>2, <2>3, <2>6, <2>7 DEF InPlace
  <2>9. alloc < j.values.id
    BY <1>4, <2>3, <2>7
  <2>10. asked' \in 0..MaxRows /\ job[s].pc # "record"
    BY <1>1, <1>2 DEF UpsertInv, Typed
  <2>. HIDE DEF j
  <2>. QED
    BY <1>2, <2>5, <2>7, <2>8, <2>9, <2>10, QuietStepInv
<1>. QED
  BY <1>5, <1>6

LEMMA InsertInv == ASSUME UpsertInv, NEW s \in Sessions, Insert(s) PROVE UpsertInv'
<1>1. PICK k \in Jobs : k = job[s] /\ InPlace(k)
  BY JobOf
<1>2. k.pc = "insert" /\ k.values \in Values /\ k.values.id \in Ids
      /\ UNCHANGED <<alloc, asked, handed>>
  BY <1>1 DEF Insert, At, InPlace, Jobs
<1>3. CASE Refused(s) \/ (Fails(s) /\ UNCHANGED <<dbVars, begun>>)
  BY <1>1, <1>2, <1>3, RefusedInv
<1>4. ASSUME k.values.code # Null, AfterConflict(s), UNCHANGED <<dbVars, begun>>
      PROVE  UpsertInv'
  <2>1. CASE k.kind = "ignore"
    <3>. DEFINE j == RowDone(k, "next")
    <3>1. job' = [job EXCEPT ![s] = j]
      BY <1>1, <1>4, <2>1 DEF AfterConflict
    <3>2. j \in Jobs /\ j.generated = FALSE /\ InPlace(j)
      BY RowDoneType
    <3>3. asked' \in 0..MaxRows /\ UNCHANGED <<dbVars, alloc, history>>
      BY <1>2, <1>4 DEF UpsertInv, Typed, history
    <3>. HIDE DEF j
    <3>. QED
      BY <1>1, <1>2, <3>1, <3>2, <3>3, QuietStepInv
  <2>2. CASE k.kind = "upsert"
    <3>. DEFINE j == [k EXCEPT !.pc = "find"]
    <3>1. job' = [job EXCEPT ![s] = j]
      BY <1>1, <1>4, <2>2 DEF AfterConflict, Goes, UpsertInv, Typed
    <3>2. j \in Jobs /\ j.pc = "find" /\ j.generated = k.generated /\ j.values = k.values
          /\ j.kind = k.kind
      BY DEF Jobs, Places
    <3>3. InPlace(j)
      BY <1>2, <1>4, <3>2 DEF InPlace
    <3>. HIDE DEF j
    <3>. QED
      BY <1>1, <1>2, <1>4, <3>1, <3>2, <3>3, RowStepInv
  <2>3. CASE k.kind \notin {"ignore", "upsert"}
    <3>1. Fails(s)
      BY <1>1, <1>4, <2>3 DEF AfterConflict
    <3>. QED
      BY <1>3, <1>4, <3>1
  <2>. QED
    BY <2>1, <2>2, <2>3
<1>5. ASSUME k.values.code # Null, Write(s, rows \cup {Stored(rows, k.values)}),
             job' = [job EXCEPT ![s].pc = "record", ![s].affected = @ + 1,
                                ![s].rowid = Stored(rows, k.values).rowid],
             UNCHANGED inTrans
      PROVE  UpsertInv'
  <2>. DEFINE new == Stored(rows, k.values)
              T == rows \cup {new}
              j == [k EXCEPT !.pc = "record", !.affected = @ + 1, !.rowid = new.rowid]
  <2>1. new \in StoredRows /\ new.id = k.values.id
    BY <1>2, <1>5, StoredType DEF UpsertInv, Typed
  <2>2. T \in SUBSET StoredRows /\ IsFiniteSet(T)
    BY <2>1, FS_AddElement DEF UpsertInv, Typed
  <2>3. job' = [job EXCEPT ![s] = j]
    BY <1>1, <1>5 DEF UpsertInv, Typed
  <2>4. Write(s, T)
    BY <1>5
  <2>. HIDE DEF new
  <2>5. new.rowid \in Nat
    BY <2>1 DEF StoredRows
  <2>6. /\ j \in Jobs /\ j.pc = "record" /\ j.generated = k.generated
        /\ j.values = k.values
    <3>1. k.affected + 1 \in Nat /\ "record" \in Places
      BY DEF Jobs, Places
    <3>2. j = [k EXCEPT !.pc = "record", !.affected = k.affected + 1, !.rowid = new.rowid]
      OBVIOUS
    <3>. QED
      BY <2>5, <3>1, <3>2 DEF Jobs
  <2>7. InPlace(j)
    BY <1>2, <2>6 DEF InPlace
  <2>8. \A r \in T : (\E q \in rows \cup saved : q.id = r.id) \/ r.id = k.values.id
    BY <2>1
  <2>. HIDE DEF j, T
  <2>9. /\ rows' = T /\ rows' \in SUBSET StoredRows /\ IsFiniteSet(rows')
        /\ saved' \in SUBSET StoredRows /\ IsFiniteSet(saved')
        /\ writer' \in Sessions \cup {NoSession} /\ inTrans' \in [Sessions -> BOOLEAN]
        /\ begun' \in [Sessions -> Begun] /\ begun'[s] = begun[s]
        /\ \A t \in Sessions : begun'[t] = begun[t] \/ begun'[t] = Disturbed
        /\ saved' = saved \/ saved' = rows
    BY <1>5, <2>2, <2>4, WriteStep
  <2>10. \A r \in rows' \cup saved' :
            \/ \E q \in rows \cup saved : q.id = r.id
            \/ j.pc = "record" /\ j.values.id = r.id
    BY <2>6, <2>8, <2>9
  <2>11. j.generated /\ begun'[s] # Disturbed => alloc < j.values.id
    BY <1>1, <2>6, <2>9, JobOf DEF Ahead
  <2>12. asked' \in 0..MaxRows /\ job[s].pc # "record"
    BY <1>1, <1>2 DEF UpsertInv, Typed
  <2>. QED
    BY <1>2, <2>3, <2>6, <2>7, <2>9, <2>10, <2>11, <2>12, SessionStepInv
<1>6. \/ Refused(s) \/ (Fails(s) /\ UNCHANGED <<dbVars, begun>>)
      \/ k.values.code # Null /\ AfterConflict(s) /\ UNCHANGED <<dbVars, begun>>
      \/ /\ k.values.code # Null /\ Write(s, rows \cup {Stored(rows, k.values)})
         /\ job' = [job EXCEPT ![s].pc = "record", ![s].affected = @ + 1,
                               ![s].rowid = Stored(rows, k.values).rowid]
         /\ UNCHANGED inTrans
  BY <1>1 DEF Insert
<1>. QED
  BY <1>3, <1>4, <1>5, <1>6

\* The session that inserted the row tells the allocation map of its id, and
\* disturbs every other session whose value may not be ahead any more.
LEMMA RecordInv == ASSUME UpsertInv, NEW s \in Sessions, Record(s) PROVE UpsertInv'
<1>1. PICK k \in Jobs : k = job[s] /\ InPlace(k) /\ k.pc = "record"
  BY JobOf DEF Record, At
<1>2. PICK id \in Ids : id = k.values.id
  BY <1>1 DEF InPlace
<1>3. alloc \in Nat /\ id \in Nat /\ id <= MaxId /\ alloc <= MaxId
  BY <1>2, UpsertAssumption DEF UpsertInv, Typed, Ids
<1>4. alloc' = IF id > alloc THEN id ELSE alloc
  BY <1>1, <1>2 DEF Record, Recorded
<1>5. alloc' \in 0..MaxId /\ alloc <= alloc' /\ id <= alloc'
  BY <1>3, <1>4, UpsertAssumption
<1>6. PICK first \in Nat : first = FirstId(s, IF job[s].generated THEN job[s].values.id
                                              ELSE job[s].rowid)
  BY <1>1, <1>2, <1>3 DEF FirstId, Jobs
<1>7. PICK d \in Jobs : d = RowDone(k, "next") /\ d.pc = "next" /\ d.generated = FALSE
  BY RowDoneType
<1>. DEFINE j == [d EXCEPT !.lastId = first]
<1>8. job' = [job EXCEPT ![s] = j]
  BY <1>1, <1>6, <1>7 DEF Record, UpsertInv, Typed
<1>9. j \in Jobs /\ j.pc = "next" /\ j.generated = FALSE
  BY <1>7 DEF Jobs
<1>. HIDE DEF j
<1>10. \A t \in Sessions : job'[t] = IF t = s THEN j ELSE job[t]
  BY <1>8 DEF UpsertInv, Typed
<1>11. /\ begun' \in [Sessions -> Begun] /\ begun'[s] = begun[s]
       /\ \A t \in Sessions : begun'[t] = begun[t] \/ begun'[t] = Disturbed
  <2>1. Disturbs(s) \/ UNCHANGED begun
    BY DEF Record
  <2>. QED
    BY <2>1, DisturbsOthers
<1>12. handed' = (IF k.generated THEN handed \cup {id} ELSE handed)
       /\ UNCHANGED <<rows, saved, writer, inTrans, asked>>
  BY <1>1, <1>2 DEF Record, dbVars
<1>13. Typed'
  <2>1. job' \in [Sessions -> Jobs]
    BY <1>8, <1>9 DEF UpsertInv, Typed
  <2>2. handed' \in SUBSET Ids
    BY <1>12 DEF UpsertInv, Typed
  <2>. QED
    BY <1>5, <1>11, <1>12, <2>1, <2>2 DEF UpsertInv, Typed
<1>14. ASSUME NEW r \in rows \cup saved
       PROVE  \/ r.id <= alloc'
              \/ \E q \in SeedRows : q.id = r.id
              \/ \E t \in Sessions : At(t, "record")' /\ job'[t].values.id = r.id
  <2>1. CASE r.id <= alloc
    <3>1. r.id \in Nat
      BY UpsertAssumption DEF UpsertInv, Typed, StoredRows, Ids
    <3>. QED
      BY <1>3, <1>4, <2>1, <3>1
  <2>2. CASE \E q \in SeedRows : q.id = r.id
    BY <2>2
  <2>3. ASSUME NEW t \in Sessions, At(t, "record"), job[t].values.id = r.id
        PROVE  r.id <= alloc' \/ (At(t, "record")' /\ job'[t].values.id = r.id)
    <3>1. CASE t = s
      BY <1>1, <1>2, <1>5, <2>3, <3>1
    <3>2. CASE t # s
      BY <1>10, <2>3, <3>2 DEF At
    <3>. QED
      BY <3>1, <3>2
  <2>. QED
    BY <2>1, <2>2, <2>3 DEF UpsertInv, AllocationCoversTable
<1>15. AllocationCoversTable'
  BY <1>12, <1>14 DEF AllocationCoversTable, At
<1>16. \A i \in handed' : i <= alloc'
  <2>1. \A i \in handed : i \in Nat /\ i <= alloc
    BY UpsertAssumption DEF UpsertInv, Typed, Ids
  <2>. QED
    BY <1>3, <1>4, <1>12, <2>1
<1>17. ASSUME NEW t \in Sessions PROVE InPlace(job[t])' /\ Ahead(t)'
  <2>1. CASE t = s
    BY <1>9, <1>10, <2>1 DEF InPlace, Ahead
  <2>2. CASE t # s
    <3>1. job'[t] = job[t] /\ InPlace(job[t]) /\ Ahead(t)
      BY <1>10, <2>2 DEF UpsertInv
    <3>2. job[t].generated => job[t].pc # "idle"
      BY <3>1 DEF InPlace
    <3>3. job[t].generated /\ begun'[t] # Disturbed => alloc' = alloc /\ begun'[t] = begun[t]
      BY <2>2, <3>2 DEF Record, Disturbs
    <3>. QED
      BY <3>1, <3>3 DEF InPlace, Ahead
  <2>. QED
    BY <2>1, <2>2
<1>. QED
  BY <1>13, <1>15, <1>16, <1>17 DEF UpsertInv

LEMMA FindInv == ASSUME UpsertInv, NEW s \in Sessions, Find(s) PROVE UpsertInv'
<1>1. PICK k \in Jobs : k = job[s] /\ InPlace(k)
  BY JobOf
<1>2. k.pc = "find" /\ UNCHANGED <<alloc, asked, handed>>
  BY <1>1 DEF Find, At
<1>3. CASE Refused(s)
  BY <1>1, <1>2, <1>3, RefusedInv
<1>4. CASE ~Refused(s)
  <2>. DEFINE all == IF Matching(s, k.key) \subseteq Range(k.found) THEN k.found
                     ELSE Append(k.found, CHOOSE id \in Matching(s, k.key) : TRUE)
              key == IF k.key < Len(Keys) THEN k.key + 1 ELSE 1
              place == IF k.key < Len(Keys) THEN "find" ELSE AfterFind(k.kind, all)
              j == [k EXCEPT !.found = all, !.key = key, !.pc = place]
  <2>1. job' = [job EXCEPT ![s].found = all, ![s].key = key, ![s].pc = place]
        /\ UNCHANGED <<dbVars, begun>>
    BY <1>1, <1>4 DEF Find
  <2>2. all \in Seq(Nat)
    <3>1. Matching(s, k.key) \subseteq Nat
      BY ViewType DEF Matching, StoredRows
    <3>2. k.found \in Seq(Nat)
      BY DEF Jobs
    <3>. HIDE DEF Matching
    <3>3. CASE Matching(s, k.key) \subseteq Range(k.found)
      BY <3>2, <3>3
    <3>4. CASE ~(Matching(s, k.key) \subseteq Range(k.found))
      <4>1. (CHOOSE id \in Matching(s, k.key) : TRUE) \in Nat
        BY <3>1, <3>4
      <4>. QED
        BY <3>2, <3>4, <4>1
    <3>. QED
      BY <3>3, <3>4
  <2>. HIDE DEF all
  <2>3. key \in 1..Len(Keys)
    <3>1. Len(Keys) = 2 /\ k.key \in 1..Len(Keys)
      BY DEF Keys, Jobs
    <3>. QED
      BY <3>1
  <2>4. /\ place \in {"find", "insert", "delete", "failed", "fetchBefore"}
        /\ place \in Places
        /\ place = "delete" => all # <<>>
        /\ place = "insert" => k.kind = "replace"
        /\ place = "fetchBefore" => k.kind # "replace"
    BY DEF AfterFind, Places
  <2>. HIDE DEF key, place
  <2>5. job' = [job EXCEPT ![s] = j]
    BY <1>1, <2>1 DEF UpsertInv, Typed
  <2>6. /\ j \in Jobs /\ j.pc = place /\ j.found = all
        /\ j.generated = k.generated /\ j.values = k.values /\ j.kind = k.kind
    BY <2>2, <2>3, <2>4 DEF Jobs
  <2>7. k.values.id \in Ids /\ (k.kind # "replace" => k.values.code # Null)
    BY <1>1, <1>2 DEF InPlace
  <2>8. InPlace(j)
    BY <2>4, <2>6, <2>7 DEF InPlace
  <2>. HIDE DEF j
  <2>. QED
    BY <1>1, <1>2, <2>1, <2>5, <2>6, <2>8, RowStepInv
<1>. QED
  BY <1>3, <1>4

LEMMA FetchBeforeInv ==
    ASSUME UpsertInv, NEW s \in Sessions, FetchBefore(s) PROVE UpsertInv'
<1>1. PICK k \in Jobs : k = job[s] /\ InPlace(k)
  BY JobOf
<1>2. k.pc = "fetchBefore" /\ UNCHANGED <<alloc, asked, handed>>
  BY <1>1 DEF FetchBefore, At
<1>3. CASE Refused(s) \/ (Fails(s) /\ UNCHANGED <<dbVars, begun>>)
  BY <1>1, <1>2, <1>3, RefusedInv
<1>4. ASSUME NEW r \in Fetched(s, Target(s)), UNCHANGED <<dbVars, begun>>,
             job' = [job EXCEPT ![s].pc = "update", ![s].before = r, ![s].rowid = r.rowid]
      PROVE  UpsertInv'
  <2>. DEFINE j == [k EXCEPT !.pc = "update", !.before = r, !.rowid = r.rowid]
  <2>1. r \in StoredRows /\ r.rowid \in Nat /\ "update" \in Places
    BY ViewType DEF Fetched, StoredRows, Places
  <2>2. job' = [job EXCEPT ![s] = j]
    BY <1>1, <1>4 DEF UpsertInv, Typed
  <2>3. /\ j \in Jobs /\ j.pc = "update" /\ j.generated = k.generated
        /\ j.values = k.values
    BY <2>1 DEF Jobs
  <2>4. InPlace(j)
    BY <1>1, <1>2, <2>3 DEF InPlace
  <2>. HIDE DEF j
  <2>. QED
    BY <1>1, <1>2, <1>4, <2>2, <2>3, <2>4, RowStepInv
<1>. QED
  BY <1>3, <1>4 DEF FetchBefore

LEMMA UpdateInv == ASSUME UpsertInv, NEW s \in Sessions, Update(s) PROVE UpsertInv'
<1>1. PICK k \in Jobs : k = job[s] /\ InPlace(k)
  BY JobOf
<1>2. k.pc = "update" /\ k.values \in Values /\ k.assign \in Assignments
      /\ k.values.code # Null /\ UNCHANGED <<alloc, asked, handed>>
  BY <1>1 DEF Update, At, InPlace, Jobs
<1>. DEFINE old == {r \in rows : r.rowid = k.rowid}
            new == {Assigned(k.assign, r, k.values) : r \in old}
            T == (rows \ old) \cup new
<1>3. CASE Refused(s) \/ (Fails(s) /\ UNCHANGED <<dbVars, begun>>)
  BY <1>1, <1>2, <1>3, RefusedInv
<1>4. ASSUME Write(s, T), Goes(s, "fetchAfter"), UNCHANGED inTrans
      PROVE  UpsertInv'
  <2>. DEFINE j == [k EXCEPT !.pc = "fetchAfter"]
              f == [r \in old |-> Assigned(k.assign, r, k.values)]
  <2>1. rows \in SUBSET StoredRows /\ IsFiniteSet(rows)
    BY DEF UpsertInv, Typed
  <2>2. \A r \in old : r \in rows /\ f[r] \in StoredRows /\ f[r].id = r.id
    BY <1>2, <2>1, AssignedType
  <2>3. new = {f[r] : r \in old} /\ DOMAIN f = old /\ old \subseteq rows
    OBVIOUS
  <2>. HIDE DEF f, new, old
  <2>4. IsFiniteSet(old) /\ IsFiniteSet(rows \ old)
    BY <2>1, <2>3, FS_Subset
  <2>5. IsFiniteSet(new)
    BY <2>3, <2>4, FiniteImage
  <2>6. T \in SUBSET StoredRows /\ IsFiniteSet(T)
    BY <2>1, <2>2, <2>3, <2>4, <2>5, FS_Union
  <2>7. \A r \in T : \E q \in rows \cup saved : q.id = r.id
    BY <2>2, <2>3
  <2>. HIDE DEF T
  <2>8. job' = [job EXCEPT ![s] = j]
    BY <1>1, <1>4 DEF Goes, UpsertInv, Typed
  <2>9. j \in Jobs /\ j.pc = "fetchAfter" /\ j.generated = k.generated
        /\ j.values = k.values
    BY DEF Jobs, Places
  <2>10. InPlace(j)
    BY <1>2, <2>9, <1>1 DEF InPlace
  <2>. HIDE DEF j
  <2>11. /\ rows' = T /\ rows' \in SUBSET StoredRows /\ IsFiniteSet(rows')
         /\ saved' \in SUBSET StoredRows /\ IsFiniteSet(saved')
         /\ writer' \in Sessions \cup {NoSession} /\ inTrans' \in [Sessions -> BOOLEAN]
         /\ begun' \in [Sessions -> Begun] /\ begun'[s] = begun[s]
         /\ \A t \in Sessions : begun'[t] = begun[t] \/ begun'[t] = Disturbed
         /\ saved' = saved \/ saved' = rows
    BY <1>4, <2>6, WriteStep
  <2>12. \A r \in rows' \cup saved' : \E q \in rows \cup saved : q.id = r.id
    BY <2>7, <2>11
  <2>13. j.generated /\ begun'[s] # Disturbed => alloc < j.values.id
    BY <1>1, <2>9, <2>11, JobOf DEF Ahead
  <2>14. asked' \in 0..MaxRows /\ job[s].pc # "record"
    BY <1>1, <1>2 DEF UpsertInv, Typed
  <2>. QED
    BY <1>2, <2>8, <2>9, <2>10, <2>11, <2>12, <2>13, <2>14, SessionStepInv
<1>5. \/ Refused(s) \/ (Fails(s) /\ UNCHANGED <<dbVars, begun>>)
      \/ Write(s, T) /\ Goes(s, "fetchAfter") /\ UNCHANGED inTrans
  BY <1>1, Zenon DEF Update, dbVars
<1>. QED
  BY <1>3, <1>4, <1>5

LEMMA FetchAfterInv ==
    ASSUME UpsertInv, NEW s \in Sessions, FetchAfter(s) PROVE UpsertInv'
<1>1. PICK k \in Jobs : k = job[s] /\ InPlace(k)
  BY JobOf
<1>2. k.pc = "fetchAfter" /\ UNCHANGED <<alloc, asked, handed>>
  BY <1>1 DEF FetchAfter, At
<1>3. CASE Refused(s) \/ (Fails(s) /\ UNCHANGED <<dbVars, begun>>)
  BY <1>1, <1>2, <1>3, RefusedInv
<1>4. ASSUME NEW r \in Fetched(s, job[s].rowid), UNCHANGED <<dbVars, begun>>,
             job' = [job EXCEPT ![s].pc = "readId", ![s].affected = @ + Changed(s, r)]
      PROVE  UpsertInv'
  <2>1. PICK n \in Nat : n = k.affected + Changed(s, r)
    BY DEF Changed, Jobs
  <2>. DEFINE j == [k EXCEPT !.pc = "readId", !.affected = n]
  <2>2. job' = [job EXCEPT ![s] = j]
    BY <1>1, <1>4, <2>1 DEF UpsertInv, Typed
  <2>3. /\ j \in Jobs /\ j.pc = "readId" /\ j.generated = k.generated
        /\ j.values = k.values
    BY DEF Jobs, Places
  <2>4. InPlace(j)
    BY <2>3 DEF InPlace
  <2>. HIDE DEF j
  <2>. QED
    BY <1>1, <1>2, <1>4, <2>2, <2>3, <2>4, RowStepInv
<1>. QED
  BY <1>3, <1>4 DEF FetchAfter

LEMMA ReadIdInv == ASSUME UpsertInv, NEW s \in Sessions, ReadId(s) PROVE UpsertInv'
<1>1. PICK k \in Jobs : k = job[s] /\ k.pc = "readId"
  BY JobOf DEF ReadId, At
<1>2. PICK d \in Jobs : d = RowDone(k, "next") /\ d.pc = "next" /\ d.generated = FALSE
                        /\ InPlace(d)
  BY RowDoneType
<1>3. asked' \in 0..MaxRows /\ UNCHANGED <<dbVars, alloc, history>>
  BY DEF ReadId, UpsertInv, Typed
<1>4. CASE job' = [job EXCEPT ![s] = RowDone(@, "next")]
  <2>1. job' = [job EXCEPT ![s] = d]
    BY <1>1, <1>2, <1>4 DEF UpsertInv, Typed
  <2>. QED
    BY <1>1, <1>2, <1>3, <2>1, QuietStepInv
<1>5. ASSUME NEW r \in Fetched(s, job[s].rowid),
             job' = [job EXCEPT ![s] = [RowDone(@, "next") EXCEPT !.lastId = FirstId(s, r.id)]]
      PROVE  UpsertInv'
  <2>1. r.id \in Nat
    BY ViewType, UpsertAssumption DEF Fetched, StoredRows, Ids
  <2>2. PICK first \in Nat : first = FirstId(s, r.id)
    BY <1>1, <2>1 DEF FirstId, Jobs
  <2>. DEFINE j == [d EXCEPT !.lastId = first]
  <2>3. job' = [job EXCEPT ![s] = j]
    BY <1>1, <1>2, <1>5, <2>2 DEF UpsertInv, Typed
  <2>4. j \in Jobs /\ j.pc = "next" /\ j.generated = FALSE
    BY <1>2 DEF Jobs
  <2>5. InPlace(j)
    BY <2>4 DEF InPlace
  <2>. HIDE DEF j
  <2>. QED
    BY <1>1, <1>3, <2>3, <2>4, <2>5, QuietStepInv
<1>. QED
  BY <1>4, <1>5 DEF ReadId

LEMMA DeleteInv == ASSUME UpsertInv, NEW s \in Sessions, Delete(s) PROVE UpsertInv'
<1>1. PICK k \in Jobs : k = job[s] /\ InPlace(k)
  BY JobOf
<1>2. k.pc = "delete" /\ k.values.id \in Ids /\ k.found # <<>> /\ k.found \in Seq(Nat)
      /\ UNCHANGED <<alloc, asked, handed>>
  BY <1>1 DEF Delete, At, InPlace, Jobs
<1>3. CASE Refused(s)
  BY <1>1, <1>2, <1>3, RefusedInv
<1>4. CASE ~Refused(s)
  <2>. DEFINE T == {r \in rows : r.rowid # Target(s)}
              rest == Tail(k.found)
              place == IF Len(k.found) = 1 THEN "insert" ELSE "delete"
              j == [k EXCEPT !.affected = k.affected + 1, !.found = rest, !.pc = place]
  <2>1. /\ Write(s, T) /\ UNCHANGED inTrans
        /\ job' = [job EXCEPT ![s].affected = k.affected + 1, ![s].found = rest,
                              ![s].pc = place]
    BY <1>1, <1>4 DEF Delete, UpsertInv, Typed
  <2>2. rows \in SUBSET StoredRows /\ IsFiniteSet(rows) /\ T \subseteq rows
    BY DEF UpsertInv, Typed
  <2>3. T \in SUBSET StoredRows /\ IsFiniteSet(T)
    BY <2>2, FS_Subset
  <2>. HIDE DEF T
  <2>4. rest \in Seq(Nat) /\ (Len(k.found) # 1 => rest # <<>>)
    <3>1. rest \in Seq(Nat) /\ Len(rest) = Len(k.found) - 1
      BY <1>2, HeadTailProperties
    <3>2. Len(k.found) \in Nat
      BY <1>2
    <3>3. Len(<<>>) = 0
      BY EmptySeq
    <3>. HIDE DEF rest
    <3>4. rest = <<>> => Len(rest) = 0
      BY <3>3, Zenon
    <3>. QED
      BY <3>1, <3>2, <3>4
  <2>5. place \in Places /\ place \in {"insert", "delete"} /\ (place = "delete" => rest # <<>>)
        /\ k.affected + 1 \in Nat
    BY <2>4 DEF Places, Jobs
  <2>. HIDE DEF rest, place
  <2>6. job' = [job EXCEPT ![s] = j]
    BY <1>1, <2>1 DEF UpsertInv, Typed
  <2>7. /\ j \in Jobs /\ j.pc = place /\ j.found = rest /\ j.generated = k.generated
        /\ j.values = k.values
    BY <2>4, <2>5 DEF Jobs
  <2>8. InPlace(j)
    BY <1>2, <2>5, <2>7 DEF InPlace
  <2>. HIDE DEF j
  <2>9. /\ rows' = T /\ rows' \in SUBSET StoredRows /\ IsFiniteSet(rows')
        /\ saved' \in SUBSET StoredRows /\ IsFiniteSet(saved')
        /\ writer' \in Sessions \cup {NoSession} /\ inTrans' \in [Sessions -> BOOLEAN]
        /\ begun' \in [Sessions -> Begun] /\ begun'[s] = begun[s]
        /\ \A t \in Sessions : begun'[t] = begun[t] \/ begun'[t] = Disturbed
        /\ saved' = saved \/ saved' = rows
    BY <2>1, <2>3, WriteStep
  <2>10. \A r \in rows' \cup saved' : \E q \in rows \cup saved : q.id = r.id
    BY <2>2, <2>9
  <2>11. j.generated /\ begun'[s] # Disturbed => alloc < j.values.id
    BY <1>1, <2>7, <2>9, JobOf DEF Ahead
  <2>12. asked' \in 0..MaxRows /\ job[s].pc # "record"
    BY <1>1, <1>2 DEF UpsertInv, Typed
  <2>. QED
    BY <1>2, <2>6, <2>7, <2>8, <2>9, <2>10, <2>11, <2>12, SessionStepInv
<1>. QED
  BY <1>3, <1>4

LEMMA NextUpsertInv == UpsertInv /\ [Next]_vars => UpsertInv'
<1>. SUFFICES ASSUME UpsertInv, [Next]_vars PROVE UpsertInv'
  OBVIOUS
<1>1. CASE UNCHANGED vars
  BY <1>1 DEF vars, dbVars, history, UpsertInv, Typed, AllocationCoversTable, At,
              InPlace, Ahead
<1>2. ASSUME NEW s \in Sessions, RowStep(s) PROVE UpsertInv'
  BY <1>2, NextRowInv, ReadMaxInv, ReadAllocationInv, InsertInv, RecordInv, FindInv,
     FetchBeforeInv, UpdateInv, FetchAfterInv, ReadIdInv, DeleteInv DEF RowStep
<1>3. ASSUME NEW s \in Sessions,
             Begin(s) \/ Commit(s) \/ Rollback(s) \/ Ask(s) \/ Answer(s)
      PROVE  UpsertInv'
  BY <1>3, TransactionInv, AskInv, AnswerInv
<1>. QED
  BY <1>1, <1>2, <1>3 DEF Next

-----------------------------------------------------------------------------
(* The theorems.                                                           *)

LEMMA UpsertInvariance == Spec => []UpsertInv
BY InitUpsertInv, NextUpsertInv, PTL DEF Spec

\* Every variable keeps its type, whatever the statements and their failures:
\* rows stay rows of the table and no id passes MaxId (upsert.go).
THEOREM RowsHaveTheirTypes == Spec => []TypeOK
<1>1. UpsertInv => TypeOK
  <2>. SUFFICES ASSUME UpsertInv PROVE TypeOK
    OBVIOUS
  <2>1. \A s \in Sessions : begun[s] = Disturbed \/
            (begun[s].table \subseteq StoredRows /\ begun[s].affected \in Nat)
    BY DEF UpsertInv, Typed, Begun
  <2>. QED
    BY <2>1 DEF UpsertInv, Typed, TypeOK
<1>. QED
  BY <1>1, UpsertInvariance, PTL

\* No id of a statement is in the table without the allocation map knowing of
\* it, except between an INSERT and the bookkeeping that follows it
\* (recordMySQLAutoIncrementAllocation).
THEOREM AllocationIsAhead == Spec => []AllocationCoversTable
<1>1. UpsertInv => AllocationCoversTable
  BY DEF UpsertInv
<1>. QED
  BY <1>1, UpsertInvariance, PTL

\* A value that nextMySQLAutoIncrementValue generates was never generated
\* before, unless another session moved the allocation map or the table while
\* the row was at work.
THEOREM GeneratedOnce == Spec => []FreshUnlessRaced
<1>1. UpsertInv => FreshUnlessRaced
  <2>. SUFFICES ASSUME UpsertInv, NEW s \in Sessions, At(s, "record"), job[s].generated,
                       Undisturbed(s), job[s].values.id \in handed
                PROVE  FALSE
    BY DEF FreshUnlessRaced
  <2>1. alloc < job[s].values.id /\ job[s].values.id <= alloc
    BY DEF UpsertInv, Ahead, Undisturbed
  <2>2. MaxId \in Nat
    BY UpsertAssumption
  <2>3. alloc \in 0..MaxId /\ job[s].values.id \in 1..MaxId
    BY DEF UpsertInv, Typed, Ids
  <2>. QED
    BY <2>1, <2>2, <2>3
<1>. QED
  BY <1>1, UpsertInvariance, PTL

-----------------------------------------------------------------------------
(* What a row comes to: it does what it does in MySQL.                     *)

\* A row without its rowid, as clients know it.
Bare(r) == [id |-> r.id, code |-> r.code, ref |-> r.ref]

\* Nothing is done yet for the row that job j began with b; V is what it reads.
Untouched(j, b, V) == V = b.table /\ j.affected = b.affected

\* The rows of the first keys that findConflictRowIDs has looked at.
FoundSoFar(j, b) ==
    IF j.key = 1 THEN j.found = <<>>
    ELSE \/ j.found = <<>> /\ \A r \in b.table : ~Collide(1, r, j.values)
         \/ \E r \in b.table : Collide(1, r, j.values) /\ j.found = <<r.rowid>>

\* The row that findConflictRowID finds.
IsFirst(r, j, b) ==
    /\ r \in b.table
    /\ \E k \in DOMAIN Keys :
          /\ Collide(k, r, j.values)
          /\ \A i \in 1..k - 1, q \in b.table : ~Collide(i, q, j.values)

\* REPLACE has deleted the rows in its way but for those of the rowids it has
\* still to delete, and has counted them.
InWay(j, b) == {r \in Contents(b.table) : Clash(r, j.values)}
Clearing(j, b, V) ==
    /\ V = {r \in b.table : ~Clash(r, j.values) \/ r.rowid \in Range(j.found)}
    /\ \A i, k \in DOMAIN j.found : i # k => j.found[i] # j.found[k]
    /\ \A i \in DOMAIN j.found :
          \E r \in b.table : Clash(r, j.values) /\ r.rowid = j.found[i]
    /\ j.affected + Len(j.found) = b.affected + Cardinality(InWay(j, b))
    /\ IsFiniteSet(InWay(j, b))

\* What MySQL does with the row is done.
RowIsDone(j, b, V) ==
    /\ Contents(V) = MySQLRow(j, b.table).table
    /\ j.affected = b.affected + MySQLRow(j, b.table).count

\* What a row that fails leaves is what KeptByFailure says.
Kept(j, b, V) ==
    \/ Contents(V) = Contents(b.table)
    \/ j.kind = "upsert" /\ Contents(V) = MySQLRow(j, b.table).table
    \/ /\ j.kind = "replace" /\ Contents(V) \subseteq Contents(b.table)
       /\ \A r \in Contents(b.table) \ Contents(V) : Clash(r, j.values)

\* Where a row is on its way, of which nobody has changed anything else.
OnItsWay(j, b, V) ==
    /\ \/ j.pc \in {"readMax", "readAllocation"}
       \/ j.pc = "insert" /\ j.kind # "replace"
       => Untouched(j, b, V) /\ j.key = 1 /\ j.found = <<>>
    /\ j.pc = "find" =>
          /\ Untouched(j, b, V) /\ FoundSoFar(j, b)
          /\ \/ j.kind = "replace"
             \/ j.kind = "upsert" /\ Clashes(b.table, j.values) # {}
    /\ j.pc = "delete" => j.kind = "replace"
    /\ j.pc \in {"insert", "delete"} /\ j.kind = "replace" => Clearing(j, b, V)
    /\ j.pc = "insert" => j.found = <<>>
    /\ j.pc \in {"fetchBefore", "update"} =>
          /\ j.kind = "upsert" /\ Untouched(j, b, V)
          /\ \E r \in b.table :
                /\ IsFirst(r, j, b)
                /\ j.pc = "fetchBefore" => j.found # <<>> /\ Head(j.found) = r.rowid
                /\ j.pc = "update" => j.before = r /\ j.rowid = r.rowid
    /\ j.pc = "fetchAfter" =>
          /\ j.kind = "upsert" /\ j.affected = b.affected
          /\ \E r \in b.table :
                /\ IsFirst(r, j, b) /\ j.before = r /\ j.rowid = r.rowid
                /\ V = (b.table \ {r}) \cup {Assigned(j.assign, r, j.values)}
    /\ \/ j.pc \in {"record", "readId"}
       \/ j.pc = "next" /\ j.values # NoValues
       => RowIsDone(j, b, V)
    /\ j.pc = "failed" => Kept(j, b, V)

WayInv ==
    /\ Keyed(rows) /\ Keyed(saved)
    /\ \A s \in Sessions : begun[s] # Disturbed =>
          Keyed(begun[s].table) /\ OnItsWay(job[s], begun[s], View(s))

\* The keys of the table, spelled out.
LEMMA CollideIs ==
    ASSUME NEW r, NEW v
    PROVE  /\ DOMAIN Keys = {1, 2} /\ Len(Keys) = 2
           /\ Collide(1, r, v) <=> /\ v.id # Null /\ r.id = v.id
                                   /\ v.code # Null /\ r.code = v.code
           /\ Collide(2, r, v) <=> v.ref # Null /\ r.ref = v.ref
           /\ Clash(r, v) <=> Collide(1, r, v) \/ Collide(2, r, v)
<1>1. DOMAIN Keys = {1, 2} /\ Len(Keys) = 2 /\ Keys[1] = {"id", "code"} /\ Keys[2] = {"ref"}
  BY DEF Keys
<1>2. /\ Collide(1, r, v) <=> /\ v.id # Null /\ r.id = v.id
                              /\ v.code # Null /\ r.code = v.code
      /\ Collide(2, r, v) <=> v.ref # Null /\ r.ref = v.ref
  BY <1>1 DEF Collide
<1>. QED
  BY <1>1, <1>2 DEF Clash

LEMMA ContentsAre == ASSUME NEW T PROVE Contents(T) = {Bare(r) : r \in T}
BY DEF Contents, Bare

LEMMA BareCollides ==
    ASSUME NEW r, NEW v
    PROVE  /\ Collide(1, Bare(r), v) <=> Collide(1, r, v)
           /\ Collide(2, Bare(r), v) <=> Collide(2, r, v)
           /\ Clash(Bare(r), v) <=> Clash(r, v)
<1>. DEFINE q == Bare(r)
<1>1. q.id = r.id /\ q.code = r.code /\ q.ref = r.ref
  BY DEF Bare
<1>. HIDE DEF q
<1>2. /\ Collide(1, q, v) <=> Collide(1, r, v)
      /\ Collide(2, q, v) <=> Collide(2, r, v)
      /\ Clash(q, v) <=> Clash(r, v)
  BY <1>1, CollideIs
<1>. QED
  BY <1>2 DEF q

\* One row at most is in the way of a key.
LEMMA OneInTheWay ==
    ASSUME NEW T, Keyed(T), NEW q \in T, NEW r \in T, NEW v, NEW k \in {1, 2},
           Collide(k, q, v), Collide(k, r, v)
    PROVE  q = r
<1>1. Clash(q, r)
  BY CollideIs
<1>. QED
  BY <1>1 DEF Keyed

\* The rows of a table differ in their columns.
LEMMA BareApart ==
    ASSUME NEW T \in SUBSET StoredRows, Keyed(T), NEW q \in T, NEW r \in T, Bare(q) = Bare(r)
    PROVE  q = r
<1>1. /\ q.id = r.id /\ q.code = r.code
      /\ r.id \in Ids /\ r.code \in Codes \cup {Implicit}
  BY DEF Bare, StoredRows
<1>2. Collide(1, q, r)
  BY <1>1, UpsertAssumption, CollideIs
<1>. QED
  BY <1>2, CollideIs DEF Keyed

\* Tables that are parts of one, or have one row more or one other.
LEMMA KeyedPart ==
    ASSUME NEW T, Keyed(T), NEW S \in SUBSET T
    PROVE  Keyed(S)
BY DEF Keyed

LEMMA ClashSymmetric == ASSUME NEW q, NEW r, Clash(q, r) PROVE Clash(r, q)
BY CollideIs

LEMMA KeyedWith ==
    ASSUME NEW T, Keyed(T), NEW n, \A r \in T : r.rowid # n.rowid /\ ~Clash(r, n)
    PROVE  Keyed(T \cup {n})
BY ClashSymmetric DEF Keyed

LEMMA StoredIs ==
    ASSUME NEW T \in SUBSET StoredRows, IsFiniteSet(T), NEW v \in Values
    PROVE  /\ \A r \in T : r.rowid # Stored(T, v).rowid
           /\ \A r \in T : Clash(r, Stored(T, v)) <=> Clash(r, v)
           /\ Bare(Stored(T, v)) = v
<1>. DEFINE f == [r \in T |-> r.rowid]
            new == Stored(T, v)
<1>1. {r.rowid : r \in T} = {f[r] : r \in T} /\ DOMAIN f = T
  OBVIOUS
<1>. HIDE DEF f
<1>2. IsFiniteSet({r.rowid : r \in T})
  BY <1>1, FiniteImage
<1>3. {r.rowid : r \in T} \in SUBSET Nat
  BY DEF StoredRows
<1>4. \A n \in {r.rowid : r \in T} : n <= Highest({r.rowid : r \in T})
  BY <1>2, <1>3, HighestOf
<1>5. Highest({r.rowid : r \in T}) \in Nat
  BY <1>2, <1>3, HighestOf
<1>6. new.rowid = Highest({r.rowid : r \in T}) + 1
      /\ new.id = v.id /\ new.code = v.code /\ new.ref = v.ref
  BY DEF Stored
<1>7. ASSUME NEW r \in T PROVE r.rowid # new.rowid
  <2>1. r.rowid \in Nat /\ r.rowid <= Highest({q.rowid : q \in T})
    BY <1>3, <1>4
  <2>. QED
    BY <1>5, <1>6, <2>1
<1>8. Bare(new) = v
  BY <1>6 DEF Bare, Values
<1>. HIDE DEF new
<1>9. \A r \in T : Clash(r, new) <=> Clash(r, v)
  BY <1>6, CollideIs
<1>. QED
  BY <1>7, <1>8, <1>9 DEF new

\* The columns of a row after an assignment.
LEMMA AssignedBare ==
    ASSUME NEW r \in StoredRows, NEW a \in Assignments, NEW v \in Values
    PROVE  /\ Bare(Assigned(a, r, v)) = Assigned(a, Bare(r), v)
           /\ Assigned(a, r, v).rowid = r.rowid
           /\ Bare(Assigned(a, r, v)) = Bare(r) <=> Assigned(a, r, v) = r
<1>1. CASE a = "none"
  BY <1>1 DEF Assigned
<1>2. CASE a = "code"
  BY <1>2 DEF Assigned, Bare, StoredRows
<1>3. CASE a = "ref"
  BY <1>3 DEF Assigned, Bare, StoredRows
<1>. QED
  BY <1>1, <1>2, <1>3 DEF Assignments

\* A table with one row more, with another row in place of one, and without
\* the rows in the way, as clients see it.
LEMMA ContentsWith ==
    ASSUME NEW T, NEW n PROVE Contents(T \cup {n}) = Contents(T) \cup {Bare(n)}
BY ContentsAre

LEMMA ContentsOtherwise ==
    ASSUME NEW T \in SUBSET StoredRows, Keyed(T), NEW r \in T, NEW n
    PROVE  Contents((T \ {r}) \cup {n}) = (Contents(T) \ {Bare(r)}) \cup {Bare(n)}
<1>1. \A q \in T : Bare(q) = Bare(r) => q = r
  BY BareApart
<1>2. {Bare(q) : q \in (T \ {r}) \cup {n}} = ({Bare(q) : q \in T} \ {Bare(r)}) \cup {Bare(n)}
  BY <1>1
<1>. QED
  BY <1>2, ContentsAre

LEMMA ContentsCleared ==
    ASSUME NEW T, NEW v
    PROVE  Contents({r \in T : ~Clash(r, v)}) = Contents(T) \ {r \in Contents(T) : Clash(r, v)}
<1>1. \A r \in T : Clash(Bare(r), v) <=> Clash(r, v)
  BY BareCollides
<1>. DEFINE S == {r \in T : ~Clash(r, v)}
<1>2. {Bare(r) : r \in S} = {Bare(r) : r \in T} \ {r \in {Bare(r) : r \in T} : Clash(r, v)}
  BY <1>1
<1>3. Contents(S) = {Bare(r) : r \in S}
  BY ContentsAre
<1>. QED
  BY <1>2, <1>3, ContentsAre DEF S

\* What MySQL does, for each kind of statement.
LEMMA ReplacedRow ==
    ASSUME NEW j, NEW b, j.kind = "replace"
    PROVE  MySQLRow(j, b.table) = [table |-> (Contents(b.table) \ InWay(j, b)) \cup {j.values},
                                   count |-> 1 + Cardinality(InWay(j, b))]
BY DEF MySQLRow, InWay

LEMMA NothingInWay ==
    ASSUME NEW j, NEW b, \A r \in b.table : ~Clash(r, j.values)
    PROVE  InWay(j, b) = {}
BY ContentsAre, BareCollides DEF InWay

LEMMA InsertedRow ==
    ASSUME NEW j, NEW b, j.kind # "replace", \A r \in b.table : ~Clash(r, j.values)
    PROVE  MySQLRow(j, b.table) = [table |-> Contents(b.table) \cup {j.values}, count |-> 1]
BY NothingInWay DEF MySQLRow, InWay

LEMMA SomethingInWay ==
    ASSUME NEW j, NEW b, NEW r \in b.table, Clash(r, j.values)
    PROVE  Bare(r) \in InWay(j, b)
BY ContentsAre, BareCollides DEF InWay

LEMMA PassedOverRow ==
    ASSUME NEW j, NEW b, j.kind = "ignore", NEW r \in b.table, Clash(r, j.values)
    PROVE  MySQLRow(j, b.table) = [table |-> Contents(b.table), count |-> 0]
BY SomethingInWay DEF MySQLRow, InWay

\* The row that MySQL updates is the one findConflictRowID finds.
LEMMA UpdatedRow ==
    ASSUME NEW j, NEW b, Keyed(b.table), NEW r \in b.table, IsFirst(r, j, b), j.kind = "upsert"
    PROVE  LET updated == Assigned(j.assign, Bare(r), j.values) IN
           MySQLRow(j, b.table) = [table |-> (Contents(b.table) \ {Bare(r)}) \cup {updated},
                                   count |-> IF updated = Bare(r) THEN 0 ELSE 2]
<1>. DEFINE v == j.values
            IsMySQLFirst(q) == \E k \in DOMAIN Keys :
                                  /\ Collide(k, q, v)
                                  /\ \A i \in 1..k - 1, p \in InWay(j, b) : ~Collide(i, p, v)
            first == CHOOSE q \in InWay(j, b) : IsMySQLFirst(q)
<1>1. PICK k \in {1, 2} : /\ Collide(k, r, v)
                          /\ \A i \in 1..k - 1, q \in b.table : ~Collide(i, q, v)
  BY CollideIs DEF IsFirst
<1>2. Bare(r) \in InWay(j, b)
  BY <1>1, CollideIs, SomethingInWay
<1>3. \A p \in InWay(j, b) : \E q \in b.table : p = Bare(q)
  BY ContentsAre DEF InWay
<1>4. IsMySQLFirst(Bare(r))
  <2>1. Collide(k, Bare(r), v)
    BY <1>1, BareCollides
  <2>2. ASSUME NEW i \in 1..k - 1, NEW p \in InWay(j, b) PROVE ~Collide(i, p, v)
    <3>1. PICK q \in b.table : p = Bare(q)
      BY <1>3
    <3>2. i = 1 /\ ~Collide(i, q, v)
      BY <1>1
    <3>. QED
      BY <3>1, <3>2, BareCollides
  <2>. QED
    BY <2>1, <2>2, CollideIs
<1>5. ASSUME NEW p \in InWay(j, b), IsMySQLFirst(p) PROVE p = Bare(r)
  <2>1. PICK q \in b.table : p = Bare(q)
    BY <1>3
  <2>2. PICK n \in {1, 2} : /\ Collide(n, p, v)
                            /\ \A i \in 1..n - 1, o \in InWay(j, b) : ~Collide(i, o, v)
    BY <1>5, CollideIs
  <2>3. Collide(n, q, v)
    BY <2>1, <2>2, BareCollides
  <2>4. ~(n < k) /\ ~(k < n)
    <3>1. n < k => n = 1 /\ k = 2 /\ 1 \in 1..k - 1
      OBVIOUS
    <3>2. k < n => k = 1 /\ n = 2 /\ 1 \in 1..n - 1
      OBVIOUS
    <3>3. Collide(k, Bare(r), v)
      BY <1>1, BareCollides
    <3>. QED
      BY <1>1, <1>2, <2>2, <2>3, <3>1, <3>2, <3>3
  <2>5. n = k
    BY <2>4
  <2>6. q = r
    BY <1>1, <2>3, <2>5, OneInTheWay
  <2>. QED
    BY <2>1, <2>6
<1>6. first = Bare(r)
  <2>. HIDE DEF IsMySQLFirst
  <2>. QED
    BY <1>2, <1>4, <1>5
<1>7. InWay(j, b) # {} /\ j.kind # "replace"
  BY <1>2
<1>. DEFINE chosen == CHOOSE q \in {p \in Contents(b.table) : Clash(p, j.values)} :
                    \E n \in DOMAIN Keys :
                       /\ Collide(n, q, j.values)
                       /\ \A i \in 1..n - 1, p \in {o \in Contents(b.table) : Clash(o, j.values)} :
                             ~Collide(i, p, j.values)
<1>8. chosen = Bare(r)
  BY <1>6 DEF InWay
<1>. QED
  BY <1>7, <1>8 DEF MySQLRow, InWay

-----------------------------------------------------------------------------
(* Steps of one session, and what they are to the others.                  *)

\* A session in the middle of a row reads what it read before, or has been
\* disturbed.
LeavesOthers(s) ==
    \A t \in Sessions \ {s} :
        /\ job'[t] = job[t]
        /\ \/ begun'[t] = Disturbed
           \/ begun'[t] = begun[t] /\ (job[t].pc = "idle" \/ View(t)' = View(t))

\* The way of a row left alone.
LEMMA WayOf ==
    ASSUME UpsertInv, WayInv, NEW s \in Sessions
    PROVE  /\ job[s] \in Jobs /\ begun[s] \in Begun
           /\ View(s) \in SUBSET StoredRows /\ IsFiniteSet(View(s)) /\ Keyed(View(s))
           /\ begun[s] # Disturbed =>
                 /\ begun[s].table \in SUBSET StoredRows /\ begun[s].affected \in Nat
                 /\ Keyed(begun[s].table) /\ OnItsWay(job[s], begun[s], View(s))
<1>1. job[s] \in Jobs /\ begun[s] \in Begun
  BY DEF UpsertInv, Typed
<1>2. View(s) \in {rows, saved}
  BY DEF View
<1>3. View(s) \in SUBSET StoredRows /\ IsFiniteSet(View(s)) /\ Keyed(View(s))
  BY <1>2 DEF UpsertInv, Typed, WayInv
<1>4. begun[s] # Disturbed => begun[s].table \in SUBSET StoredRows /\ begun[s].affected \in Nat
  BY <1>1 DEF Begun
<1>. QED
  BY <1>1, <1>3, <1>4 DEF WayInv

LEMMA WayStep ==
    ASSUME WayInv, NEW s \in Sessions, LeavesOthers(s), Keyed(rows'), Keyed(saved'),
           begun'[s] # Disturbed =>
               Keyed(begun'[s].table) /\ OnItsWay(job'[s], begun'[s], View(s)')
    PROVE  WayInv'
<1>1. ASSUME NEW t \in Sessions, begun'[t] # Disturbed
      PROVE  Keyed(begun'[t].table) /\ OnItsWay(job'[t], begun'[t], View(t)')
  <2>1. CASE t = s
    BY <1>1, <2>1
  <2>2. CASE t # s
    <3>1. /\ job'[t] = job[t] /\ begun'[t] = begun[t]
          /\ job[t].pc = "idle" \/ View(t)' = View(t)
      BY <1>1, <2>2 DEF LeavesOthers
    <3>2. Keyed(begun[t].table) /\ OnItsWay(job[t], begun[t], View(t))
      BY <1>1, <3>1 DEF WayInv
    <3>3. CASE View(t)' = View(t)
      BY <3>1, <3>2, <3>3
    <3>4. CASE job[t].pc = "idle"
      BY <3>1, <3>2, <3>4 DEF OnItsWay
    <3>. QED
      BY <3>1, <3>3, <3>4
  <2>. QED
    BY <2>1, <2>2
<1>2. Keyed(rows)' /\ Keyed(saved)'
  BY DEF Keyed
<1>3. \A t \in Sessions : (Keyed(begun[t].table) <=> Keyed(begun[t].table))'
  OBVIOUS
<1>. QED
  BY <1>1, <1>2 DEF WayInv, Keyed, OnItsWay, View

\* A step that changes nothing but the statement of s.
LEMMA QuietWay ==
    ASSUME UpsertInv, WayInv, NEW s \in Sessions, NEW j, job' = [job EXCEPT ![s] = j],
           UNCHANGED <<rows, saved, writer, begun>>,
           begun[s] # Disturbed => OnItsWay(j, begun[s], View(s))
    PROVE  WayInv'
<1>1. job'[s] = j /\ \A t \in Sessions \ {s} : job'[t] = job[t]
  BY DEF UpsertInv, Typed
<1>2. \A t \in Sessions : View(t)' = View(t)
  BY DEF View
<1>3. LeavesOthers(s)
  BY <1>1, <1>2 DEF LeavesOthers
<1>4. Keyed(rows') /\ Keyed(saved') /\ (begun[s] # Disturbed => Keyed(begun[s].table))
  BY DEF WayInv
<1>. QED
  BY <1>1, <1>2, <1>3, <1>4, WayStep

\* A write.
LEMMA WriteWay ==
    ASSUME UpsertInv, WayInv, NEW s \in Sessions, NEW T, Write(s, T), CanWrite(s),
           NEW j, job' = [job EXCEPT ![s] = j], Keyed(T),
           begun[s] # Disturbed => OnItsWay(j, begun[s], T)
    PROVE  WayInv'
<1>1. job'[s] = j /\ \A t \in Sessions \ {s} : job'[t] = job[t]
  BY DEF UpsertInv, Typed
<1>2. rows' = T /\ saved' \in {saved, rows} /\ begun'[s] = begun[s]
  BY DEF Write, Disturbs, UpsertInv, Typed
<1>3. View(s)' = T
  BY <1>2, UpsertAssumption DEF Write, CanWrite, View
<1>4. ASSUME NEW t \in Sessions \ {s}
      PROVE  \/ begun'[t] = Disturbed
             \/ begun'[t] = begun[t] /\ (job[t].pc = "idle" \/ View(t)' = View(t))
  <2>1. CASE T # rows
    BY <2>1 DEF Write, Disturbs
  <2>2. CASE T = rows
    <3>1. begun' = begun /\ rows' = rows
      BY <2>2 DEF Write
    <3>2. View(t)' = View(t)
      BY <3>1, UpsertAssumption DEF Write, CanWrite, View
    <3>. QED
      BY <3>1, <3>2
  <2>. QED
    BY <2>1, <2>2
<1>5. LeavesOthers(s)
  BY <1>1, <1>4 DEF LeavesOthers
<1>6. Keyed(rows') /\ Keyed(saved') /\ (begun[s] # Disturbed => Keyed(begun[s].table))
  BY <1>2 DEF WayInv
<1>. QED
  BY <1>1, <1>2, <1>3, <1>5, <1>6, WayStep

\* A row keeps its kind, values and count to its end.
LEMMA RowDoneKeeps ==
    ASSUME NEW j \in Jobs, NEW place
    PROVE  LET d == RowDone(j, place) IN
           /\ d.pc = place /\ d.kind = j.kind /\ d.assign = j.assign
           /\ d.values = j.values /\ d.affected = j.affected
BY DEF RowDone, Jobs

LEMMA SameRow ==
    ASSUME NEW j, NEW d, d.kind = j.kind, d.assign = j.assign, d.values = j.values,
           d.affected = j.affected, NEW b, NEW V
    PROVE  /\ MySQLRow(d, b.table) = MySQLRow(j, b.table)
           /\ RowIsDone(j, b, V) => RowIsDone(d, b, V)
           /\ Kept(j, b, V) => Kept(d, b, V)
<1>1. MySQLRow(d, b.table) = MySQLRow(j, b.table)
  BY DEF MySQLRow
<1>. QED
  BY <1>1 DEF RowIsDone, Kept

\* A row that fails, and one that is done with, go on from what they came to.
LEMMA FailsWay ==
    ASSUME UpsertInv, WayInv, NEW s \in Sessions, Fails(s),
           UNCHANGED <<rows, saved, writer, begun>>,
           begun[s] # Disturbed => Kept(job[s], begun[s], View(s))
    PROVE  WayInv'
<1>. DEFINE d == RowDone(job[s], "failed")
<1>1. /\ d.pc = "failed" /\ d.kind = job[s].kind /\ d.assign = job[s].assign
      /\ d.values = job[s].values /\ d.affected = job[s].affected
  BY WayOf, RowDoneKeeps
<1>2. job' = [job EXCEPT ![s] = d]
  BY DEF Fails
<1>. HIDE DEF d
<1>3. begun[s] # Disturbed => Kept(d, begun[s], View(s))
  BY <1>1, SameRow
<1>4. begun[s] # Disturbed => OnItsWay(d, begun[s], View(s))
  BY <1>1, <1>3 DEF OnItsWay
<1>. QED
  BY <1>2, <1>4, QuietWay

LEMMA DoneWay ==
    ASSUME UpsertInv, WayInv, NEW s \in Sessions, NEW d,
           d.pc = "next", d.kind = job[s].kind, d.assign = job[s].assign,
           d.values = job[s].values, d.affected = job[s].affected,
           job' = [job EXCEPT ![s] = d], UNCHANGED <<rows, saved, writer, begun>>,
           begun[s] # Disturbed => RowIsDone(job[s], begun[s], View(s))
    PROVE  WayInv'
<1>1. begun[s] # Disturbed => RowIsDone(d, begun[s], View(s))
  BY SameRow
<1>2. begun[s] # Disturbed => OnItsWay(d, begun[s], View(s))
  BY <1>1 DEF OnItsWay
<1>. QED
  BY <1>2, QuietWay

\* What a row leaves that fails before it changes anything, or while REPLACE
\* clears its way.
LEMMA KeptUntouched == ASSUME NEW j, NEW b, NEW V, Untouched(j, b, V) PROVE Kept(j, b, V)
BY DEF Untouched, Kept

LEMMA KeptCleared ==
    ASSUME NEW j, NEW b, NEW V, j.kind = "replace", Clearing(j, b, V)
    PROVE  Kept(j, b, V)
<1>1. V \subseteq b.table /\ \A r \in b.table \ V : Clash(r, j.values)
  BY DEF Clearing
<1>2. Contents(V) \subseteq Contents(b.table)
  BY <1>1, ContentsAre
<1>3. ASSUME NEW p \in Contents(b.table) \ Contents(V) PROVE Clash(p, j.values)
  <2>1. PICK r \in b.table : p = Bare(r)
    BY ContentsAre
  <2>2. r \notin V
    BY <1>3, <2>1, ContentsAre
  <2>. QED
    BY <1>1, <2>1, <2>2, BareCollides
<1>. QED
  BY <1>2, <1>3 DEF Kept

\* Transactions, and the start and the end of a statement.
LEMMA TransactionWay ==
    ASSUME UpsertInv, WayInv, NEW s \in Sessions, Begin(s) \/ Commit(s) \/ Rollback(s)
    PROVE  WayInv'
<1>1. job[s].pc = "idle" /\ job' = job
  BY DEF Begin, Commit, Rollback, End
<1>2. CASE UNCHANGED <<rows, saved, writer, begun>>
  <2>1. job' = [job EXCEPT ![s] = job[s]]
    BY <1>1 DEF UpsertInv, Typed
  <2>2. begun[s] # Disturbed => OnItsWay(job[s], begun[s], View(s))
    BY WayOf
  <2>. QED
    BY <1>2, <2>1, <2>2, QuietWay
<1>3. CASE Disturbs(s) /\ rows' \in {rows, saved} /\ saved' = {}
  <2>1. begun'[s] = begun[s] /\ \A t \in Sessions \ {s} :
           begun'[t] = Disturbed \/ (begun'[t] = begun[t] /\ job[t].pc = "idle")
    BY <1>3 DEF Disturbs, UpsertInv, Typed
  <2>2. LeavesOthers(s)
    BY <1>1, <2>1 DEF LeavesOthers
  <2>3. Keyed(rows') /\ Keyed(saved')
    BY <1>3 DEF WayInv, Keyed
  <2>4. begun[s] # Disturbed => Keyed(begun[s].table)
    BY WayOf
  <2>5. OnItsWay(job'[s], begun'[s], View(s)')
    BY <1>1 DEF OnItsWay
  <2>. QED
    BY <2>1, <2>2, <2>3, <2>4, <2>5, WayStep
<1>. QED
  BY <1>2, <1>3 DEF Begin, Commit, Rollback, End, history

LEMMA AskWay == ASSUME UpsertInv, WayInv, NEW s \in Sessions, Ask(s) PROVE WayInv'
<1>1. PICK kind \in Kinds, n \in 1..(MaxRows - asked), a \in Assignments :
          job' = [job EXCEPT ![s] = [NoJob EXCEPT !.pc = "next", !.kind = kind,
                                                  !.assign = a, !.left = n]]
  BY DEF Ask
<1>. DEFINE j == [NoJob EXCEPT !.pc = "next", !.kind = kind, !.assign = a, !.left = n]
<1>2. j.pc = "next" /\ j.values = NoValues
  BY DEF NoJob
<1>3. job' = [job EXCEPT ![s] = j] /\ UNCHANGED <<rows, saved, writer, begun>>
  BY <1>1 DEF Ask, dbVars, history
<1>. HIDE DEF j
<1>4. begun[s] # Disturbed => OnItsWay(j, begun[s], View(s))
  BY <1>2 DEF OnItsWay
<1>. QED
  BY <1>3, <1>4, QuietWay

LEMMA AnswerWay == ASSUME UpsertInv, WayInv, NEW s \in Sessions, Answer(s) PROVE WayInv'
<1>1. /\ job'[s] = NoJob /\ \A t \in Sessions \ {s} : job'[t] = job[t]
      /\ begun'[s] = Nothing /\ \A t \in Sessions \ {s} : begun'[t] = begun[t]
      /\ UNCHANGED <<rows, saved, writer>>
  BY DEF Answer, dbVars, UpsertInv, Typed
<1>2. \A t \in Sessions : View(t)' = View(t)
  BY <1>1 DEF View
<1>3. LeavesOthers(s)
  BY <1>1, <1>2 DEF LeavesOthers
<1>4. Keyed(rows') /\ Keyed(saved') /\ Keyed(Nothing.table)
  BY <1>1 DEF WayInv, Keyed, Nothing
<1>5. NoJob.pc = "idle"
  BY DEF NoJob
<1>6. OnItsWay(job'[s], begun'[s], View(s)')
  BY <1>1, <1>5 DEF OnItsWay
<1>. QED
  BY <1>1, <1>3, <1>4, <1>6, WayStep

LEMMA NextRowWay == ASSUME UpsertInv, WayInv, NEW s \in Sessions, NextRow(s) PROVE WayInv'
<1>1. PICK id \in ExplicitIds \cup {0}, code \in Codes \cup {Null, Default},
           ref \in Refs \cup {Null} :
        job' = [job EXCEPT ![s] =
                  [NoJob EXCEPT
                     !.pc = IF NoDefault(code) THEN "failed"
                            ELSE IF AsksForValue(id) THEN "readMax"
                            ELSE AfterValue(job[s].kind),
                     !.values = IF NoDefault(code) THEN NoValues
                                ELSE [id |-> id, code |-> Defaulted(code), ref |-> ref],
                     !.kind = job[s].kind, !.assign = job[s].assign,
                     !.left = job[s].left - 1,
                     !.affected = job[s].affected, !.lastId = job[s].lastId]]
  BY DEF NextRow
<1>. DEFINE place == IF NoDefault(code) THEN "failed"
                     ELSE IF AsksForValue(id) THEN "readMax"
                     ELSE AfterValue(job[s].kind)
            b == [table |-> View(s), affected |-> job[s].affected]
            j == job'[s]
<1>2. /\ j.pc = place /\ j.kind = job[s].kind /\ j.affected = job[s].affected
      /\ j.key = 1 /\ j.found = <<>>
      /\ \A t \in Sessions \ {s} : job'[t] = job[t]
  <2>1. job \in [Sessions -> Jobs]
    BY DEF UpsertInv, Typed
  <2>. QED
    BY <1>1, <2>1 DEF NoJob
<1>3. /\ place \in {"failed", "readMax", "insert", "find"}
      /\ place = "insert" => job[s].kind # "replace"
      /\ place = "find" => job[s].kind = "replace"
  BY DEF AfterValue
<1>. HIDE DEF place, j
<1>4. /\ begun'[s] = b /\ \A t \in Sessions \ {s} : begun'[t] = begun[t]
      /\ UNCHANGED <<rows, saved, writer>>
  BY DEF NextRow, dbVars, UpsertInv, Typed
<1>5. \A t \in Sessions : View(t)' = View(t)
  BY <1>4 DEF View
<1>6. LeavesOthers(s)
  BY <1>2, <1>4, <1>5 DEF LeavesOthers
<1>7. Keyed(rows') /\ Keyed(saved') /\ Keyed(b.table)
  BY <1>4, WayOf DEF WayInv
<1>8. Untouched(j, b, View(s)) /\ Kept(j, b, View(s)) /\ FoundSoFar(j, b)
  BY <1>2 DEF Untouched, Kept, FoundSoFar
<1>. HIDE DEF b
<1>9. OnItsWay(j, b, View(s))
  BY <1>2, <1>3, <1>8 DEF OnItsWay
<1>. QED
  BY <1>4, <1>5, <1>6, <1>7, <1>9, WayStep DEF j

\* The choice of an id.
LEMMA ReadMaxWay == ASSUME UpsertInv, WayInv, NEW s \in Sessions, ReadMax(s) PROVE WayInv'
<1>1. /\ begun[s] # Disturbed => /\ Untouched(job[s], begun[s], View(s))
                                 /\ job[s].key = 1 /\ job[s].found = <<>>
      /\ job[s].pc = "readMax"
  BY WayOf DEF OnItsWay, ReadMax, At
<1>2. CASE Refused(s)
  BY <1>1, <1>2, KeptUntouched, FailsWay DEF Refused, dbVars
<1>3. ASSUME job' = [job EXCEPT ![s].pc = "readAllocation",
                                ![s].base = Highest({r.id : r \in View(s)})],
             UNCHANGED <<dbVars, begun>>
      PROVE  WayInv'
  <2>. DEFINE j == [job[s] EXCEPT !.pc = "readAllocation",
                                  !.base = Highest({r.id : r \in View(s)})]
  <2>1. job' = [job EXCEPT ![s] = j]
    BY <1>3 DEF UpsertInv, Typed
  <2>2. /\ j.pc = "readAllocation" /\ j.key = job[s].key /\ j.found = job[s].found
        /\ j.affected = job[s].affected
    BY WayOf DEF Jobs
  <2>. HIDE DEF j
  <2>3. begun[s] # Disturbed => OnItsWay(j, begun[s], View(s))
    BY <1>1, <2>2 DEF OnItsWay, Untouched
  <2>. QED
    BY <1>3, <2>1, <2>3, QuietWay DEF dbVars
<1>. QED
  BY <1>2, <1>3 DEF ReadMax

LEMMA ReadAllocationWay ==
    ASSUME UpsertInv, WayInv, NEW s \in Sessions, ReadAllocation(s) PROVE WayInv'
<1>1. /\ begun[s] # Disturbed => /\ Untouched(job[s], begun[s], View(s))
                                 /\ job[s].key = 1 /\ job[s].found = <<>>
      /\ job[s].pc = "readAllocation" /\ UNCHANGED <<rows, saved, writer, begun>>
  BY WayOf DEF OnItsWay, ReadAllocation, At, dbVars, history
<1>2. CASE Fails(s)
  BY <1>1, <1>2, KeptUntouched, FailsWay
<1>3. ASSUME NEW id,
             job' = [job EXCEPT ![s].pc = AfterValue(job[s].kind),
                                ![s].generated = TRUE, ![s].values.id = id]
      PROVE  WayInv'
  <2>. DEFINE j == [job[s] EXCEPT !.pc = AfterValue(job[s].kind),
                                  !.generated = TRUE, !.values.id = id]
  <2>1. job' = [job EXCEPT ![s] = j]
    BY <1>3 DEF UpsertInv, Typed
  <2>2. /\ j.pc = AfterValue(job[s].kind) /\ j.key = job[s].key /\ j.found = job[s].found
        /\ j.affected = job[s].affected /\ j.kind = job[s].kind
    BY WayOf DEF Jobs
  <2>3. \/ j.pc = "find" /\ j.kind = "replace"
        \/ j.pc = "insert" /\ j.kind # "replace"
    BY <2>2 DEF AfterValue
  <2>. HIDE DEF j
  <2>4. begun[s] # Disturbed => OnItsWay(j, begun[s], View(s))
    BY <1>1, <2>2, <2>3 DEF OnItsWay, Untouched, FoundSoFar
  <2>. QED
    BY <1>1, <2>1, <2>4, QuietWay
<1>. QED
  BY <1>2, <1>3 DEF ReadAllocation

\* The INSERT and its bookkeeping.
LEMMA InsertWay == ASSUME UpsertInv, WayInv, NEW s \in Sessions, Insert(s) PROVE WayInv'
<1>. DEFINE b == begun[s]
            v == job[s].values
            V == View(s)
<1>1. /\ job[s].pc = "insert" /\ job[s] \in Jobs /\ v.id \in Ids /\ v \in Values
      /\ rows \in SUBSET StoredRows /\ IsFiniteSet(rows) /\ Keyed(rows)
  BY JobOf DEF Insert, At, InPlace, Jobs, UpsertInv, Typed, WayInv
<1>2. ASSUME b # Disturbed
      PROVE  /\ b.table \in SUBSET StoredRows /\ b.affected \in Nat /\ Keyed(b.table)
             /\ job[s].kind # "replace" =>
                   Untouched(job[s], b, V) /\ job[s].key = 1 /\ job[s].found = <<>>
             /\ job[s].kind = "replace" => Clearing(job[s], b, V) /\ job[s].found = <<>>
  BY <1>1, <1>2, WayOf DEF OnItsWay
<1>3. b # Disturbed => Kept(job[s], b, V)
  BY <1>2, KeptUntouched, KeptCleared
<1>4. CASE Refused(s)
  BY <1>3, <1>4, FailsWay DEF Refused, dbVars
<1>5. CASE /\ CanWrite(s)
           /\ v.code = Null \/ Clashes(rows, v) # {}
           /\ IF v.code = Null THEN Fails(s) ELSE AfterConflict(s)
           /\ UNCHANGED <<dbVars, begun>>
  <2>1. V = rows /\ UNCHANGED <<rows, saved, writer, begun>>
    BY <1>5 DEF CanWrite, View, dbVars
  <2>2. CASE Fails(s)
    BY <1>3, <2>1, <2>2, FailsWay
  <2>3. CASE v.code # Null /\ job[s].kind = "ignore"
                /\ job' = [job EXCEPT ![s] = RowDone(@, "next")]
    <3>. DEFINE d == RowDone(job[s], "next")
    <3>1. job' = [job EXCEPT ![s] = d]
      BY <2>3 DEF UpsertInv, Typed
    <3>2. /\ d.pc = "next" /\ d.kind = job[s].kind /\ d.assign = job[s].assign
          /\ d.values = job[s].values /\ d.affected = job[s].affected
      BY <1>1, RowDoneKeeps
    <3>. HIDE DEF d
    <3>3. ASSUME b # Disturbed PROVE RowIsDone(job[s], b, V)
      <4>1. V = b.table /\ job[s].affected = b.affected /\ b.affected \in Nat
        BY <1>2, <2>3, <3>3 DEF Untouched
      <4>2. PICK r \in b.table : Clash(r, v)
        BY <1>5, <2>1, <2>3, <4>1 DEF Clashes
      <4>3. MySQLRow(job[s], b.table) = [table |-> Contents(b.table), count |-> 0]
        BY <2>3, <4>2, PassedOverRow
      <4>. QED
        BY <4>1, <4>3 DEF RowIsDone
    <3>. QED
      BY <2>1, <3>1, <3>2, <3>3, DoneWay
  <2>4. CASE v.code # Null /\ job[s].kind = "upsert" /\ Goes(s, "find")
    <3>. DEFINE j == [job[s] EXCEPT !.pc = "find"]
    <3>1. job' = [job EXCEPT ![s] = j]
      BY <2>4 DEF Goes, UpsertInv, Typed
    <3>2. /\ j.pc = "find" /\ j.kind = "upsert" /\ j.values = v /\ j.key = job[s].key
          /\ j.found = job[s].found /\ j.affected = job[s].affected
      BY <1>1, <2>4 DEF Jobs
    <3>. HIDE DEF j
    <3>3. ASSUME b # Disturbed PROVE OnItsWay(j, b, V)
      <4>1. Untouched(j, b, V) /\ FoundSoFar(j, b) /\ Clashes(b.table, j.values) # {}
        BY <1>2, <1>5, <2>1, <2>4, <3>2, <3>3 DEF Untouched, FoundSoFar
      <4>. QED
        BY <3>2, <4>1 DEF OnItsWay
    <3>. QED
      BY <2>1, <3>1, <3>3, QuietWay
  <2>. QED
    BY <1>5, <2>2, <2>3, <2>4 DEF AfterConflict
<1>6. CASE /\ CanWrite(s)
           /\ v.code # Null /\ Clashes(rows, v) = {}
           /\ Write(s, rows \cup {Stored(rows, v)})
           /\ job' = [job EXCEPT ![s].pc = "record", ![s].affected = @ + 1,
                                 ![s].rowid = Stored(rows, v).rowid]
  <2>. DEFINE new == Stored(rows, v)
              T == rows \cup {new}
              j == [job[s] EXCEPT !.pc = "record", !.affected = @ + 1, !.rowid = new.rowid]
  <2>1. V = rows /\ \A r \in rows : ~Clash(r, v)
    BY <1>6 DEF CanWrite, View, Clashes
  <2>2. Keyed(T) /\ Bare(new) = v
    <3>1. \A r \in rows : r.rowid # new.rowid /\ ~Clash(r, new)
      BY <1>1, <2>1, StoredIs
    <3>2. Bare(new) = v
      BY <1>1, StoredIs
    <3>. HIDE DEF new
    <3>. QED
      BY <1>1, <3>1, <3>2, KeyedWith
  <2>3. Contents(T) = Contents(rows) \cup {v}
    BY <2>2, ContentsWith
  <2>4. job' = [job EXCEPT ![s] = j]
    BY <1>6 DEF UpsertInv, Typed
  <2>5. /\ j.pc = "record" /\ j.kind = job[s].kind /\ j.values = v
        /\ j.affected = job[s].affected + 1 /\ job[s].affected \in Nat
    BY <1>1 DEF Jobs
  <2>. HIDE DEF j, T, new
  <2>6. ASSUME b # Disturbed PROVE RowIsDone(j, b, T)
    <3>1. CASE job[s].kind = "replace"
      <4>1. rows = {r \in b.table : ~Clash(r, v)}
        <5>1. Range(job[s].found) = {}
          BY <1>2, <2>6, <3>1 DEF Range
        <5>. QED
          BY <1>2, <2>1, <2>6, <3>1, <5>1 DEF Clearing
      <4>2. InWay(j, b) = InWay(job[s], b)
        BY <2>5 DEF InWay
      <4>3. Contents(T) = (Contents(b.table) \ InWay(j, b)) \cup {v}
        BY <2>3, <2>5, <4>1, ContentsCleared DEF InWay
      <4>4. /\ job[s].affected + Len(job[s].found) = b.affected + Cardinality(InWay(j, b))
            /\ Cardinality(InWay(j, b)) \in Nat /\ Len(job[s].found) = 0
        <5>1. Len(<<>>) = 0
          OBVIOUS
        <5>. QED
          BY <1>2, <2>6, <3>1, <4>2, <5>1, FS_CardinalityType DEF Clearing
      <4>5. j.affected = b.affected + (1 + Cardinality(InWay(j, b)))
        BY <1>2, <2>5, <2>6, <4>4
      <4>6. MySQLRow(j, b.table) = [table |-> (Contents(b.table) \ InWay(j, b)) \cup {j.values},
                                   count |-> 1 + Cardinality(InWay(j, b))]
        BY <2>5, <3>1, ReplacedRow
      <4>. QED
        BY <2>5, <4>3, <4>5, <4>6 DEF RowIsDone
    <3>2. CASE job[s].kind # "replace"
      <4>1. rows = b.table /\ job[s].affected = b.affected
        BY <1>2, <2>1, <2>6, <3>2 DEF Untouched
      <4>2. MySQLRow(j, b.table) = [table |-> Contents(b.table) \cup {j.values}, count |-> 1]
        BY <2>1, <2>5, <3>2, <4>1, InsertedRow
      <4>. QED
        BY <2>3, <2>5, <4>1, <4>2 DEF RowIsDone
    <3>. QED
      BY <3>1, <3>2
  <2>7. b # Disturbed => OnItsWay(j, b, T)
    BY <2>5, <2>6 DEF OnItsWay
  <2>8. Write(s, T) /\ CanWrite(s)
    BY <1>6 DEF T, new
  <2>. QED
    BY <2>2, <2>4, <2>7, <2>8, WriteWay
<1>. QED
  BY <1>4, <1>5, <1>6 DEF Insert

LEMMA RecordWay == ASSUME UpsertInv, WayInv, NEW s \in Sessions, Record(s) PROVE WayInv'
<1>. DEFINE d == [RowDone(job[s], "next") EXCEPT
                    !.lastId = FirstId(s, IF job[s].generated THEN job[s].values.id
                                          ELSE job[s].rowid)]
<1>1. job'[s] = d /\ \A t \in Sessions \ {s} : job'[t] = job[t]
  BY DEF Record, UpsertInv, Typed
<1>2. /\ d.pc = "next" /\ d.kind = job[s].kind /\ d.assign = job[s].assign
      /\ d.values = job[s].values /\ d.affected = job[s].affected
  BY WayOf DEF RowDone, Jobs
<1>. HIDE DEF d
<1>3. /\ begun'[s] = begun[s] /\ UNCHANGED <<rows, saved, writer>>
      /\ \A t \in Sessions \ {s} : begun'[t] \in {begun[t], Disturbed}
  BY DEF Record, Disturbs, dbVars, UpsertInv, Typed
<1>4. \A t \in Sessions : View(t)' = View(t)
  BY <1>3 DEF View
<1>5. LeavesOthers(s)
  BY <1>1, <1>3, <1>4 DEF LeavesOthers
<1>6. ASSUME begun[s] # Disturbed PROVE OnItsWay(d, begun[s], View(s))
  <2>1. RowIsDone(job[s], begun[s], View(s))
    BY <1>6, WayOf DEF Record, At, OnItsWay
  <2>2. RowIsDone(d, begun[s], View(s))
    BY <1>2, <2>1, SameRow
  <2>. QED
    BY <1>2, <2>2 DEF OnItsWay
<1>7. Keyed(rows') /\ Keyed(saved') /\ (begun[s] # Disturbed => Keyed(begun[s].table))
  BY <1>3 DEF WayInv
<1>. QED
  BY <1>1, <1>3, <1>4, <1>5, <1>6, <1>7, WayStep

\* All rows in the way are found, each once, the first of them first.
AllFound(j, b) ==
    /\ \A i, k \in DOMAIN j.found : i # k => j.found[i] # j.found[k]
    /\ \A i \in DOMAIN j.found :
          \E r \in b.table : Clash(r, j.values) /\ r.rowid = j.found[i]
    /\ \A r \in b.table : Clash(r, j.values) => r.rowid \in Range(j.found)
    /\ IsFiniteSet(InWay(j, b)) /\ Len(j.found) = Cardinality(InWay(j, b))
    /\ j.found # <<>> => \E r \in b.table : IsFirst(r, j, b) /\ Head(j.found) = r.rowid

LEMMA NoneFound ==
    ASSUME NEW j, NEW b, j.found = <<>>, \A r \in b.table : ~Clash(r, j.values)
    PROVE  AllFound(j, b)
<1>1. InWay(j, b) = {}
  BY NothingInWay
<1>2. IsFiniteSet(InWay(j, b)) /\ Cardinality(InWay(j, b)) = 0
  BY <1>1, FS_EmptySet
<1>3. Len(j.found) = 0 /\ DOMAIN j.found = {}
  OBVIOUS
<1>. QED
  BY <1>2, <1>3 DEF AllFound

LEMMA OneFound ==
    ASSUME NEW j, NEW b, NEW r \in b.table, j.found = <<r.rowid>>, IsFirst(r, j, b),
           Clash(r, j.values), \A q \in b.table : Clash(q, j.values) => q = r
    PROVE  AllFound(j, b)
<1>1. InWay(j, b) = {Bare(r)}
  <2>1. \A p \in Contents(b.table) : Clash(p, j.values) => p = Bare(r)
    BY ContentsAre, BareCollides
  <2>. QED
    BY <2>1, SomethingInWay DEF InWay
<1>2. IsFiniteSet(InWay(j, b)) /\ Cardinality(InWay(j, b)) = 1
  BY <1>1, FS_Singleton
<1>3. /\ Len(j.found) = 1 /\ DOMAIN j.found = {1} /\ j.found[1] = r.rowid
      /\ Head(j.found) = r.rowid
  OBVIOUS
<1>4. r.rowid \in Range(j.found)
  BY <1>3 DEF Range
<1>. QED
  BY <1>2, <1>3, <1>4 DEF AllFound

LEMMA TwoFound ==
    ASSUME NEW j, NEW b, b.table \in SUBSET StoredRows, Keyed(b.table),
           NEW q \in b.table, NEW r \in b.table, q # r,
           j.found = Append(<<q.rowid>>, r.rowid), IsFirst(q, j, b),
           Clash(q, j.values), Clash(r, j.values),
           \A p \in b.table : Clash(p, j.values) => p \in {q, r}
    PROVE  AllFound(j, b)
<1>1. Bare(q) # Bare(r) /\ q.rowid # r.rowid
  BY BareApart DEF Keyed
<1>2. InWay(j, b) = {Bare(q), Bare(r)}
  <2>1. \A p \in Contents(b.table) : Clash(p, j.values) => p \in {Bare(q), Bare(r)}
    BY ContentsAre, BareCollides
  <2>2. Bare(q) \in InWay(j, b) /\ Bare(r) \in InWay(j, b)
    BY SomethingInWay
  <2>. QED
    BY <2>1, <2>2 DEF InWay
<1>3. IsFiniteSet(InWay(j, b)) /\ Cardinality(InWay(j, b)) = 2
  <2>. DEFINE S == {Bare(q)}
  <2>1. IsFiniteSet(S) /\ Cardinality(S) = 1 /\ Bare(r) \notin S
    BY <1>1, FS_Singleton
  <2>2. InWay(j, b) = S \cup {Bare(r)}
    BY <1>2
  <2>. HIDE DEF S
  <2>. QED
    BY <2>1, <2>2, FS_AddElement
<1>4. /\ Len(j.found) = 2 /\ DOMAIN j.found = {1, 2}
      /\ j.found[1] = q.rowid /\ j.found[2] = r.rowid /\ Head(j.found) = q.rowid
  <2>1. q.rowid \in Nat /\ r.rowid \in Nat
    BY DEF StoredRows
  <2>2. /\ <<q.rowid>> \in Seq(Nat) /\ Len(<<q.rowid>>) = 1 /\ <<q.rowid>>[1] = q.rowid
    BY <2>1
  <2>3. /\ j.found \in Seq(Nat) /\ Len(j.found) = 2
        /\ j.found[1] = q.rowid /\ j.found[2] = r.rowid
    BY <2>1, <2>2, AppendProperties
  <2>4. DOMAIN j.found = 1..2 /\ 1..2 = {1, 2}
    BY <2>3, LenProperties
  <2>5. j.found # <<>>
    BY <2>3
  <2>. QED
    BY <2>3, <2>4, <2>5, HeadTailProperties
<1>5. q.rowid \in Range(j.found) /\ r.rowid \in Range(j.found)
  BY <1>4 DEF Range
<1>. QED
  BY <1>1, <1>3, <1>4, <1>5 DEF AllFound

\* The rowids that one SELECT of findConflictRowIDs finds.
Selected(k, T, v) == {r.rowid : r \in {q \in T : Collide(k, q, v)}}
Extended(found, M) == IF M \subseteq Range(found) THEN found
                      ELSE Append(found, CHOOSE id \in M : TRUE)

LEMMA SelectedIs ==
    ASSUME NEW T, Keyed(T), NEW k \in {1, 2}, NEW v
    PROVE  \/ /\ Selected(k, T, v) = {} /\ \A r \in T : ~Collide(k, r, v)
              /\ \A found : Extended(found, Selected(k, T, v)) = found
           \/ \E r \in T : /\ Collide(k, r, v) /\ Selected(k, T, v) = {r.rowid}
                           /\ \A found : Extended(found, Selected(k, T, v)) =
                                 IF r.rowid \in Range(found) THEN found
                                 ELSE Append(found, r.rowid)
<1>1. CASE \A r \in T : ~Collide(k, r, v)
  BY <1>1 DEF Selected, Extended
<1>2. ASSUME NEW r \in T, Collide(k, r, v)
      PROVE  /\ Selected(k, T, v) = {r.rowid}
             /\ \A found : Extended(found, Selected(k, T, v)) =
                   IF r.rowid \in Range(found) THEN found ELSE Append(found, r.rowid)
  <2>1. \A q \in T : Collide(k, q, v) => q = r
    BY <1>2, OneInTheWay
  <2>2. Selected(k, T, v) = {r.rowid}
    BY <1>2, <2>1 DEF Selected
  <2>3. (CHOOSE id \in {r.rowid} : TRUE) = r.rowid
    OBVIOUS
  <2>. QED
    BY <2>2, <2>3 DEF Extended
<1>. QED
  BY <1>1, <1>2

\* After the second key everything in the way is found.
LEMMA BothKeysFind ==
    ASSUME NEW j, NEW d, NEW b, b.table \in SUBSET StoredRows, Keyed(b.table),
           FoundSoFar(j, b), j.key = 2, d.values = j.values,
           d.found = Extended(j.found, Selected(2, b.table, j.values))
    PROVE  AllFound(d, b)
<1>. DEFINE v == j.values
            B == b.table
<1>1. \A r \in B : Clash(r, v) <=> Collide(1, r, v) \/ Collide(2, r, v)
  BY CollideIs
<1>2. \A r \in B : Collide(1, r, v) => IsFirst(r, d, b)
  BY CollideIs DEF IsFirst
<1>3. \A r \in B : Collide(2, r, v) /\ (\A q \in B : ~Collide(1, q, v)) => IsFirst(r, d, b)
  <2>1. \A i \in 1..2 - 1 : i = 1
    OBVIOUS
  <2>. QED
    BY <2>1, CollideIs DEF IsFirst
<1>4. CASE j.found = <<>> /\ \A r \in B : ~Collide(1, r, v)
  <2>1. CASE d.found = j.found /\ \A r \in B : ~Collide(2, r, v)
    BY <1>1, <1>4, <2>1, NoneFound
  <2>2. ASSUME NEW r \in B, Collide(2, r, v),
               d.found = IF r.rowid \in Range(j.found) THEN j.found ELSE Append(j.found, r.rowid)
        PROVE  AllFound(d, b)
    <3>1. Range(j.found) = {}
      BY <1>4 DEF Range
    <3>2. d.found = <<r.rowid>>
      BY <1>4, <2>2, <3>1
    <3>3. \A q \in B : Clash(q, v) => q = r
      BY <1>1, <1>4, <2>2, OneInTheWay
    <3>. QED
      BY <1>1, <1>3, <1>4, <2>2, <3>2, <3>3, OneFound
  <2>. QED
    BY <2>1, <2>2, SelectedIs
<1>5. ASSUME NEW q \in B, Collide(1, q, v), j.found = <<q.rowid>>
      PROVE  AllFound(d, b)
  <2>1. Range(j.found) = {q.rowid}
    <3>1. DOMAIN j.found = {1} /\ j.found[1] = q.rowid
      BY <1>5
    <3>. QED
      BY <3>1 DEF Range
  <2>2. IsFirst(q, d, b) /\ \A p \in B : Collide(1, p, v) => p = q
    BY <1>2, <1>5, OneInTheWay
  <2>3. CASE d.found = j.found /\ \A r \in B : ~Collide(2, r, v)
    BY <1>1, <1>5, <2>2, <2>3, OneFound
  <2>4. ASSUME NEW r \in B, Collide(2, r, v),
               d.found = IF r.rowid \in Range(j.found) THEN j.found ELSE Append(j.found, r.rowid)
        PROVE  AllFound(d, b)
    <3>1. \A p \in B : Clash(p, v) => p \in {q, r}
      BY <1>1, <2>2, <2>4, OneInTheWay
    <3>2. CASE r = q
      BY <1>1, <1>5, <2>1, <2>2, <2>4, <3>1, <3>2, OneFound
    <3>3. CASE r # q
      <4>1. r.rowid # q.rowid
        BY <3>3 DEF Keyed
      <4>2. d.found = Append(<<q.rowid>>, r.rowid)
        BY <1>5, <2>1, <2>4, <4>1
      <4>. QED
        BY <1>1, <1>5, <2>2, <2>4, <3>1, <3>3, <4>2, TwoFound
    <3>. QED
      BY <3>2, <3>3
  <2>. QED
    BY <2>3, <2>4, SelectedIs
<1>. QED
  BY <1>4, <1>5 DEF FoundSoFar

\* The rows in the way.
LEMMA FindWay == ASSUME UpsertInv, WayInv, NEW s \in Sessions, Find(s) PROVE WayInv'
<1>. DEFINE b == begun[s]
            v == job[s].values
            V == View(s)
            k == job[s].key
            all == Extended(job[s].found, Selected(k, V, v))
            j == [job[s] EXCEPT !.found = all,
                                !.key = IF k < Len(Keys) THEN k + 1 ELSE 1,
                                !.pc = IF k < Len(Keys) THEN "find"
                                       ELSE AfterFind(job[s].kind, all)]
<1>1. /\ job[s].pc = "find" /\ job[s] \in Jobs /\ Len(Keys) = 2 /\ k \in {1, 2}
      /\ V \in SUBSET StoredRows /\ Keyed(V)
  <2>1. job[s] \in Jobs /\ V \in SUBSET StoredRows /\ Keyed(V)
    BY WayOf
  <2>2. Len(Keys) = 2
    BY CollideIs
  <2>3. job[s].key \in 1..Len(Keys)
    BY <2>1 DEF Jobs
  <2>4. job[s].pc = "find"
    BY DEF Find, At
  <2>. QED
    BY <2>1, <2>2, <2>3, <2>4
<1>2. ASSUME b # Disturbed
      PROVE  /\ b.affected \in Nat /\ Untouched(job[s], b, V) /\ FoundSoFar(job[s], b)
             /\ b.table \in SUBSET StoredRows /\ Keyed(b.table)
             /\ \/ job[s].kind = "replace"
                \/ job[s].kind = "upsert" /\ Clashes(b.table, v) # {}
  BY <1>1, <1>2, WayOf DEF OnItsWay
<1>3. b # Disturbed => Kept(job[s], b, V)
  BY <1>2, KeptUntouched
<1>4. CASE Refused(s)
  BY <1>3, <1>4, FailsWay DEF Refused, dbVars
<1>5. ASSUME job' = [job EXCEPT
                       ![s].found = all,
                       ![s].key = IF k < Len(Keys) THEN k + 1 ELSE 1,
                       ![s].pc = IF k < Len(Keys) THEN "find"
                                 ELSE AfterFind(job[s].kind, all)],
             UNCHANGED <<dbVars, begun>>
      PROVE  WayInv'
  <2>1. job' = [job EXCEPT ![s] = j]
    BY <1>5 DEF UpsertInv, Typed
  <2>2. /\ j.found = all /\ j.key = (IF k < 2 THEN k + 1 ELSE 1)
        /\ j.pc = (IF k < 2 THEN "find" ELSE AfterFind(job[s].kind, all))
        /\ j.kind = job[s].kind /\ j.values = v /\ j.affected = job[s].affected
        /\ j.assign = job[s].assign
    BY <1>1 DEF Jobs
  <2>. HIDE DEF j, all
  <2>3. ASSUME b # Disturbed PROVE OnItsWay(j, b, V)
    <3>1. V = b.table /\ Untouched(j, b, V)
      BY <1>2, <2>2, <2>3 DEF Untouched
    <3>2. CASE k = 1
      <4>1. job[s].found = <<>> /\ j.key = 2 /\ j.pc = "find"
        BY <1>2, <2>2, <2>3, <3>2 DEF FoundSoFar
      <4>2. Range(job[s].found) = {}
        BY <4>1 DEF Range
      <4>3. \/ all = <<>> /\ \A r \in V : ~Collide(1, r, v)
            \/ \E r \in V : Collide(1, r, v) /\ all = <<r.rowid>>
        <5>1. CASE all = job[s].found /\ \A r \in V : ~Collide(1, r, v)
          BY <4>1, <5>1
        <5>2. ASSUME NEW r \in V, Collide(1, r, v),
                     all = IF r.rowid \in Range(job[s].found) THEN job[s].found
                           ELSE Append(job[s].found, r.rowid)
              PROVE  Collide(1, r, v) /\ all = <<r.rowid>>
          BY <4>1, <4>2, <5>2
        <5>. QED
          BY <1>1, <3>2, <5>1, <5>2, SelectedIs DEF all
      <4>4. FoundSoFar(j, b)
        BY <2>2, <3>1, <4>1, <4>3 DEF FoundSoFar
      <4>. QED
        BY <1>2, <2>2, <2>3, <3>1, <4>1, <4>4 DEF OnItsWay
    <3>3. CASE k = 2
      <4>1. AllFound(j, b)
        BY <1>2, <2>2, <2>3, <3>1, <3>3, BothKeysFind DEF all
      <4>2. /\ j.pc = AfterFind(job[s].kind, all) /\ j.key = 1
        BY <2>2, <3>3
      <4>3. CASE job[s].kind = "replace"
        <5>1. \/ j.pc = "insert" /\ j.found = <<>>
              \/ j.pc = "delete"
          BY <2>2, <4>2, <4>3 DEF AfterFind
        <5>2. j.affected + Len(j.found) = b.affected + Cardinality(InWay(j, b))
          BY <3>1, <4>1 DEF AllFound, Untouched
        <5>3. V = {r \in b.table : ~Clash(r, j.values) \/ r.rowid \in Range(j.found)}
          BY <3>1, <4>1 DEF AllFound
        <5>4. Clearing(j, b, V)
          BY <4>1, <5>2, <5>3 DEF AllFound, Clearing
        <5>. QED
          BY <2>2, <4>3, <5>1, <5>4 DEF OnItsWay
      <4>4. CASE job[s].kind = "upsert"
        <5>1. \/ j.pc = "failed"
              \/ j.pc = "fetchBefore" /\ j.found # <<>>
          BY <2>2, <4>2, <4>4 DEF AfterFind
        <5>2. Kept(j, b, V)
          BY <3>1, KeptUntouched
        <5>3. j.found # <<>> =>
                 \E r \in b.table : IsFirst(r, j, b) /\ Head(j.found) = r.rowid
          BY <4>1 DEF AllFound
        <5>. QED
          BY <2>2, <3>1, <4>4, <5>1, <5>2, <5>3 DEF OnItsWay
      <4>. QED
        BY <1>2, <2>3, <4>3, <4>4
    <3>. QED
      BY <1>1, <3>2, <3>3
  <2>. QED
    BY <1>5, <2>1, <2>3, QuietWay DEF dbVars
<1>6. Extended(job[s].found, Matching(s, k)) = all
  BY DEF Selected, Matching
<1>. QED
  BY <1>4, <1>5, <1>6 DEF Find, Extended

\* The row found is fetched, updated and fetched again.
LEMMA FetchBeforeWay ==
    ASSUME UpsertInv, WayInv, NEW s \in Sessions, FetchBefore(s) PROVE WayInv'
<1>. DEFINE b == begun[s]
            V == View(s)
<1>1. job[s].pc = "fetchBefore" /\ job[s] \in Jobs
  BY WayOf DEF FetchBefore, At
<1>2. ASSUME b # Disturbed
      PROVE  /\ Untouched(job[s], b, V) /\ job[s].kind = "upsert" /\ Keyed(b.table)
             /\ \E r \in b.table : IsFirst(r, job[s], b) /\ Target(s) = r.rowid
  BY <1>1, <1>2, WayOf DEF OnItsWay, Target
<1>3. b # Disturbed => Kept(job[s], b, V)
  BY <1>2, KeptUntouched
<1>4. CASE Refused(s) \/ (Fails(s) /\ UNCHANGED <<dbVars, begun>>)
  BY <1>3, <1>4, FailsWay DEF Refused, dbVars
<1>5. ASSUME NEW r \in Fetched(s, Target(s)), UNCHANGED <<dbVars, begun>>,
             job' = [job EXCEPT ![s].pc = "update", ![s].before = r, ![s].rowid = r.rowid]
      PROVE  WayInv'
  <2>. DEFINE j == [job[s] EXCEPT !.pc = "update", !.before = r, !.rowid = r.rowid]
  <2>1. job' = [job EXCEPT ![s] = j]
    BY <1>5 DEF UpsertInv, Typed
  <2>2. /\ j.pc = "update" /\ j.before = r /\ j.rowid = r.rowid /\ j.kind = job[s].kind
        /\ j.values = job[s].values /\ j.affected = job[s].affected
    BY <1>1 DEF Jobs
  <2>. HIDE DEF j
  <2>3. ASSUME b # Disturbed PROVE OnItsWay(j, b, V)
    <3>1. PICK q \in b.table : IsFirst(q, job[s], b) /\ Target(s) = q.rowid
      BY <1>2, <2>3
    <3>2. r = q
      BY <1>2, <1>5, <2>3, <3>1 DEF Fetched, Untouched, Keyed
    <3>3. IsFirst(r, j, b)
      BY <2>2, <3>1, <3>2 DEF IsFirst
    <3>4. Untouched(j, b, V)
      BY <1>2, <2>2, <2>3 DEF Untouched
    <3>. QED
      BY <1>2, <2>2, <2>3, <3>2, <3>3, <3>4 DEF OnItsWay
  <2>. QED
    BY <1>5, <2>1, <2>3, QuietWay DEF dbVars
<1>. QED
  BY <1>4, <1>5 DEF FetchBefore

LEMMA UpdateWay == ASSUME UpsertInv, WayInv, NEW s \in Sessions, Update(s) PROVE WayInv'
<1>. DEFINE b == begun[s]
            V == View(s)
            v == job[s].values
            a == job[s].assign
            old == {r \in rows : r.rowid = job[s].rowid}
            new == {Assigned(a, r, v) : r \in old}
            others == rows \ old
            T == others \cup new
<1>1. /\ job[s].pc = "update" /\ job[s] \in Jobs /\ v \in Values /\ a \in Assignments
      /\ rows \in SUBSET StoredRows /\ Keyed(rows)
  BY WayOf DEF Update, At, Jobs, UpsertInv, Typed, WayInv
<1>2. ASSUME b # Disturbed
      PROVE  /\ Untouched(job[s], b, V) /\ job[s].kind = "upsert" /\ Keyed(b.table)
             /\ \E r \in b.table :
                   IsFirst(r, job[s], b) /\ job[s].before = r /\ job[s].rowid = r.rowid
  BY <1>1, <1>2, WayOf DEF OnItsWay
<1>3. b # Disturbed => Kept(job[s], b, V)
  BY <1>2, KeptUntouched
<1>4. CASE Refused(s) \/ (Fails(s) /\ UNCHANGED <<rows, saved, writer, begun>>)
  BY <1>3, <1>4, FailsWay DEF Refused, dbVars
<1>5. ASSUME CanWrite(s), ~(\E r \in new : Clashes(others, r) # {}),
             Write(s, T), Goes(s, "fetchAfter")
      PROVE  WayInv'
  <2>. DEFINE j == [job[s] EXCEPT !.pc = "fetchAfter"]
  <2>1. job' = [job EXCEPT ![s] = j]
    BY <1>5 DEF Goes, UpsertInv, Typed
  <2>2. /\ j.pc = "fetchAfter" /\ j.before = job[s].before /\ j.rowid = job[s].rowid
        /\ j.kind = job[s].kind /\ j.assign = a /\ j.values = v /\ j.affected = job[s].affected
    BY <1>1 DEF Jobs
  <2>3. V = rows
    BY <1>5 DEF CanWrite, View
  <2>4. \A q, r \in old : q = r
    BY <1>1 DEF Keyed
  <2>5. ASSUME NEW r \in old
        PROVE  old = {r} /\ T = (rows \ {r}) \cup {Assigned(a, r, v)} /\ Keyed(T)
    <3>1. old = {r} /\ new = {Assigned(a, r, v)}
      BY <2>4
    <3>2. Assigned(a, r, v).rowid = r.rowid
      BY <1>1, AssignedBare
    <3>3. \A q \in rows \ {r} : q.rowid # r.rowid /\ ~Clash(q, Assigned(a, r, v))
      BY <1>1, <1>5, <3>1 DEF Keyed, Clashes
    <3>4. Keyed(rows \ {r})
      BY <1>1, KeyedPart
    <3>. QED
      BY <3>1, <3>2, <3>3, <3>4, KeyedWith
  <2>6. Keyed(T)
    <3>1. CASE old = {}
      BY <1>1, <3>1
    <3>. QED
      BY <2>5, <3>1
  <2>. HIDE DEF j
  <2>7. ASSUME b # Disturbed PROVE OnItsWay(j, b, T)
    <3>1. PICK r \in b.table :
             IsFirst(r, job[s], b) /\ job[s].before = r /\ job[s].rowid = r.rowid
      BY <1>2, <2>7
    <3>2. b.table = rows /\ job[s].affected = b.affected
      BY <1>2, <2>3, <2>7 DEF Untouched
    <3>3. r \in old
      BY <3>1, <3>2
    <3>4. T = (b.table \ {r}) \cup {Assigned(j.assign, r, j.values)}
      BY <2>2, <2>5, <3>2, <3>3
    <3>5. IsFirst(r, j, b)
      BY <2>2, <3>1 DEF IsFirst
    <3>. QED
      BY <1>2, <2>2, <2>7, <3>1, <3>2, <3>4, <3>5 DEF OnItsWay
  <2>. QED
    BY <1>5, <2>1, <2>6, <2>7, WriteWay
<1>. QED
  BY <1>4, <1>5 DEF Update

LEMMA FetchAfterWay ==
    ASSUME UpsertInv, WayInv, NEW s \in Sessions, FetchAfter(s) PROVE WayInv'
<1>. DEFINE b == begun[s]
            V == View(s)
            v == job[s].values
            a == job[s].assign
            row == MySQLRow(job[s], b.table)
<1>1. /\ job[s].pc = "fetchAfter" /\ job[s] \in Jobs /\ v \in Values /\ a \in Assignments
  BY WayOf DEF FetchAfter, At, Jobs
<1>2. ASSUME b # Disturbed
      PROVE  \E r \in b.table :
                /\ job[s].kind = "upsert" /\ job[s].affected = b.affected
                /\ IsFirst(r, job[s], b) /\ job[s].before = r /\ job[s].rowid = r.rowid
                /\ V = (b.table \ {r}) \cup {Assigned(a, r, v)}
                /\ Contents(V) = row.table
                /\ row.count = IF Assigned(a, r, v) = r THEN 0 ELSE 2
  <2>1. b.table \in SUBSET StoredRows /\ Keyed(b.table) /\ OnItsWay(job[s], b, V)
    BY <1>2, WayOf
  <2>2. PICK r \in b.table :
          /\ job[s].kind = "upsert" /\ job[s].affected = b.affected
          /\ IsFirst(r, job[s], b) /\ job[s].before = r /\ job[s].rowid = r.rowid
          /\ V = (b.table \ {r}) \cup {Assigned(a, r, v)}
    BY <1>1, <2>1 DEF OnItsWay
  <2>3. row = [table |-> (Contents(b.table) \ {Bare(r)}) \cup {Assigned(a, Bare(r), v)},
               count |-> IF Assigned(a, Bare(r), v) = Bare(r) THEN 0 ELSE 2]
    BY <2>1, <2>2, UpdatedRow
  <2>4. /\ Bare(Assigned(a, r, v)) = Assigned(a, Bare(r), v)
        /\ Bare(Assigned(a, r, v)) = Bare(r) <=> Assigned(a, r, v) = r
    BY <1>1, <2>1, AssignedBare
  <2>5. Contents(V) = (Contents(b.table) \ {Bare(r)}) \cup {Bare(Assigned(a, r, v))}
    BY <2>1, <2>2, ContentsOtherwise
  <2>. QED
    BY <2>2, <2>3, <2>4, <2>5
<1>3. b # Disturbed => Kept(job[s], b, V)
  BY <1>2 DEF Kept
<1>4. CASE Refused(s) \/ (Fails(s) /\ UNCHANGED <<dbVars, begun>>)
  BY <1>3, <1>4, FailsWay DEF Refused, dbVars
<1>5. ASSUME NEW q \in Fetched(s, job[s].rowid), UNCHANGED <<dbVars, begun>>,
             job' = [job EXCEPT ![s].pc = "readId", ![s].affected = @ + Changed(s, q)]
      PROVE  WayInv'
  <2>. DEFINE j == [job[s] EXCEPT !.pc = "readId", !.affected = @ + Changed(s, q)]
  <2>1. job' = [job EXCEPT ![s] = j]
    BY <1>5 DEF UpsertInv, Typed
  <2>2. /\ j.pc = "readId" /\ j.kind = job[s].kind /\ j.assign = a /\ j.values = v
        /\ j.affected = job[s].affected + Changed(s, q)
    BY <1>1 DEF Jobs
  <2>. HIDE DEF j
  <2>3. ASSUME b # Disturbed PROVE OnItsWay(j, b, V)
    <3>1. PICK r \in b.table :
            /\ job[s].kind = "upsert" /\ job[s].affected = b.affected
            /\ IsFirst(r, job[s], b) /\ job[s].before = r /\ job[s].rowid = r.rowid
            /\ V = (b.table \ {r}) \cup {Assigned(a, r, v)}
            /\ Contents(V) = row.table
            /\ row.count = IF Assigned(a, r, v) = r THEN 0 ELSE 2
      BY <1>2, <2>3
    <3>2. q = Assigned(a, r, v)
      <4>1. b.table \in SUBSET StoredRows /\ Keyed(b.table)
        BY <2>3, WayOf
      <4>2. q \in V /\ q.rowid = r.rowid
        BY <1>5, <3>1 DEF Fetched
      <4>. QED
        BY <3>1, <4>1, <4>2 DEF Keyed
    <3>3. Changed(s, q) = row.count
      BY <3>1, <3>2 DEF Changed
    <3>4. MySQLRow(j, b.table) = row
      BY <2>2 DEF MySQLRow
    <3>5. RowIsDone(j, b, V)
      BY <2>2, <3>1, <3>3, <3>4 DEF RowIsDone
    <3>. QED
      BY <2>2, <3>5 DEF OnItsWay
  <2>. QED
    BY <1>5, <2>1, <2>3, QuietWay DEF dbVars
<1>. QED
  BY <1>4, <1>5 DEF FetchAfter

LEMMA ReadIdWay == ASSUME UpsertInv, WayInv, NEW s \in Sessions, ReadId(s) PROVE WayInv'
<1>1. begun[s] # Disturbed => RowIsDone(job[s], begun[s], View(s))
  BY WayOf DEF ReadId, At, OnItsWay
<1>2. UNCHANGED <<rows, saved, writer, begun>>
  BY DEF ReadId, dbVars, history
<1>3. CASE job' = [job EXCEPT ![s] = RowDone(@, "next")]
  <2>. DEFINE d == RowDone(job[s], "next")
  <2>1. job' = [job EXCEPT ![s] = d]
    BY <1>3 DEF UpsertInv, Typed
  <2>2. /\ d.pc = "next" /\ d.kind = job[s].kind /\ d.assign = job[s].assign
        /\ d.values = job[s].values /\ d.affected = job[s].affected
    BY WayOf, RowDoneKeeps
  <2>. HIDE DEF d
  <2>. QED
    BY <1>1, <1>2, <2>1, <2>2, DoneWay
<1>4. ASSUME NEW id,
             job' = [job EXCEPT ![s] = [RowDone(@, "next") EXCEPT !.lastId = FirstId(s, id)]]
      PROVE  WayInv'
  <2>. DEFINE d == [RowDone(job[s], "next") EXCEPT !.lastId = FirstId(s, id)]
  <2>1. job' = [job EXCEPT ![s] = d]
    BY <1>4 DEF UpsertInv, Typed
  <2>2. /\ d.pc = "next" /\ d.kind = job[s].kind /\ d.assign = job[s].assign
        /\ d.values = job[s].values /\ d.affected = job[s].affected
    BY WayOf DEF RowDone, Jobs
  <2>. HIDE DEF d
  <2>. QED
    BY <1>1, <1>2, <2>1, <2>2, DoneWay
<1>. QED
  BY <1>3, <1>4 DEF ReadId

\* REPLACE deletes the first of the rows it has still to delete.
LEMMA DeleteWay == ASSUME UpsertInv, WayInv, NEW s \in Sessions, Delete(s) PROVE WayInv'
<1>. DEFINE b == begun[s]
            V == View(s)
            v == job[s].values
            found == job[s].found
            T == {r \in rows : r.rowid # Target(s)}
<1>1. /\ job[s].pc = "delete" /\ job[s] \in Jobs /\ found # <<>> /\ Keyed(rows)
      /\ found \in Seq(Nat) /\ job[s].affected \in Nat
  BY JobOf DEF Delete, At, InPlace, Jobs, WayInv
<1>2. ASSUME b # Disturbed
      PROVE  /\ b.table \in SUBSET StoredRows /\ b.affected \in Nat /\ Keyed(b.table)
             /\ job[s].kind = "replace" /\ Clearing(job[s], b, V)
  BY <1>1, <1>2, WayOf DEF OnItsWay
<1>3. b # Disturbed => Kept(job[s], b, V)
  BY <1>2, KeptCleared
<1>4. CASE Refused(s)
  BY <1>3, <1>4, FailsWay DEF Refused, dbVars
<1>5. ASSUME CanWrite(s), Write(s, T),
             job' = [job EXCEPT ![s].affected = @ + 1, ![s].found = Tail(@),
                                ![s].pc = IF Len(job[s].found) = 1 THEN "insert" ELSE "delete"]
      PROVE  WayInv'
  <2>. DEFINE rest == Tail(found)
              j == [job[s] EXCEPT !.affected = @ + 1, !.found = rest,
                                  !.pc = IF Len(found) = 1 THEN "insert" ELSE "delete"]
  <2>1. job' = [job EXCEPT ![s] = j]
    BY <1>5 DEF UpsertInv, Typed
  <2>2. /\ j.pc = (IF Len(found) = 1 THEN "insert" ELSE "delete")
        /\ j.kind = job[s].kind /\ j.values = v /\ j.affected = job[s].affected + 1
        /\ j.found = rest
    BY <1>1 DEF Jobs
  <2>3. /\ Len(found) \in Nat /\ Len(found) # 0 /\ DOMAIN found = 1..Len(found)
        /\ Len(rest) = Len(found) - 1 /\ DOMAIN rest = 1..Len(found) - 1
        /\ \A i \in 1..Len(found) - 1 : rest[i] = found[i + 1]
        /\ Target(s) = found[1] /\ (Len(found) = 1 => rest = <<>>)
    <3>1. /\ rest \in Seq(Nat) /\ Len(rest) = Len(found) - 1 /\ Target(s) = found[1]
          /\ \A i \in 1..Len(rest) : rest[i] = found[i + 1]
      BY <1>1, HeadTailProperties DEF Target
    <3>2. /\ Len(found) \in Nat /\ Len(found) # 0 /\ DOMAIN found = 1..Len(found)
          /\ DOMAIN rest = 1..Len(rest)
      BY <1>1, <3>1, LenProperties, EmptySeq
    <3>3. Len(rest) = 0 => rest = <<>>
      BY <3>1, EmptySeq
    <3>. HIDE DEF rest
    <3>. QED
      BY <3>1, <3>2, <3>3
  <2>4. V = rows /\ Keyed(T)
    BY <1>1, <1>5, KeyedPart DEF CanWrite, View
  <2>. HIDE DEF j, rest
  <2>5. ASSUME b # Disturbed PROVE Clearing(j, b, T)
    <3>. USE <1>2, <2>5
    <3>1. /\ V = {r \in b.table : ~Clash(r, v) \/ r.rowid \in Range(found)}
          /\ \A i, k \in DOMAIN found : i # k => found[i] # found[k]
          /\ \A i \in DOMAIN found : \E r \in b.table : Clash(r, v) /\ r.rowid = found[i]
          /\ job[s].affected + Len(found) = b.affected + Cardinality(InWay(job[s], b))
          /\ IsFiniteSet(InWay(job[s], b))
      BY DEF Clearing
    <3>2. InWay(j, b) = InWay(job[s], b) /\ Cardinality(InWay(job[s], b)) \in Nat
      BY <2>2, <3>1, FS_CardinalityType DEF InWay
    <3>3. j.affected + Len(j.found) = b.affected + Cardinality(InWay(j, b))
      <4>1. Len(j.found) = Len(found) - 1
        BY <2>2, <2>3
      <4>2. \A m, l, n \in Nat : m + l = n => (m + 1) + (l - 1) = n
        OBVIOUS
      <4>3. b.affected + Cardinality(InWay(job[s], b)) \in Nat
        BY <1>2, <2>5, <3>2
      <4>4. (job[s].affected + 1) + (Len(found) - 1)
              = b.affected + Cardinality(InWay(job[s], b))
        <5>1. PICK m \in Nat : m = job[s].affected
          BY <1>1
        <5>2. PICK l \in Nat : l = Len(found)
          BY <2>3
        <5>3. PICK n \in Nat : n = b.affected + Cardinality(InWay(job[s], b))
          BY <4>3
        <5>4. m + l = n
          BY <3>1, <5>1, <5>2, <5>3
        <5>. QED
          BY <4>2, <5>1, <5>2, <5>3, <5>4
      <4>. QED
        BY <2>2, <3>2, <4>1, <4>4
    <3>4. \A i, k \in DOMAIN rest : i # k => rest[i] # rest[k]
      <4>1. ASSUME NEW i \in DOMAIN rest, NEW k \in DOMAIN rest, i # k PROVE rest[i] # rest[k]
        <5>1. /\ i + 1 \in DOMAIN found /\ k + 1 \in DOMAIN found /\ i + 1 # k + 1
              /\ rest[i] = found[i + 1] /\ rest[k] = found[k + 1]
          <6>1. i \in 1..Len(found) - 1 /\ k \in 1..Len(found) - 1
            BY <2>3
          <6>2. i + 1 \in 1..Len(found) /\ k + 1 \in 1..Len(found) /\ i + 1 # k + 1
            BY <2>3, <4>1, <6>1
          <6>. QED
            BY <2>3, <6>1, <6>2
        <5>. QED
          BY <3>1, <5>1
      <4>. QED
        BY <4>1
    <3>5. \A i \in DOMAIN rest : \E r \in b.table : Clash(r, v) /\ r.rowid = rest[i]
      <4>1. \A i \in DOMAIN rest : i + 1 \in DOMAIN found /\ rest[i] = found[i + 1]
        BY <2>3
      <4>. QED
        BY <3>1, <4>1
    <3>6. Range(rest) = Range(found) \ {Target(s)}
      <4>1. \A i \in DOMAIN rest : /\ i + 1 \in DOMAIN found /\ rest[i] = found[i + 1]
                                   /\ i + 1 # 1 /\ 1 \in DOMAIN found
        BY <2>3
      <4>2. \A i \in DOMAIN found : i = 1 \/ (i - 1 \in DOMAIN rest /\ found[i] = rest[i - 1])
        BY <2>3
      <4>3. Range(rest) \subseteq Range(found) \ {Target(s)}
        <5>1. \A i \in DOMAIN rest : rest[i] = found[i + 1] /\ found[i + 1] # Target(s)
          BY <2>3, <3>1, <4>1
        <5>. QED
          BY <4>1, <5>1 DEF Range
      <4>4. Range(found) \ {Target(s)} \subseteq Range(rest)
        BY <2>3, <4>2 DEF Range
      <4>. QED
        BY <4>3, <4>4
    <3>7. \A r \in b.table : r.rowid = Target(s) => Clash(r, v)
      <4>1. PICK q \in b.table : Clash(q, v) /\ q.rowid = Target(s)
        <5>1. 1 \in DOMAIN found
          BY <2>3
        <5>. QED
          BY <2>3, <3>1, <5>1
      <4>. QED
        BY <4>1 DEF Keyed
    <3>8. T = {r \in b.table : ~Clash(r, v) \/ r.rowid \in Range(rest)}
      BY <2>4, <3>1, <3>6, <3>7
    <3>. QED
      BY <2>2, <3>1, <3>2, <3>3, <3>4, <3>5, <3>8 DEF Clearing
  <2>6. b # Disturbed => OnItsWay(j, b, T)
    BY <1>2, <2>2, <2>3, <2>5 DEF OnItsWay
  <2>. QED
    BY <1>5, <2>1, <2>4, <2>6, WriteWay
<1>. QED
  BY <1>4, <1>5 DEF Delete

-----------------------------------------------------------------------------
LEMMA InitWayInv == Init => WayInv
<1>. SUFFICES ASSUME Init PROVE WayInv
  OBVIOUS
<1>1. Keyed(rows) /\ Keyed(saved)
  BY SeedAssumption DEF Init, Keyed
<1>2. ASSUME NEW s \in Sessions
      PROVE  Keyed(begun[s].table) /\ OnItsWay(job[s], begun[s], View(s))
  <2>1. job[s].pc = "idle" /\ begun[s].table = {}
    BY DEF Init, NoJob, Nothing
  <2>. QED
    BY <2>1 DEF Keyed, OnItsWay
<1>. QED
  BY <1>1, <1>2 DEF WayInv

LEMMA NextWayInv == UpsertInv /\ WayInv /\ [Next]_vars => WayInv'
<1>. SUFFICES ASSUME UpsertInv, WayInv, [Next]_vars PROVE WayInv'
  OBVIOUS
<1>1. CASE UNCHANGED vars
  BY <1>1 DEF vars, dbVars, history, WayInv, Keyed, OnItsWay, View
<1>2. ASSUME NEW s \in Sessions, Begin(s) \/ Commit(s) \/ Rollback(s) PROVE WayInv'
  BY <1>2, TransactionWay
<1>3. ASSUME NEW s \in Sessions, Ask(s) \/ RowStep(s) \/ Answer(s) PROVE WayInv'
  BY <1>3, AskWay, AnswerWay, NextRowWay, ReadMaxWay, ReadAllocationWay, InsertWay, RecordWay,
     FindWay, FetchBeforeWay, UpdateWay, FetchAfterWay, ReadIdWay, DeleteWay DEF RowStep
<1>. QED
  BY <1>1, <1>2, <1>3 DEF Next

\* A row next to which no other session wrote does what MySQL does with it in
\* one step, with the same count of affected rows: for any table that meets its
\* keys, each kind of statement, and whichever keys are in the way
\* (execMySQLUpsert, execMySQLReplace, execMySQLInsertIgnore).  One that fails
\* has changed nothing but for the two exceptions of KeptByFailure.
THEOREM RowsAreAsInMySQL == Spec => []RowAsInMySQL
<1>1. WayInv => RowAsInMySQL
  <2>. SUFFICES ASSUME WayInv, NEW s \in Sessions,
                       RowEnded(s, "next") \/ RowEnded(s, "failed")
                PROVE  /\ RowEnded(s, "next") => RowIsDone(job[s], begun[s], View(s))
                       /\ RowEnded(s, "failed") => KeptByFailure(s)
    BY DEF RowAsInMySQL, RowIsDone
  <2>1. OnItsWay(job[s], begun[s], View(s))
    BY DEF WayInv, RowEnded, Undisturbed
  <2>2. RowEnded(s, "next") => RowIsDone(job[s], begun[s], View(s))
    BY <2>1 DEF OnItsWay, RowEnded, At
  <2>3. RowEnded(s, "failed") => Kept(job[s], begun[s], View(s))
    BY <2>1 DEF OnItsWay, RowEnded, At
  <2>. QED
    BY <2>2, <2>3 DEF Kept, KeptByFailure
<1>. QED
  BY <1>1, InitWayInv, NextWayInv, UpsertInvariance, PTL DEF Spec
=============================================================================
