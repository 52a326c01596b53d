------------------------- MODULE ServerReset_proofs -------------------------
(***************************************************************************)
(* Theorems about ServerReset, for every set of clients, keys and seed     *)
(* rows, any number of resets, with contexts that run out and clients that *)
(* change the schema.  The inductive invariant ResetInv says, for each     *)
(* statement Reset may be at, what its transaction has done so far         *)
(* (Progress), who can hold the write lock (Locks) and which schema can    *)
(* have been committed (SchemaKept).                                       *)
(***************************************************************************)
EXTENDS ServerReset, TLAPS

InTransaction == pc \in First \cup Second
BeforeFirstCommit == pc \in {"decide", "foreignKeysOff", "beginFirst"} \cup First
BetweenCommits == pc \in {"foreignKeysOn", "beginSecond"} \cup Second

\* The write lock is Reset's inside its transactions, and elsewhere only after
\* a context ran out; foreign keys are off from before the first to after it.
Locks ==
    /\ InTransaction => writer = Server
    /\ ~cut /\ writer = Server => InTransaction
    /\ writer \in Clients => writer \in reading
    /\ expired => cut
    /\ ~cut => (foreignKeys <=> pc \notin {"beginFirst", "foreignKeysOn"} \cup First)

\* A Reset that no client has disturbed is alone.
Alone == pc # "idle" /\ ~disturbed => reading = {} /\ late = {}

\* What the running transaction has done.
Progress ==
    /\ BeforeFirstCommit => late = {}
    /\ BetweenCommits => committed.rows = late
    /\ pc \in {"clear", "setUp"} => working = committed
    /\ pc = "commitFirst" =>
         working = [schema |-> IF kind = "data" THEN committed.schema ELSE {}, rows |-> {}]
    /\ pc = "seeding" =>
         /\ working.schema = IF kind = "data" THEN committed.schema
                             ELSE committed.schema \cup configured
         /\ committed.rows \subseteq working.rows
         /\ working.rows \subseteq committed.rows \cup Seed
         /\ working.rows # committed.rows => "table" \in working.schema
    /\ pc \in {"seeding", "finish"} /\ kind = "full" => metadata

\* The configured schema is there as a whole, and before any client changes
\* it either exactly so or not at all.
SchemaKept ==
    /\ configured \in Schemas
    /\ version = base
    /\ writer \in Clients => working.schema = committed.schema
    /\ "table" \in committed.schema => configured \subseteq committed.schema
    /\ ~changed => committed.schema \in {{}, configured}
    /\ ~changed /\ writer = Server => working.schema \in {{}, configured}
    /\ ~changed /\ kind = "full" /\ BetweenCommits => committed.schema = {}

\* How the kind of the running Reset goes with the schema and the metadata.
KindFits ==
    /\ "trigger" \notin configured /\ ~changed =>
         /\ "table" \in committed.schema /\ metadata
         /\ pc \notin {"idle", "decide"} => kind = "data"
    /\ ~changed /\ kind = "data" /\ pc \in {"foreignKeysOff", "beginFirst"} /\ writer # Server =>
         "trigger" \notin committed.schema
    /\ ~changed /\ kind = "data" /\ (InTransaction \/ BetweenCommits) =>
         "trigger" \notin committed.schema

ResetInv == TypeOK /\ Locks /\ Alone /\ Progress /\ SchemaKept /\ KindFits

LEMMA InitInv == Init => ResetInv
<1>. SUFFICES ASSUME Init PROVE ResetInv
  OBVIOUS
<1>. USE ResetAssumption DEF ResetAssumption, Init
<1>1. TypeOK
  <2>1. configured \in SUBSET Objects
    BY DEF Objects
  <2>2. committed \in Databases /\ working \in Databases
    BY <2>1 DEF Databases
  <2>3. resets \in 0..MaxResets /\ version \in Nat /\ base \in 0..version
    OBVIOUS
  <2>4. reading \in SUBSET Clients /\ late \in SUBSET Keys
    OBVIOUS
  <2>5. /\ foreignKeys \in BOOLEAN /\ metadata \in BOOLEAN /\ expired \in BOOLEAN
        /\ disturbed \in BOOLEAN /\ cut \in BOOLEAN /\ changed \in BOOLEAN
    OBVIOUS
  <2>. QED
    BY <2>1, <2>2, <2>3, <2>4, <2>5 DEF TypeOK, Steps
<1>2. Locks /\ Alone /\ Progress
  BY DEF Locks, Alone, Progress, InTransaction, BeforeFirstCommit, BetweenCommits,
         First, Second
<1>3. SchemaKept /\ KindFits
  BY DEF SchemaKept, KindFits, InTransaction, BetweenCommits, First, Second
<1>. QED
  BY <1>1, <1>2, <1>3 DEF ResetInv

\* Types; SeedRow and SetUp stay within the configured keys and objects.
LEMMA TypeStep ==
    ASSUME TypeOK, SchemaKept, [Next]_vars
    PROVE  TypeOK'
<1>. USE ResetAssumption DEF ResetAssumption, TypeOK, Databases, Objects, Steps, First,
         Second, dbVars, memVars, callVars, pastVars, history
<1>1. CASE ResetCall
  <2>1. disturbed' \in BOOLEAN
    BY <1>1 DEF ResetCall
  <2>2. resets' \in 0..MaxResets
    BY <1>1 DEF ResetCall
  <2>. QED
    BY <1>1, <2>1, <2>2 DEF ResetCall
<1>2. CASE Decide
  BY <1>2 DEF Decide, DataOnly, Seen, Fails
<1>3. CASE ForeignKeysOff
  <2>1. foreignKeys' \in BOOLEAN
    BY <1>3 DEF ForeignKeysOff, ForeignKeysSet
  <2>. QED
    BY <1>3, <2>1 DEF ForeignKeysOff, Fails
<1>4. CASE BeginFirst
  <2>1. foreignKeys' \in BOOLEAN
    BY <1>4 DEF BeginFirst, ForeignKeysSet
  <2>2. CASE CanBegin
    BY <1>4, <2>1, <2>2 DEF BeginFirst
  <2>3. CASE ~CanBegin
    BY <1>4, <2>1, <2>3 DEF BeginFirst, Fails
  <2>. QED
    BY <2>2, <2>3
<1>5. CASE Clear
  BY <1>5 DEF Clear, Works
<1>6. CASE CommitFirst
  BY <1>6 DEF CommitFirst
<1>7. CASE ForeignKeysOn
  BY <1>7 DEF ForeignKeysOn, Fails
<1>8. CASE BeginSecond
  BY <1>8 DEF BeginSecond, CanBegin, Fails
<1>9. CASE SetUp
  <2>1. working' \in Databases
    BY <1>9 DEF SetUp, Works
  <2>. QED
    BY <1>9, <2>1 DEF SetUp, Works
<1>10. CASE SeedRow
  BY <1>10 DEF SeedRow, Works
<1>11. CASE CommitSecond
  BY <1>11 DEF CommitSecond
<1>12. CASE Finish
  BY <1>12 DEF Finish
<1>13. CASE TransactionFails
  BY <1>13 DEF TransactionFails, Fails, RolledBack, Obstructed, SeedRefused
<1>14. CASE ContextExpires
  BY <1>14 DEF ContextExpires
<1>15. ASSUME NEW c \in Clients, ReadIn(c)
      PROVE  TypeOK'
  BY <1>15 DEF ReadIn, ClientVars, Disturbs
<1>16. ASSUME NEW c \in Clients, EndTransaction(c)
      PROVE  TypeOK'
  BY <1>16 DEF EndTransaction, ClientVars, Disturbs, Late
<1>17. ASSUME NEW c \in Clients, RuntimeDDL(c)
      PROVE  TypeOK'
  BY <1>17 DEF RuntimeDDL, ClientVars, Disturbs
<1>18. ASSUME NEW c \in Clients, NEW r \in Keys, WriteIn(c, r)
      PROVE  TypeOK'
  BY <1>18 DEF WriteIn, ClientVars, Disturbs
<1>19. CASE UNCHANGED vars
  BY <1>19 DEF vars, history, memVars, dbVars, callVars, pastVars
<1>. QED
  BY <1>1, <1>2, <1>3, <1>4, <1>5, <1>6, <1>7, <1>8, <1>9, <1>10, <1>11,
     <1>12, <1>13, <1>14, <1>15, <1>16, <1>17, <1>18, <1>19
     DEF Next, ResetStep

\* The lock is taken by BEGIN IMMEDIATE and left at the end of each
\* transaction, unless the ROLLBACK is refused: that takes a context gone.
LEMMA LocksStep ==
    ASSUME TypeOK, Locks, [Next]_vars
    PROVE  Locks'
<1>. USE ResetAssumption DEF ResetAssumption, TypeOK, Locks, InTransaction, Steps,
         First, Second, dbVars, memVars, callVars, pastVars, history
<1>1. CASE ResetCall
  BY <1>1 DEF ResetCall
<1>2. CASE Decide
  BY <1>2 DEF Decide, DataOnly, Seen, Fails
<1>3. CASE ForeignKeysOff
  BY <1>3 DEF ForeignKeysOff, ForeignKeysSet, Fails
<1>4. CASE BeginFirst
  <2>1. CASE CanBegin
    <3>1. /\ pc' = "clear" /\ writer' = Server
          /\ UNCHANGED <<foreignKeys, cut, expired, reading>>
      BY <1>4, <2>1 DEF BeginFirst, CanBegin
    <3>2. ~cut => ~foreignKeys
      BY <1>4 DEF BeginFirst
    <3>. QED
      BY <3>1, <3>2
  <2>2. CASE ~CanBegin
    <3>1. /\ pc = "beginFirst" /\ pc' = "idle"
          /\ UNCHANGED <<writer, cut, expired, reading>>
      BY <1>4, <2>2 DEF BeginFirst, Fails
    <3>2. ~cut => foreignKeys'
      BY <1>4, <2>2 DEF BeginFirst, ForeignKeysSet
    <3>. QED
      BY <3>1, <3>2
  <2>. QED
    BY <2>1, <2>2
<1>5. CASE Clear
  BY <1>5 DEF Clear, Works
<1>6. CASE CommitFirst
  BY <1>6 DEF CommitFirst
<1>7. CASE ForeignKeysOn
  BY <1>7 DEF ForeignKeysOn, Fails
<1>8. CASE BeginSecond
  BY <1>8 DEF BeginSecond, CanBegin, Fails
<1>9. CASE SetUp
  BY <1>9 DEF SetUp, Works
<1>10. CASE SeedRow
  BY <1>10 DEF SeedRow, Works
<1>11. CASE CommitSecond
  BY <1>11 DEF CommitSecond
<1>12. CASE Finish
  BY <1>12 DEF Finish
<1>13. CASE TransactionFails
  BY <1>13 DEF TransactionFails, Fails, RolledBack, Obstructed, SeedRefused
<1>14. CASE ContextExpires
  BY <1>14 DEF ContextExpires
<1>15. ASSUME NEW c \in Clients, ReadIn(c)
      PROVE  Locks'
  BY <1>15 DEF ReadIn, ClientVars, Disturbs
<1>16. ASSUME NEW c \in Clients, EndTransaction(c)
      PROVE  Locks'
  BY <1>16 DEF EndTransaction, ClientVars, Disturbs, Late
<1>17. ASSUME NEW c \in Clients, RuntimeDDL(c)
      PROVE  Locks'
  BY <1>17 DEF RuntimeDDL, ClientVars, Disturbs
<1>18. ASSUME NEW c \in Clients, NEW r \in Keys, WriteIn(c, r)
      PROVE  Locks'
  BY <1>18 DEF WriteIn, ClientVars, Disturbs
<1>19. CASE UNCHANGED vars
  BY <1>19 DEF vars, history, memVars, dbVars, callVars, pastVars
<1>. QED
  BY <1>1, <1>2, <1>3, <1>4, <1>5, <1>6, <1>7, <1>8, <1>9, <1>10, <1>11,
     <1>12, <1>13, <1>14, <1>15, <1>16, <1>17, <1>18, <1>19
     DEF Next, ResetStep

\* A client's step during Reset is a disturbance.
LEMMA AloneStep ==
    ASSUME TypeOK, Alone, [Next]_vars
    PROVE  Alone'
<1>. USE DEF TypeOK, Alone, dbVars, memVars, callVars, pastVars, history
<1>1. CASE ResetCall
  BY <1>1 DEF ResetCall
<1>2. CASE Decide
  BY <1>2 DEF Decide, DataOnly, Seen, Fails
<1>3. CASE ForeignKeysOff
  BY <1>3 DEF ForeignKeysOff, ForeignKeysSet, Fails
<1>4. CASE BeginFirst
  BY <1>4 DEF BeginFirst, CanBegin, Fails, ForeignKeysSet
<1>5. CASE Clear
  BY <1>5 DEF Clear, Works
<1>6. CASE CommitFirst
  BY <1>6 DEF CommitFirst
<1>7. CASE ForeignKeysOn
  BY <1>7 DEF ForeignKeysOn, Fails
<1>8. CASE BeginSecond
  BY <1>8 DEF BeginSecond, CanBegin, Fails
<1>9. CASE SetUp
  BY <1>9 DEF SetUp, Works
<1>10. CASE SeedRow
  BY <1>10 DEF SeedRow, Works
<1>11. CASE CommitSecond
  BY <1>11 DEF CommitSecond
<1>12. CASE Finish
  BY <1>12 DEF Finish
<1>13. CASE TransactionFails
  BY <1>13 DEF TransactionFails, Fails, RolledBack, Obstructed, SeedRefused
<1>14. CASE ContextExpires
  BY <1>14 DEF ContextExpires
<1>15. ASSUME NEW c \in Clients, ReadIn(c)
      PROVE  Alone'
  BY <1>15 DEF ReadIn, ClientVars, Disturbs
<1>16. ASSUME NEW c \in Clients, EndTransaction(c)
      PROVE  Alone'
  BY <1>16 DEF EndTransaction, ClientVars, Disturbs, Late
<1>17. ASSUME NEW c \in Clients, RuntimeDDL(c)
      PROVE  Alone'
  BY <1>17 DEF RuntimeDDL, ClientVars, Disturbs
<1>18. ASSUME NEW c \in Clients, NEW r \in Keys, WriteIn(c, r)
      PROVE  Alone'
  BY <1>18 DEF WriteIn, ClientVars, Disturbs
<1>19. CASE UNCHANGED vars
  BY <1>19 DEF vars, history, memVars, dbVars, callVars, pastVars
<1>. QED
  BY <1>1, <1>2, <1>3, <1>4, <1>5, <1>6, <1>7, <1>8, <1>9, <1>10, <1>11,
     <1>12, <1>13, <1>14, <1>15, <1>16, <1>17, <1>18, <1>19
     DEF Next, ResetStep

\* Clients cannot touch the running transaction: Reset has the lock.
LEMMA ProgressStep ==
    ASSUME ResetInv, [Next]_vars
    PROVE  Progress'
<1>. USE ResetAssumption DEF ResetAssumption, ResetInv, TypeOK, Databases, Locks,
         Progress, InTransaction, BeforeFirstCommit, BetweenCommits, First, Second,
         dbVars, memVars, callVars, pastVars, history
<1>1. CASE ResetCall
  BY <1>1 DEF ResetCall
<1>2. CASE Decide
  BY <1>2 DEF Decide, DataOnly, Seen, Fails
<1>3. CASE ForeignKeysOff
  BY <1>3 DEF ForeignKeysOff, ForeignKeysSet, Fails
<1>4. CASE BeginFirst
  BY <1>4 DEF BeginFirst, CanBegin, Fails, ForeignKeysSet
<1>5. CASE Clear
  BY <1>5 DEF Clear, Works
<1>6. CASE CommitFirst
  <2>1. committed' = working /\ working.rows = {} /\ late = {} /\ late' = late
    BY <1>6 DEF CommitFirst
  <2>2. pc' = "foreignKeysOn" /\ committed'.rows = late'
    BY <1>6, <2>1 DEF CommitFirst
  <2>. QED
    BY <2>2
<1>7. CASE ForeignKeysOn
  BY <1>7 DEF ForeignKeysOn, Fails
<1>8. CASE BeginSecond
  BY <1>8 DEF BeginSecond, CanBegin, Fails
<1>9. CASE SetUp
  <2>1. /\ pc' = "seeding" /\ UNCHANGED <<configured, committed, late, kind>>
        /\ working = committed /\ committed.rows = late
    BY <1>9 DEF SetUp, Works
  <2>2. CASE kind = "full"
    <3>1. /\ working' = [working EXCEPT !.schema = working.schema \cup configured]
          /\ metadata'
      BY <1>9, <2>2 DEF SetUp, Works
    <3>2. /\ working'.rows = committed.rows
          /\ working'.schema = committed.schema \cup configured
      BY <2>1, <3>1
    <3>. QED
      BY <2>1, <2>2, <3>1, <3>2
  <2>3. CASE kind = "data"
    <3>1. working' = committed
      BY <1>9, <2>1, <2>3 DEF SetUp
    <3>. QED
      BY <2>1, <2>3, <3>1
  <2>. QED
    BY <2>2, <2>3
<1>10. CASE SeedRow
  BY <1>10 DEF SeedRow, Works
<1>11. CASE CommitSecond
  BY <1>11 DEF CommitSecond
<1>12. CASE Finish
  BY <1>12 DEF Finish
<1>13. CASE TransactionFails
  BY <1>13 DEF TransactionFails, Fails, RolledBack, Obstructed, SeedRefused
<1>14. CASE ContextExpires
  BY <1>14 DEF ContextExpires
<1>15. ASSUME NEW c \in Clients, ReadIn(c)
      PROVE  Progress'
  BY <1>15 DEF ReadIn, ClientVars, Disturbs
<1>16. ASSUME NEW c \in Clients, EndTransaction(c)
      PROVE  Progress'
  <2>1. UNCHANGED <<pc, kind, working, configured, metadata>>
    BY <1>16 DEF EndTransaction, ClientVars
  <2>2. CASE UNCHANGED <<committed, late>>
    BY <2>1, <2>2
  <2>3. CASE writer = c /\ committed' = working /\ late' = Late(working)
    <3>1. ~InTransaction
      BY <2>3
    <3>2. BeforeFirstCommit => late' = late
      BY <2>3 DEF Late
    <3>3. ASSUME pc \in {"foreignKeysOn", "beginSecond"} PROVE late' = working.rows
      <4>1. late' = (late \cup (working.rows \ committed.rows)) \cap working.rows
        BY <2>3, <3>3 DEF Late
      <4>2. committed.rows = late
        BY <3>3
      <4>. QED
        BY <4>1, <4>2, Zenon
    <3>. QED
      BY <2>1, <2>3, <3>1, <3>2, <3>3
  <2>. QED
    BY <1>16, <2>2, <2>3 DEF EndTransaction
<1>17. ASSUME NEW c \in Clients, RuntimeDDL(c)
      PROVE  Progress'
  BY <1>17 DEF RuntimeDDL, ClientVars, Disturbs
<1>18. ASSUME NEW c \in Clients, NEW r \in Keys, WriteIn(c, r)
      PROVE  Progress'
  BY <1>18 DEF WriteIn, ClientVars, Disturbs
<1>19. CASE UNCHANGED vars
  BY <1>19 DEF vars, history, memVars, dbVars, callVars, pastVars
<1>. QED
  BY <1>1, <1>2, <1>3, <1>4, <1>5, <1>6, <1>7, <1>8, <1>9, <1>10, <1>11,
     <1>12, <1>13, <1>14, <1>15, <1>16, <1>17, <1>18, <1>19
     DEF Next, ResetStep

\* Drop and set-up are committed whole.
LEMMA SchemaStep ==
    ASSUME ResetInv, [Next]_vars
    PROVE  SchemaKept'
<1>. USE ResetAssumption DEF ResetAssumption, ResetInv, TypeOK, Databases, Locks,
         Progress, SchemaKept, InTransaction, BetweenCommits, First, Second, dbVars,
         memVars, callVars, pastVars, history
<1>1. CASE ResetCall
  BY <1>1 DEF ResetCall
<1>2. CASE Decide
  BY <1>2 DEF Decide, DataOnly, Seen, Fails
<1>3. CASE ForeignKeysOff
  BY <1>3 DEF ForeignKeysOff, ForeignKeysSet, Fails
<1>4. CASE BeginFirst
  <2>1. UNCHANGED <<configured, committed, version, base, kind, changed>>
    BY <1>4 DEF BeginFirst
  <2>2. \/ writer' = Server /\ working' = committed
        \/ UNCHANGED <<writer, working>>
    BY <1>4 DEF BeginFirst
  <2>3. ~BetweenCommits'
    BY <1>4 DEF BeginFirst, Fails
  <2>. QED
    BY <2>1, <2>2, <2>3
<1>5. CASE Clear
  BY <1>5 DEF Clear, Works
<1>6. CASE CommitFirst
  BY <1>6 DEF CommitFirst
<1>7. CASE ForeignKeysOn
  BY <1>7 DEF ForeignKeysOn, Fails
<1>8. CASE BeginSecond
  BY <1>8 DEF BeginSecond, CanBegin, Fails
<1>9. CASE SetUp
  <2>1. UNCHANGED <<configured, committed, writer, version, base, kind, changed>>
    BY <1>9 DEF SetUp, Works
  <2>2. writer = Server /\ working'.schema \in {working.schema, working.schema \cup configured}
    BY <1>9 DEF SetUp, Works
  <2>3. ~changed => working.schema \in {{}, configured}
    BY <2>2
  <2>4. ~changed => working'.schema \in {{}, configured}
    <3>1. {} \cup configured = configured /\ configured \cup configured = configured
      OBVIOUS
    <3>. QED
      BY <2>2, <2>3, <3>1
  <2>. QED
    BY <1>9, <2>1, <2>2, <2>4 DEF SetUp
<1>10. CASE SeedRow
  BY <1>10 DEF SeedRow, Works
<1>11. CASE CommitSecond
  BY <1>11 DEF CommitSecond
<1>12. CASE Finish
  BY <1>12 DEF Finish
<1>13. CASE TransactionFails
  BY <1>13 DEF TransactionFails, Fails, RolledBack, Obstructed, SeedRefused
<1>14. CASE ContextExpires
  BY <1>14 DEF ContextExpires
<1>15. ASSUME NEW c \in Clients, ReadIn(c)
      PROVE  SchemaKept'
  BY <1>15 DEF ReadIn, ClientVars, Disturbs
<1>16. ASSUME NEW c \in Clients, EndTransaction(c)
      PROVE  SchemaKept'
  BY <1>16 DEF EndTransaction, ClientVars, Disturbs, Late
<1>17. ASSUME NEW c \in Clients, RuntimeDDL(c)
      PROVE  SchemaKept'
  BY <1>17 DEF RuntimeDDL, ClientVars, Disturbs
<1>18. ASSUME NEW c \in Clients, NEW r \in Keys, WriteIn(c, r)
      PROVE  SchemaKept'
  BY <1>18 DEF WriteIn, ClientVars, Disturbs
<1>19. CASE UNCHANGED vars
  BY <1>19 DEF vars, history, memVars, dbVars, callVars, pastVars
<1>. QED
  BY <1>1, <1>2, <1>3, <1>4, <1>5, <1>6, <1>7, <1>8, <1>9, <1>10, <1>11,
     <1>12, <1>13, <1>14, <1>15, <1>16, <1>17, <1>18, <1>19
     DEF Next, ResetStep

\* Only a trigger, or a client's DDL, makes a reset a full one.
LEMMA KindStep ==
    ASSUME ResetInv, [Next]_vars
    PROVE  KindFits'
<1>. USE ResetAssumption DEF ResetAssumption, ResetInv, TypeOK, Databases, Locks,
         Progress, SchemaKept, KindFits, InTransaction, BetweenCommits, First, Second,
         dbVars, memVars, callVars, pastVars, history
<1>1. CASE ResetCall
  BY <1>1 DEF ResetCall
<1>2. CASE Decide
  BY <1>2 DEF Decide, DataOnly, Seen, Fails
<1>3. CASE ForeignKeysOff
  BY <1>3 DEF ForeignKeysOff, ForeignKeysSet, Fails
<1>4. CASE BeginFirst
  BY <1>4 DEF BeginFirst, CanBegin, Fails, ForeignKeysSet
<1>5. CASE Clear
  BY <1>5 DEF Clear, Works
<1>6. CASE CommitFirst
  BY <1>6 DEF CommitFirst
<1>7. CASE ForeignKeysOn
  BY <1>7 DEF ForeignKeysOn, Fails
<1>8. CASE BeginSecond
  BY <1>8 DEF BeginSecond, CanBegin, Fails
<1>9. CASE SetUp
  BY <1>9 DEF SetUp, Works
<1>10. CASE SeedRow
  BY <1>10 DEF SeedRow, Works
<1>11. CASE CommitSecond
  BY <1>11 DEF CommitSecond
<1>12. CASE Finish
  BY <1>12 DEF Finish
<1>13. CASE TransactionFails
  BY <1>13 DEF TransactionFails, Fails, RolledBack, Obstructed, SeedRefused
<1>14. CASE ContextExpires
  BY <1>14 DEF ContextExpires
<1>15. ASSUME NEW c \in Clients, ReadIn(c)
      PROVE  KindFits'
  BY <1>15 DEF ReadIn, ClientVars, Disturbs
<1>16. ASSUME NEW c \in Clients, EndTransaction(c)
      PROVE  KindFits'
  BY <1>16 DEF EndTransaction, ClientVars, Disturbs, Late
<1>17. ASSUME NEW c \in Clients, RuntimeDDL(c)
      PROVE  KindFits'
  BY <1>17 DEF RuntimeDDL, ClientVars, Disturbs
<1>18. ASSUME NEW c \in Clients, NEW r \in Keys, WriteIn(c, r)
      PROVE  KindFits'
  BY <1>18 DEF WriteIn, ClientVars, Disturbs
<1>19. CASE UNCHANGED vars
  BY <1>19 DEF vars, history, memVars, dbVars, callVars, pastVars
<1>. QED
  BY <1>1, <1>2, <1>3, <1>4, <1>5, <1>6, <1>7, <1>8, <1>9, <1>10, <1>11,
     <1>12, <1>13, <1>14, <1>15, <1>16, <1>17, <1>18, <1>19
     DEF Next, ResetStep

LEMMA Invariance == Spec => []ResetInv
<1>1. Init => ResetInv
  BY InitInv
<1>2. ResetInv /\ [Next]_vars => ResetInv'
  BY TypeStep, LocksStep, AloneStep, ProgressStep, SchemaStep, KindStep DEF ResetInv
<1>. QED
  BY <1>1, <1>2, PTL DEF Spec

-----------------------------------------------------------------------------
(* The theorems.                                                           *)

\* The state of a Reset has its types, and the version never trails the base.
THEOREM ResetTypeCorrect == Spec => []TypeOK
<1>1. ResetInv => TypeOK
  BY DEF ResetInv
<1>. QED
  BY <1>1, Invariance, PTL

\* As long as no context ran out, each Reset, failed or not, leaves keepConn
\* without a transaction and with foreign keys enforced.
THEOREM ResetLeavesNothingOpen == Spec => []NothingLeftOpen
<1>1. ResetInv => NothingLeftOpen
  BY DEF ResetInv, Locks, NothingLeftOpen, InTransaction, First, Second
<1>. QED
  BY <1>1, Invariance, PTL

\* A configured plain table is visible to clients through any number of
\* resets, failed ones and ones whose context ran out included.
THEOREM TableStays == Spec => []TableStaysForClients
<1>1. ResetInv => TableStaysForClients
  BY DEF ResetInv, KindFits, TableStaysForClients
<1>. QED
  BY <1>1, Invariance, PTL

\* While Reset has the write lock, its two commits are all that is published.
LEMMA Publications ==
    ASSUME TypeOK, Next, writer = Server, committed' # committed
    PROVE  CommitFirst \/ CommitSecond
<1>. USE ResetAssumption DEF ResetAssumption, TypeOK, dbVars
<1>1. CASE ResetCall \/ ContextExpires
  BY <1>1 DEF ResetCall, ContextExpires
<1>2. CASE ResetStep
  BY <1>2 DEF ResetStep, Decide, ForeignKeysOff, BeginFirst, Clear, ForeignKeysOn,
              BeginSecond, SetUp, SeedRow, Finish, TransactionFails, Works
<1>3. ASSUME NEW c \in Clients, NEW r \in Keys, ReadIn(c) \/ WriteIn(c, r) PROVE FALSE
  BY <1>3 DEF ReadIn, WriteIn
<1>4. ASSUME NEW c \in Clients, ReadIn(c) \/ EndTransaction(c) \/ RuntimeDDL(c) PROVE FALSE
  BY <1>4 DEF ReadIn, EndTransaction, RuntimeDDL
<1>. QED
  BY <1>1, <1>2, <1>3, <1>4 DEF Next

\* Clients never see half a reset.
THEOREM NoHalfResetSeen == Spec => NoHalfReset
<1>1. ASSUME ResetInv, [Next]_vars, writer = Server, committed' # committed
      PROVE  committed'.rows = {} \/ Seed \subseteq committed'.rows
  <2>1. CommitFirst \/ CommitSecond
    BY <1>1, Publications DEF ResetInv, vars, dbVars
  <2>2. CASE CommitFirst
    BY <1>1, <2>2 DEF CommitFirst, ResetInv, Progress
  <2>3. CASE CommitSecond
    BY <2>3 DEF CommitSecond
  <2>. QED
    BY <2>1, <2>2, <2>3
<1>2. ResetInv /\ [Next]_vars =>
        [writer = Server /\ committed' # committed =>
           committed'.rows = {} \/ Seed \subseteq committed'.rows]_vars
  BY <1>1
<1>. QED
  BY <1>2, Invariance, PTL DEF Spec, NoHalfReset

\* Only CommitSecond leads from the seed to the end.
LEMMA SeedEnds ==
    ASSUME Next, pc = "seeding", pc' = "finish"
    PROVE  CommitSecond
<1>1. CASE ResetCall \/ ContextExpires
  BY <1>1 DEF ResetCall, ContextExpires
<1>2. CASE ResetStep
  BY <1>2 DEF ResetStep, Decide, ForeignKeysOff, BeginFirst, Clear, CommitFirst,
              ForeignKeysOn, BeginSecond, SetUp, SeedRow, Finish, TransactionFails, Fails
<1>3. ASSUME NEW c \in Clients, NEW r \in Keys, WriteIn(c, r) PROVE FALSE
  BY <1>3 DEF WriteIn, ClientVars
<1>4. ASSUME NEW c \in Clients, ReadIn(c) \/ EndTransaction(c) \/ RuntimeDDL(c) PROVE FALSE
  BY <1>4 DEF ReadIn, EndTransaction, RuntimeDDL, ClientVars
<1>. QED
  BY <1>1, <1>2, <1>3, <1>4 DEF Next

\* A Reset that succeeds has restored the seed, and the schema and its
\* metadata until a client changed it.  Without any seed row a data-only reset
\* would also succeed on a schema lost earlier, having nothing to insert.
THEOREM ResetRestoresWhatItSays == (Seed # {}) => (Spec => ResetRestoresData)
<1>. SUFFICES ASSUME Seed # {} PROVE Spec => ResetRestoresData
  OBVIOUS
<1>1. ASSUME ResetInv, [Next]_vars, pc = "seeding", pc' = "finish"
      PROVE  /\ committed'.rows = Seed \cup late
             /\ configured \subseteq committed'.schema
             /\ ~changed => committed'.schema = configured /\ metadata'
  <2>. USE <1>1 DEF ResetInv
  <2>1. CommitSecond
    BY SeedEnds DEF vars
  <2>2. /\ committed' = working /\ metadata' = metadata
        /\ Seed \subseteq working.rows \ committed.rows
    BY <2>1 DEF CommitSecond, memVars
  <2>3. /\ committed.rows = late /\ working.rows \subseteq committed.rows \cup Seed
        /\ committed.rows \subseteq working.rows
    BY DEF Progress, BetweenCommits, Second
  <2>4. working.rows = Seed \cup late
    BY <2>2, <2>3
  <2>5. "table" \in working.schema
    BY <2>2 DEF Progress
  <2>6. CASE kind = "full"
    <3>1. working.schema = committed.schema \cup configured /\ metadata
      BY <2>6 DEF Progress
    <3>2. ~changed => committed.schema = {}
      BY <2>6 DEF SchemaKept, BetweenCommits, Second
    <3>. QED
      BY <2>2, <2>4, <3>1, <3>2
  <2>7. CASE kind = "data"
    <3>1. working.schema = committed.schema
      BY <2>7 DEF Progress
    <3>2. configured \subseteq committed.schema
      BY <2>5, <3>1 DEF SchemaKept
    <3>3. ~changed => committed.schema = configured
      BY <2>5, <3>1 DEF SchemaKept
    <3>4. ~changed => "trigger" \notin configured
      BY <2>7, <3>3 DEF KindFits, BetweenCommits, Second
    <3>5. ~changed => metadata
      BY <3>4 DEF KindFits
    <3>. QED
      BY <2>2, <2>4, <3>1, <3>2, <3>3, <3>5
  <2>. QED
    BY <2>6, <2>7 DEF TypeOK
<1>2. ResetInv /\ [Next]_vars =>
        [pc = "seeding" /\ pc' = "finish" =>
           /\ committed'.rows = Seed \cup late
           /\ configured \subseteq committed'.schema
           /\ ~changed => committed'.schema = configured /\ metadata']_vars
  BY <1>1
<1>. QED
  BY <1>2, Invariance, PTL DEF Spec, ResetRestoresData

\* A Reset that is alone and in time succeeds, however those before it failed,
\* unless a context had run out or the schema was lost.
THEOREM ResetRecoversAlone == Spec => ResetRecovers
<1>1. ASSUME ResetInv, [Next]_vars, pc # "idle", pc' = "idle", Undisturbed, ~cut
      PROVE  result' = "ok" \/ "table" \notin committed.schema
  <2>. USE <1>1 DEF ResetInv, TypeOK, Undisturbed
  <2>1. reading = {} /\ late = {} /\ writer \notin Clients
    BY DEF Alone, Locks
  <2>2. CASE Finish
    BY <2>2 DEF Finish
  <2>3. ~(ResetCall \/ ContextExpires)
    BY DEF ResetCall, ContextExpires
  <2>4. ASSUME NEW c \in Clients, NEW r \in Keys,
               ReadIn(c) \/ EndTransaction(c) \/ RuntimeDDL(c) \/ WriteIn(c, r)
        PROVE  FALSE
    BY <2>4 DEF ReadIn, EndTransaction, RuntimeDDL, WriteIn, ClientVars
  <2>5. ASSUME NEW c \in Clients, ReadIn(c) \/ EndTransaction(c) \/ RuntimeDDL(c)
        PROVE  FALSE
    BY <2>5 DEF ReadIn, EndTransaction, RuntimeDDL, ClientVars
  <2>6. CASE BeginFirst \/ BeginSecond
    <3>1. ~InTransaction
      BY <2>6 DEF BeginFirst, BeginSecond, InTransaction, First, Second
    <3>2. CanBegin
      BY <2>1, <3>1 DEF CanBegin, Locks
    <3>. QED
      BY <2>6, <3>2 DEF BeginFirst, BeginSecond
  <2>7. CASE TransactionFails
    <3>1. SeedRefused
      BY <2>1, <2>7 DEF TransactionFails, Obstructed
    <3>2. committed.rows = {}
      BY <2>1, <3>1 DEF SeedRefused, Progress, BetweenCommits, Second
    <3>3. "table" \notin working.schema
      BY <3>1, <3>2 DEF SeedRefused
    <3>. QED
      BY <3>1, <3>3 DEF SeedRefused, Progress
  <2>8. CASE Decide \/ ForeignKeysOff \/ Clear \/ CommitFirst \/ ForeignKeysOn \/ SetUp
               \/ SeedRow \/ CommitSecond
    BY <2>8 DEF Decide, ForeignKeysOff, Clear, CommitFirst, ForeignKeysOn, SetUp, SeedRow,
                CommitSecond
  <2>9. Next
    BY DEF vars
  <2>. QED
    BY <2>2, <2>3, <2>4, <2>5, <2>6, <2>7, <2>8, <2>9 DEF Next, ResetStep
<1>2. ResetInv /\ [Next]_vars =>
        [pc # "idle" /\ pc' = "idle" /\ Undisturbed /\ ~cut =>
           result' = "ok" \/ "table" \notin committed.schema]_vars
  BY <1>1
<1>. QED
  BY <1>2, Invariance, PTL DEF Spec, ResetRecovers
=============================================================================
