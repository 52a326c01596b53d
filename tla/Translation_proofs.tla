------------------------- MODULE Translation_proofs -------------------------
(***************************************************************************)
(* What the server makes of texts, and remembers of them and of the        *)
(* schema, is what it should be, for any number of sessions, any schemas,  *)
(* texts and limit: proofs of the invariants of Metadata, of               *)
(* TranslationCache and of SQLScanner.                                     *)
(*                                                                         *)
(* Metadata.  An entry counts by its version, so the caches are right      *)
(* because versions never run ahead of the server's and because an entry,  *)
(* or a lookup on its way to store one, with the version there is now has  *)
(* what SQLite says now.  That is broken while a Reset has dropped the     *)
(* schema, and until it has counted the version up, and for the tables     *)
(* that clients have changed, until a Reset drops them: no version tells   *)
(* such a change.  The maps are right because they are filled statement by *)
(* statement with the schema, from nothing.                                *)
(*                                                                         *)
(* TranslationCache.  An entry is the kind of the text it stands under,    *)
(* never an error, and a session comes to the store only with a text that  *)
(* parses.                                                                 *)
(*                                                                         *)
(* SQLScanner.  Its functions are recursive, and what they compute for     *)
(* every text is proved by induction over the text: first that functions   *)
(* so defined exist, then what they are.  A part of a text that begins     *)
(* where a scan of the text comes by, and ends where it comes by, in white *)
(* space or before a closing parenthesis, is seen alike when scanned       *)
(* alone: quotes and comments have the same ends, or end with the part,    *)
(* and the depth is less by what was open where it begins.  The automaton  *)
(* that counts placeholders is back in code wherever a scan comes by, so   *)
(* it counts those that the scan sees, and what parts hold adds up.        *)
(***************************************************************************)
EXTENDS Metadata, TranslationCache, SQLScanner, TLAPS, FiniteSetTheorems, SequenceTheorems,
        WellFoundedInduction

-----------------------------------------------------------------------------
(* The inductive invariant of the caches.                                  *)

\* TypeOK without its bounds on versions, and with the shape of the cache.
Typed ==
    /\ script \in Scripts
    /\ committed \in Schema /\ working \in Schema
    /\ autoIncrementColumns \in SUBSET Tables
    /\ indexMetadata \in SUBSET SQLiteIndexes
    /\ tableDDL \in [Tables -> ShapesFound]
    /\ version \in Nat /\ base \in Nat
    /\ cache \in [Caches -> [Tables -> SUBSET Entries]]
    /\ pc \in {"setup", "closed", "idle", "decide", "drop", "begin", "apply", "bump",
               "clearCaches", "newBase"}
    /\ applied \in 0..Len(script)
    /\ job \in [Sessions -> Jobs]
    /\ resets \in 0..MaxResets /\ lookups \in 0..MaxLookups
    /\ failed \in BOOLEAN /\ torn \in BOOLEAN
    /\ touched \in SUBSET Tables /\ ddls \in 0..MaxDDLs

\* One count per Reset at most, so one that has not counted is one ahead.
VersionsCounted ==
    /\ version <= resets
    /\ pc \in {"decide", "drop", "begin", "apply", "bump"} => version < resets
    /\ base <= version
    /\ pc \notin {"clearCaches", "newBase"} => base = version

\* A lookup began with a version that there was; one of uniqueKeys has read
\* the version of its columns after its own.
Behind(j) ==
    /\ j.version <= version /\ j.inner <= version
    /\ j.pc \in {"lookColumns", "queryColumns", "storeColumns", "listIndexes",
                 "readIndexes"} =>
          j.version <= j.inner /\ j.cache = "keys"
    /\ j.pc = "readVersion" => j.cache = "keys"

\* No version is ahead of the server's.
VersionsBehind ==
    /\ \A c \in Caches, t \in Tables : \A e \in cache[c][t] : e.version <= version
    /\ \A c \in Caches, t \in Tables : \A e, f \in cache[c][t] : e = f
    /\ \A s \in Sessions : Behind(job[s])

\* No session is there before the setup is done.
QuietSetup ==
    pc = "setup" =>
        /\ \A c \in Caches, t \in Tables : cache[c][t] = {}
        /\ \A s \in Sessions : job[s].pc = "idle"

\* The schema that connections see is the one of the version there is now, but
\* for the tables that clients have changed.
Settling == pc # "bump" /\ ~torn

EntriesCurrent ==
    \A c \in Caches, t \in Tables \ touched : \A e \in cache[c][t] :
        e.version = version => e.content = Content(c, committed, t)

\* What lookups have found, each as far as it goes.
FoundCurrent(j) == j.table \notin touched =>
    /\ j.pc = "store" /\ j.version = version =>
          j.content = Content(j.cache, committed, j.table)
    /\ j.pc = "storeColumns" /\ j.inner = version =>
          j.content = Content("columns", committed, j.table)
    /\ j.pc = "listIndexes" /\ j.inner = version =>
          j.content.shape = ShapeOf(committed, j.table)
    /\ j.pc = "readIndexes" /\ j.inner = version =>
          j.content = Content("keys", committed, j.table)

CurrentWhenSettling ==
    Settling => EntriesCurrent /\ \A s \in Sessions : FoundCurrent(job[s])

CacheInv ==
    /\ Typed /\ VersionsCounted /\ VersionsBehind /\ QuietSetup /\ CurrentWhenSettling

-----------------------------------------------------------------------------
(* The inductive invariant of the maps.                                    *)

\* Statement n of the script, one of those applied, creates table t.
CreatedBy(t, n) == Creates(script[n]) /\ script[n].table = t

\* The maps describe table t of db, and have nothing of it if db has no t.
Described(db, t) ==
    /\ t \in autoIncrementColumns <=> ShapeOf(db, t) \notin {"plain", NoTable}
    /\ tableDDL[t] = ShapeOf(db, t)
    /\ {i \in indexMetadata : i[1] = t} = IndexesOf(db, t)

\* The maps and the schema grow together: a settled table is there once the
\* statement that creates it is applied, and not before.
GrowTogether ==
    pc \in {"setup", "apply"} =>
        \A t \in Tables \ touched : Settled(t) =>
            /\ Described(working, t)
            /\ \A n \in 1..applied : CreatedBy(t, n) => Exists(working, t)
            /\ Exists(working, t) => \E n \in 1..applied : CreatedBy(t, n)

DescribesCommitted ==
    \A t \in Tables \ touched :
        Settled(t) /\ Exists(committed, t) => Described(committed, t)

\* What the maps say between the statements of a Reset.  Where it has dropped
\* all tables there are those that clients made since.
MapsInv ==
    /\ GrowTogether
    /\ pc \in {"idle", "decide"} => failed \/ DescribesCommitted
    /\ pc = "begin" => \A t \in Tables \ touched : ~Exists(committed, t)
    /\ pc \in {"drop", "begin"} =>
          /\ autoIncrementColumns = {} /\ indexMetadata = {}
          /\ tableDDL = [t \in Tables |-> NoTable]
    /\ pc \in {"bump", "clearCaches", "newBase"} => DescribesCommitted

-----------------------------------------------------------------------------
(* Schemas and what lookups find in them.                                  *)

\* A lookup finds nothing else than contents of entries.
LEMMA ContentType ==
    ASSUME NEW db \in Schema, NEW t \in Tables, NEW c
    PROVE  /\ ShapeOf(db, t) \in ShapesFound
           /\ IndexesOf(db, t) \in SUBSET SQLiteIndexes
           /\ Content(c, db, t) \in Contents
<1>1. db.table[t] \in Table
  BY DEF Schema
<1>2. Exists(db, t) => db.table[t] \in [shape : Shapes, indexes : SUBSET SQLiteIndexes]
  BY <1>1 DEF Exists, Table
<1>3. ShapeOf(db, t) \in ShapesFound
  BY <1>2 DEF ShapeOf, ShapesFound
<1>4. IndexesOf(db, t) \in SUBSET SQLiteIndexes
  BY <1>2 DEF IndexesOf
<1>5. Content(c, db, t) \in Contents
  BY <1>3, <1>4 DEF Content, Contents, ShapesFound
<1>. QED
  BY <1>3, <1>4, <1>5

\* Replacing a table of a schema gives a schema.
LEMMA WithTableType ==
    ASSUME NEW db \in Schema, NEW t \in Tables, NEW what \in Table
    PROVE  /\ WithTable(db, t, what) \in Schema
           /\ WithTable(db, t, what).table[t] = what
           /\ WithTable(db, t, what).trigger = db.trigger
           /\ \A u \in Tables \ {t} : WithTable(db, t, what).table[u] = db.table[u]
BY DEF WithTable, Schema

\* Adding indexes to a table that is there changes nothing else.
LEMMA WithIndexesType ==
    ASSUME NEW db \in Schema, NEW t \in Tables, Exists(db, t), NEW names \in SUBSET IndexNames
    PROVE  /\ WithIndexes(db, t, names) \in Schema
           /\ \A u \in Tables \ {t} : WithIndexes(db, t, names).table[u] = db.table[u]
           /\ WithIndexes(db, t, names).table[t] =
                 [shape |-> ShapeOf(db, t), indexes |-> IndexesOf(db, t) \cup ({t} \X names)]
           /\ Exists(WithIndexes(db, t, names), t)
<1>. DEFINE what == [db.table[t] EXCEPT !.indexes = @ \cup ({t} \X names)]
            new == [shape |-> ShapeOf(db, t), indexes |-> IndexesOf(db, t) \cup ({t} \X names)]
<1>1. db.table[t] \in [shape : Shapes, indexes : SUBSET SQLiteIndexes]
  BY DEF Exists, Table, Schema
<1>2. what = new /\ new \in [shape : Shapes, indexes : SUBSET SQLiteIndexes]
  <2>1. PICK r \in [shape : Shapes, indexes : SUBSET SQLiteIndexes] : r = db.table[t]
    BY <1>1
  <2>2. {t} \X names \in SUBSET SQLiteIndexes
    BY DEF SQLiteIndexes
  <2>3. [r EXCEPT !.indexes = @ \cup ({t} \X names)] =
           [shape |-> r.shape, indexes |-> r.indexes \cup ({t} \X names)]
    OBVIOUS
  <2>4. what = new
    BY <2>1, <2>3, Zenon DEF ShapeOf, IndexesOf
  <2>5. ShapeOf(db, t) = r.shape /\ IndexesOf(db, t) = r.indexes
    BY <2>1 DEF ShapeOf, IndexesOf
  <2>. QED
    BY <2>2, <2>4, <2>5
<1>3. new \in Table /\ new # NoTable
  BY <1>2, MetadataAssumption DEF Table, SQLiteIndexes
<1>4. WithIndexes(db, t, names) = WithTable(db, t, new)
  BY <1>2 DEF WithIndexes
<1>5. WithIndexes(db, t, names).table[t] = new
      /\ WithIndexes(db, t, names) \in Schema
      /\ \A u \in Tables \ {t} : WithIndexes(db, t, names).table[u] = db.table[u]
  <2>. HIDE DEF new
  <2>. QED
    BY <1>3, <1>4, WithTableType
<1>6. Exists(WithIndexes(db, t, names), t)
  BY <1>3, <1>5 DEF Exists
<1>. QED
  BY <1>5, <1>6

\* Statements that have something to do with table t.
Touches(st, t) ==
    \/ st.op # "trigger" /\ st.table = t
    \/ st.op = "rename" /\ st.to = t

\* A statement that SQLite does not refuse makes a schema of a schema, and
\* leaves the tables that it does not name.
LEMMA AppliedSchema ==
    ASSUME NEW db \in Schema, NEW st \in Statements, ~Refused(db, st)
    PROVE  /\ Applied(db, st) \in Schema
           /\ \A t \in Tables : ~Touches(st, t) => Applied(db, st).table[t] = db.table[t]
           /\ Creates(st) /\ ~Exists(db, st.table) =>
                 Applied(db, st).table[st.table] =
                    [shape |-> st.shape, indexes |-> {st.table} \X st.indexes]
           /\ st.op = "addIndex" =>
                 Exists(db, st.table)
                 /\ Applied(db, st).table[st.table] =
                      [shape |-> ShapeOf(db, st.table),
                       indexes |-> IndexesOf(db, st.table) \cup ({st.table} \X {st.index})]
<1>1. CASE Creates(st)
  <2>. DEFINE there == IF Exists(db, st.table) THEN db
                       ELSE WithTable(db, st.table, [shape |-> st.shape, indexes |-> {}])
  <2>1. /\ st.table \in Tables /\ st.shape \in Shapes /\ st.indexes \in SUBSET IndexNames
        /\ \A t \in Tables : Touches(st, t) <=> t = st.table
    BY <1>1 DEF Creates, Statements, Touches
  <2>2. [shape |-> st.shape, indexes |-> {}] \in Table
        /\ [shape |-> st.shape, indexes |-> {}] # NoTable
    BY <2>1, MetadataAssumption DEF Table
  <2>3. there \in Schema /\ Exists(there, st.table)
        /\ \A t \in Tables \ {st.table} : there.table[t] = db.table[t]
    <3>. DEFINE bare == WithTable(db, st.table, [shape |-> st.shape, indexes |-> {}])
    <3>1. bare \in Schema /\ Exists(bare, st.table)
          /\ \A t \in Tables \ {st.table} : bare.table[t] = db.table[t]
      <4>1. PICK name \in Tables, e \in Table :
              name = st.table /\ e = [shape |-> st.shape, indexes |-> {}] /\ e # NoTable
        BY <2>1, <2>2
      <4>2. /\ WithTable(db, name, e) \in Schema /\ WithTable(db, name, e).table[name] = e
            /\ \A t \in Tables \ {name} : WithTable(db, name, e).table[t] = db.table[t]
        BY WithTableType
      <4>3. bare = WithTable(db, name, e)
        BY <4>1
      <4>. HIDE DEF bare
      <4>. QED
        BY <4>1, <4>2, <4>3 DEF Exists
    <3>. HIDE DEF bare
    <3>2. there = IF Exists(db, st.table) THEN db ELSE bare
      BY DEF bare
    <3>. HIDE DEF there
    <3>. QED
      BY <3>1, <3>2
  <2>4. Applied(db, st) = WithIndexes(there, st.table, st.indexes)
    BY <1>1 DEF Applied, Created, Creates
  <2>5. ~Exists(db, st.table) => there.table[st.table] = [shape |-> st.shape, indexes |-> {}]
    BY <2>1, <2>2, WithTableType
  <2>6. ~Exists(db, st.table) =>
           ShapeOf(there, st.table) = st.shape /\ IndexesOf(there, st.table) = {}
    BY <2>3, <2>5 DEF ShapeOf, IndexesOf
  <2>. HIDE DEF there
  <2>7. /\ WithIndexes(there, st.table, st.indexes) \in Schema
        /\ \A u \in Tables \ {st.table} :
              WithIndexes(there, st.table, st.indexes).table[u] = there.table[u]
        /\ WithIndexes(there, st.table, st.indexes).table[st.table] =
              [shape |-> ShapeOf(there, st.table),
               indexes |-> IndexesOf(there, st.table) \cup ({st.table} \X st.indexes)]
    BY <2>1, <2>3, WithIndexesType
  <2>8. \A t \in Tables : ~Touches(st, t) => Applied(db, st).table[t] = db.table[t]
    BY <2>1, <2>3, <2>4, <2>7
  <2>9. ~Exists(db, st.table) =>
          Applied(db, st).table[st.table] =
             [shape |-> st.shape, indexes |-> {st.table} \X st.indexes]
    BY <2>4, <2>6, <2>7
  <2>. QED
    BY <1>1, <2>4, <2>7, <2>8, <2>9 DEF Creates
<1>2. CASE st.op = "addIndex"
  <2>1. /\ st.table \in Tables /\ {st.index} \in SUBSET IndexNames
        /\ \A t \in Tables : Touches(st, t) <=> t = st.table
    BY <1>2 DEF Statements, Touches
  <2>2. Exists(db, st.table)
    BY <1>2 DEF Refused
  <2>3. Applied(db, st) = WithIndexes(db, st.table, {st.index})
    BY <1>2 DEF Applied
  <2>4. /\ WithIndexes(db, st.table, {st.index}) \in Schema
        /\ \A u \in Tables \ {st.table} :
              WithIndexes(db, st.table, {st.index}).table[u] = db.table[u]
        /\ WithIndexes(db, st.table, {st.index}).table[st.table] =
              [shape |-> ShapeOf(db, st.table),
               indexes |-> IndexesOf(db, st.table) \cup ({st.table} \X {st.index})]
    BY <2>1, <2>2, WithIndexesType
  <2>. QED
    BY <1>2, <2>1, <2>2, <2>3, <2>4 DEF Creates
<1>3. CASE st.op = "rename"
  <2>1. /\ st.table \in Tables /\ st.to \in Tables
        /\ \A t \in Tables : Touches(st, t) <=> t \in {st.table, st.to}
    BY <1>3 DEF Statements, Touches
  <2>2. db.table[st.table] \in Table /\ NoTable \in Table
    BY <2>1 DEF Schema, Table
  <2>. DEFINE moved == WithTable(db, st.to, db.table[st.table])
  <2>3. moved \in Schema /\ \A t \in Tables \ {st.to} : moved.table[t] = db.table[t]
    <3>1. PICK name \in Tables, what \in Table : name = st.to /\ what = db.table[st.table]
      BY <2>1, <2>2
    <3>2. /\ WithTable(db, name, what) \in Schema
          /\ \A t \in Tables \ {name} : WithTable(db, name, what).table[t] = db.table[t]
      BY WithTableType
    <3>. QED
      BY <3>1, <3>2
  <2>4. Applied(db, st) = WithTable(moved, st.table, NoTable)
    BY <1>3 DEF Applied
  <2>. HIDE DEF moved
  <2>5. /\ WithTable(moved, st.table, NoTable) \in Schema
        /\ \A t \in Tables \ {st.table} :
              WithTable(moved, st.table, NoTable).table[t] = moved.table[t]
    BY <2>1, <2>2, <2>3, WithTableType
  <2>. QED
    BY <1>3, <2>1, <2>3, <2>4, <2>5 DEF Creates
<1>4. CASE st.op = "drop"
  <2>1. /\ st.table \in Tables /\ NoTable \in Table
        /\ \A t \in Tables : Touches(st, t) <=> t = st.table
    BY <1>4 DEF Statements, Table, Touches
  <2>2. Applied(db, st) = WithTable(db, st.table, NoTable)
    BY <1>4 DEF Applied
  <2>. QED
    BY <1>4, <2>1, <2>2, WithTableType DEF Creates
<1>5. CASE st.op = "trigger"
  <2>1. Applied(db, st) = [db EXCEPT !.trigger = TRUE]
    BY <1>5 DEF Applied
  <2>. QED
    BY <1>5, <2>1 DEF Schema, Creates
<1>. QED
  BY <1>1, <1>2, <1>3, <1>4, <1>5 DEF Statements, Creates

-----------------------------------------------------------------------------
(* The caches.                                                             *)

LEMMA IdleType == Idle \in Jobs /\ Idle.version = 0 /\ Idle.inner = 0 /\ Idle.pc = "idle"
<1>1. (CHOOSE t \in Tables : TRUE) \in Tables
  BY MetadataAssumption
<1>. QED
  BY <1>1 DEF Idle, Jobs, Caches, Contents, NoContent, ShapesFound

LEMMA InitCacheInv == Init => CacheInv
<1>. SUFFICES ASSUME Init PROVE CacheInv
  OBVIOUS
<1>. USE DEF Init
<1>1. Len(script) \in Nat /\ MaxResets \in Nat /\ MaxLookups \in Nat /\ MaxDDLs \in Nat
  BY MetadataAssumption
<1>2. Empty \in Schema
  BY DEF Empty, Schema, Table
<1>3. Typed
  <2>1. job \in [Sessions -> Jobs]
    BY IdleType
  <2>2. cache \in [Caches -> [Tables -> SUBSET Entries]]
    OBVIOUS
  <2>3. tableDDL \in [Tables -> ShapesFound]
    BY DEF ShapesFound
  <2>4. applied \in 0..Len(script) /\ resets \in 0..MaxResets /\ lookups \in 0..MaxLookups
        /\ ddls \in 0..MaxDDLs
    BY <1>1
  <2>5. /\ autoIncrementColumns \in SUBSET Tables /\ indexMetadata \in SUBSET SQLiteIndexes
        /\ version \in Nat /\ base \in Nat
        /\ failed \in BOOLEAN /\ torn \in BOOLEAN /\ touched \in SUBSET Tables
        /\ pc = "setup" /\ script \in Scripts
        /\ committed \in Schema /\ working \in Schema
    BY <1>2
  <2>. QED
    BY <2>1, <2>2, <2>3, <2>4, <2>5, Zenon DEF Typed
<1>4. VersionsCounted
  BY DEF VersionsCounted
<1>5. VersionsBehind
  BY IdleType DEF VersionsBehind, Behind
<1>6. QuietSetup
  BY IdleType DEF QuietSetup
<1>7. CurrentWhenSettling
  BY IdleType DEF CurrentWhenSettling, EntriesCurrent, FoundCurrent
<1>. QED
  BY <1>3, <1>4, <1>5, <1>6, <1>7 DEF CacheInv

\* Steps of the setup and of Reset.  Those that change what connections see
\* leave the states in which entries have to be current.
LEMMA ResetCacheInv == CacheInv /\ (ResetCall \/ ResetStep) => CacheInv'
<1>. SUFFICES ASSUME CacheInv, ResetCall \/ ResetStep PROVE CacheInv'
  OBVIOUS
<1>. USE DEF CacheInv
<1>1. script \in Seq(Statements) /\ Len(script) \in Nat /\ MaxResets \in Nat
  BY MetadataAssumption DEF Typed
<1>2. CASE ResetCall
  <2>. USE <1>2 DEF ResetCall, dbVars, ddlVars, mapVars, lookupVars
  <2>1. Typed'
    BY <1>1 DEF Typed
  <2>2. VersionsCounted'
    BY DEF Typed, VersionsCounted
  <2>3. VersionsBehind' /\ QuietSetup'
    BY DEF VersionsBehind, Behind, QuietSetup
  <2>4. CurrentWhenSettling'
    BY DEF CurrentWhenSettling, Settling, EntriesCurrent, FoundCurrent
  <2>. QED
    BY <2>1, <2>2, <2>3, <2>4
<1>3. CASE ApplyStatement
  <2>. USE <1>3 DEF ApplyStatement, ddlVars, lookupVars
  <2>1. script[applied + 1] \in Statements
    BY <1>1 DEF Typed
  <2>2. working' \in Schema
    BY <2>1, AppliedSchema DEF Typed
  <2>3. indexMetadata' \in SUBSET SQLiteIndexes
    BY <2>1 DEF Recorded, IndexesRecorded, Creates, Typed, Statements, SQLiteIndexes
  <2>4. autoIncrementColumns' \in SUBSET Tables
    BY <2>1 DEF Recorded, AutoIncrementRecorded, Creates, Typed, Statements
  <2>5. tableDDL' \in [Tables -> ShapesFound]
    BY <2>1 DEF Recorded, DDLRecorded, Creates, Typed, Statements, ShapesFound
  <2>6. applied' \in 0..Len(script)
    BY <1>1 DEF Typed
  <2>7. Typed'
    BY <2>2, <2>3, <2>4, <2>5, <2>6 DEF Typed
  <2>8. VersionsCounted' /\ VersionsBehind' /\ QuietSetup'
    BY DEF VersionsCounted, VersionsBehind, Behind, QuietSetup
  <2>9. CurrentWhenSettling'
    BY DEF CurrentWhenSettling, Settling, EntriesCurrent, FoundCurrent
  <2>. QED
    BY <2>7, <2>8, <2>9
<1>4. CASE CommitSetup
  <2>. USE <1>4 DEF CommitSetup, ddlVars, mapVars, lookupVars
  <2>1. Typed'
    BY DEF Typed
  <2>2. VersionsCounted' /\ VersionsBehind'
    BY DEF VersionsCounted, VersionsBehind, Behind
  <2>3. QuietSetup'
    BY DEF QuietSetup
  <2>4. CurrentWhenSettling'
    <3>1. CASE pc = "setup"
      BY <3>1 DEF CurrentWhenSettling, QuietSetup, EntriesCurrent, FoundCurrent
    <3>2. CASE pc = "apply"
      BY <3>2 DEF CurrentWhenSettling, Settling
    <3>. QED
      BY <3>1, <3>2
  <2>. QED
    BY <2>1, <2>2, <2>3, <2>4
<1>5. CASE SetupFails
  <2>. USE <1>5 DEF SetupFails, ResetFails, dbVars, ddlVars, mapVars, lookupVars
  <2>1. Typed'
    BY DEF Typed
  <2>2. VersionsCounted' /\ VersionsBehind' /\ QuietSetup'
    BY DEF VersionsCounted, VersionsBehind, Behind, QuietSetup
  <2>3. CurrentWhenSettling'
    BY DEF CurrentWhenSettling, Settling, EntriesCurrent, FoundCurrent
  <2>. QED
    BY <2>1, <2>2, <2>3
<1>6. CASE Decide
  <2>. USE <1>6 DEF Decide, dbVars, ddlVars, mapVars, lookupVars
  <2>1. Typed'
    BY DEF Typed, ShapesFound
  <2>2. VersionsCounted' /\ VersionsBehind' /\ QuietSetup'
    BY DEF VersionsCounted, VersionsBehind, Behind, QuietSetup
  <2>3. CurrentWhenSettling'
    BY DEF CurrentWhenSettling, Settling, EntriesCurrent, FoundCurrent
  <2>. QED
    BY <2>1, <2>2, <2>3
<1>7. CASE DropObjects
  <2>. USE <1>7 DEF DropObjects, ResetFails, mapVars, lookupVars
  <2>1. Empty \in Schema
    BY DEF Empty, Schema, Table
  <2>2. Typed'
    BY <2>1 DEF Typed
  <2>3. VersionsCounted' /\ VersionsBehind' /\ QuietSetup'
    BY DEF VersionsCounted, VersionsBehind, Behind, QuietSetup
  <2>4. CurrentWhenSettling'
    BY DEF CurrentWhenSettling, Settling, EntriesCurrent, FoundCurrent
  <2>. QED
    BY <2>2, <2>3, <2>4
<1>8. CASE BeginSetup
  <2>. USE <1>8 DEF BeginSetup, ddlVars, mapVars, lookupVars
  <2>1. Typed'
    BY <1>1 DEF Typed
  <2>2. VersionsCounted' /\ VersionsBehind' /\ QuietSetup'
    BY DEF VersionsCounted, VersionsBehind, Behind, QuietSetup
  <2>3. CurrentWhenSettling'
    BY DEF CurrentWhenSettling, Settling, EntriesCurrent, FoundCurrent
  <2>. QED
    BY <2>1, <2>2, <2>3
<1>9. CASE Bump
  <2>. USE <1>9 DEF Bump, dbVars, ddlVars, mapVars, lookupVars
  <2>1. Typed'
    BY DEF Typed
  <2>2. VersionsCounted' /\ QuietSetup'
    BY DEF VersionsCounted, QuietSetup, Typed
  <2>3. \A v \in Nat : v <= version => v <= version' /\ v # version'
    BY DEF Typed
  <2>4. \A c \in Caches, t \in Tables : \A e \in cache[c][t] :
          e.version \in Nat /\ e.version <= version
    BY DEF Typed, VersionsBehind, Entries
  <2>5. \A s \in Sessions :
          /\ job[s].version \in Nat /\ job[s].version <= version
          /\ job[s].inner \in Nat /\ job[s].inner <= version
    BY DEF Typed, VersionsBehind, Behind, Jobs
  <2>6. VersionsBehind'
    BY <2>3, <2>4, <2>5 DEF VersionsBehind, Behind
  <2>7. CurrentWhenSettling'
    BY <2>3, <2>4, <2>5 DEF CurrentWhenSettling, EntriesCurrent, FoundCurrent
  <2>. QED
    BY <2>1, <2>2, <2>6, <2>7
<1>10. CASE ClearCaches
  <2>. USE <1>10 DEF ClearCaches, dbVars, ddlVars, mapVars, lookupVars
  <2>1. Typed'
    BY DEF Typed
  <2>2. VersionsCounted' /\ VersionsBehind' /\ QuietSetup'
    BY DEF VersionsCounted, VersionsBehind, Behind, QuietSetup
  <2>3. CurrentWhenSettling'
    BY DEF CurrentWhenSettling, Settling, EntriesCurrent, FoundCurrent
  <2>. QED
    BY <2>1, <2>2, <2>3
<1>11. CASE NewBase
  <2>. USE <1>11 DEF NewBase, dbVars, ddlVars, mapVars, lookupVars
  <2>1. Typed'
    BY DEF Typed
  <2>2. VersionsCounted' /\ VersionsBehind' /\ QuietSetup'
    BY DEF VersionsCounted, VersionsBehind, Behind, QuietSetup, Typed
  <2>3. CurrentWhenSettling'
    BY DEF CurrentWhenSettling, Settling, EntriesCurrent, FoundCurrent
  <2>. QED
    BY <2>1, <2>2, <2>3
<1>. QED
  BY <1>2, <1>3, <1>4, <1>5, <1>6, <1>7, <1>8, <1>9, <1>10, <1>11 DEF ResetStep

\* What all steps of a lookup have in common: what they have to show of the
\* lookup as the step leaves it.
LEMMA JobStep ==
    ASSUME CacheInv, NEW s \in Sessions, NEW j \in Jobs,
           job' = [job EXCEPT ![s] = j], lookups' \in 0..MaxLookups,
           UNCHANGED <<dbVars, mapVars, version, base, resetVars>>,
           pc # "setup", Behind(j), Settling => FoundCurrent(j)
    PROVE  /\ cache' = cache => CacheInv'
           /\ cache' \in [Caches -> [Tables -> SUBSET Entries]] => Typed'
           /\ VersionsCounted' /\ QuietSetup'
           /\ \A r \in Sessions : Behind(job[r])'
           /\ Settling' => \A r \in Sessions : FoundCurrent(job[r])'
<1>. USE DEF CacheInv, dbVars, ddlVars, mapVars, resetVars
<1>1. \A r \in Sessions : job'[r] = IF r = s THEN j ELSE job[r]
  BY DEF Typed
<1>2. job' \in [Sessions -> Jobs]
  BY DEF Typed
<1>3. cache' \in [Caches -> [Tables -> SUBSET Entries]] => Typed'
  BY <1>2 DEF Typed
<1>4. VersionsCounted' /\ QuietSetup'
  BY DEF VersionsCounted, QuietSetup
<1>5. \A r \in Sessions : Behind(job[r])'
  BY <1>1 DEF VersionsBehind, Behind
<1>6. Settling' => \A r \in Sessions : FoundCurrent(job[r])'
  BY <1>1 DEF CurrentWhenSettling, Settling, FoundCurrent
<1>7. ASSUME cache' = cache PROVE CacheInv'
  <2>1. Typed'
    BY <1>3, <1>7 DEF Typed
  <2>2. VersionsBehind'
    BY <1>5, <1>7 DEF VersionsBehind
  <2>3. CurrentWhenSettling'
    BY <1>6, <1>7 DEF CurrentWhenSettling, Settling, EntriesCurrent
  <2>. QED
    BY <1>4, <2>1, <2>2, <2>3
<1>. QED
  BY <1>3, <1>4, <1>5, <1>6, <1>7

\* Steps of the lookup of a session.
LEMMA LookupCacheInv ==
    ASSUME CacheInv, NEW s \in Sessions, Lookup(s)
    PROVE  CacheInv'
<1>. USE DEF CacheInv
<1>1. PICK k \in Jobs : k = job[s]
  BY DEF Typed
<1>2. Behind(k) /\ (Settling => FoundCurrent(k))
  BY <1>1 DEF VersionsBehind, CurrentWhenSettling
<1>3. pc = "setup" => k.pc = "idle"
  BY <1>1 DEF QuietSetup
<1>4. version \in Nat /\ lookups \in 0..MaxLookups /\ MaxLookups \in Nat
  BY MetadataAssumption DEF Typed
<1>5. CASE Start(s)
  <2>. USE <1>5 DEF Start
  <2>1. PICK c \in Caches, t \in Tables :
          job' = [job EXCEPT ![s] = [Idle EXCEPT !.pc = "look", !.cache = c, !.table = t,
                                                 !.version = version]]
    OBVIOUS
  <2>. DEFINE j == [Idle EXCEPT !.pc = "look", !.cache = c, !.table = t, !.version = version]
  <2>2. j \in Jobs /\ j.version = version /\ j.inner = 0 /\ j.pc = "look"
    BY <1>4, IdleType DEF Jobs
  <2>3. Behind(j) /\ FoundCurrent(j)
    BY <1>4, <2>2 DEF Behind, FoundCurrent
  <2>4. lookups' \in 0..MaxLookups
    BY <1>4
  <2>5. job' = [job EXCEPT ![s] = j] /\ pc # "setup" /\ cache' = cache
    BY <2>1
  <2>. HIDE DEF j
  <2>. QED
    BY <2>2, <2>3, <2>4, <2>5, JobStep
<1>6. CASE Look(s)
  <2>. USE <1>6 DEF Look, Steps
  <2>. DEFINE next == IF Hit(k.cache, k.table, k.version) # {} THEN "idle"
                      ELSE IF k.cache = "keys" THEN "readVersion" ELSE "query"
              j == [k EXCEPT !.pc = next]
  <2>1. job' = [job EXCEPT ![s] = j] /\ cache' = cache /\ k.pc = "look"
    BY <1>1 DEF Typed
  <2>2. j \in Jobs /\ j.pc = next /\ j.cache = k.cache
        /\ j.version = k.version /\ j.inner = k.inner
    BY DEF Jobs
  <2>3. Behind(j) /\ FoundCurrent(j)
    BY <1>2, <2>2 DEF Behind, FoundCurrent
  <2>. HIDE DEF j
  <2>. QED
    BY <1>3, <1>4, <2>1, <2>2, <2>3, JobStep
<1>7. CASE ReadVersion(s)
  <2>. USE <1>7 DEF ReadVersion
  <2>. DEFINE j == [k EXCEPT !.pc = "lookColumns", !.inner = version]
  <2>1. job' = [job EXCEPT ![s] = j] /\ cache' = cache /\ k.pc = "readVersion"
    BY <1>1 DEF Typed
  <2>2. j \in Jobs /\ j.pc = "lookColumns" /\ j.cache = k.cache
        /\ j.version = k.version /\ j.inner = version
    BY <1>4 DEF Jobs
  <2>3. Behind(j) /\ FoundCurrent(j)
    BY <1>2, <1>4, <2>1, <2>2 DEF Behind, FoundCurrent
  <2>. HIDE DEF j
  <2>. QED
    BY <1>3, <1>4, <2>1, <2>2, <2>3, JobStep
<1>8. CASE LookColumns(s)
  <2>. USE <1>8 DEF LookColumns
  <2>1. cache' = cache /\ k.pc = "lookColumns" /\ k.cache = "keys"
    BY <1>1, <1>2 DEF Behind
  <2>2. CASE Hit("columns", k.table, k.inner) = {}
    <3>. DEFINE j == [k EXCEPT !.pc = "queryColumns"]
    <3>1. job' = [job EXCEPT ![s] = j]
      BY <1>1, <2>2 DEF Typed
    <3>2. j \in Jobs /\ j.pc = "queryColumns" /\ j.cache = k.cache
          /\ j.version = k.version /\ j.inner = k.inner
      BY DEF Jobs
    <3>3. Behind(j) /\ FoundCurrent(j)
      BY <1>2, <2>1, <3>2 DEF Behind, FoundCurrent
    <3>. HIDE DEF j
    <3>. QED
      BY <1>3, <1>4, <2>1, <3>1, <3>2, <3>3, JobStep
  <2>3. CASE Hit("columns", k.table, k.inner) # {}
    <3>1. PICK e \in Hit("columns", k.table, k.inner) :
            job' = [job EXCEPT ![s].pc = "listIndexes", ![s].content = e.content]
      BY <1>1, <2>3
    <3>. DEFINE j == [k EXCEPT !.pc = "listIndexes", !.content = e.content]
    <3>2. job' = [job EXCEPT ![s] = j]
      BY <1>1, <3>1 DEF Typed
    <3>3. "columns" \in Caches /\ k.table \in Tables
      BY DEF Caches, Jobs
    <3>4. e \in cache["columns"][k.table] /\ e \in Entries /\ e.version = k.inner
      <4>1. e \in cache["columns"][k.table] /\ e.version = k.inner
        BY <3>1 DEF Hit
      <4>2. cache \in [Caches -> [Tables -> SUBSET Entries]]
        BY DEF Typed
      <4>3. cache["columns"] \in [Tables -> SUBSET Entries]
        BY <3>3, <4>2
      <4>4. cache["columns"][k.table] \subseteq Entries
        BY <3>3, <4>3
      <4>. QED
        BY <4>1, <4>4
    <3>5. e.content \in Contents
      BY <3>4 DEF Entries
    <3>6. j \in Jobs /\ j.pc = "listIndexes" /\ j.cache = k.cache /\ j.content = e.content
          /\ j.version = k.version /\ j.inner = k.inner /\ j.table = k.table
      BY <3>5 DEF Jobs
    <3>7. Behind(j)
      BY <1>2, <2>1, <3>6 DEF Behind
    <3>8. Settling /\ k.inner = version /\ k.table \notin touched =>
            e.content = Content("columns", committed, k.table)
      BY <3>3, <3>4 DEF CurrentWhenSettling, EntriesCurrent
    <3>9. Settling => FoundCurrent(j)
      BY <3>6, <3>8 DEF FoundCurrent, Content
    <3>. HIDE DEF j
    <3>. QED
      BY <1>3, <1>4, <2>1, <3>2, <3>6, <3>7, <3>9, JobStep
  <2>. QED
    BY <2>2, <2>3
<1>9. CASE Query(s)
  <2>. USE <1>9 DEF Query
  <2>. DEFINE c == IF k.pc = "query" THEN k.cache ELSE "columns"
              j == [k EXCEPT !.pc = IF k.pc = "query" THEN "store" ELSE "storeColumns",
                             !.content = Content(c, committed, k.table)]
  <2>1. cache' = cache /\ k.pc \in {"query", "queryColumns"}
    BY <1>1
  <2>2. job' = [job EXCEPT ![s] = j]
    BY <1>1 DEF Typed
  <2>3. k.table \in Tables
    BY DEF Jobs
  <2>4. Content(c, committed, k.table) \in Contents
    BY <2>3, ContentType DEF Typed
  <2>5. /\ j \in Jobs /\ j.pc = IF k.pc = "query" THEN "store" ELSE "storeColumns"
        /\ j.cache = k.cache /\ j.table = k.table
        /\ j.version = k.version /\ j.inner = k.inner
        /\ j.content = Content(c, committed, k.table)
    BY <2>4 DEF Jobs
  <2>6. Behind(j)
    BY <1>2, <2>1, <2>5 DEF Behind
  <2>7. FoundCurrent(j)
    BY <2>1, <2>5 DEF FoundCurrent
  <2>. HIDE DEF j, c
  <2>. QED
    BY <1>3, <1>4, <2>1, <2>2, <2>5, <2>6, <2>7, JobStep
<1>10. CASE QueryRefused(s)
  <2>. USE <1>10 DEF QueryRefused
  <2>1. Behind(Idle) /\ FoundCurrent(Idle)
    BY <1>4, IdleType DEF Behind, FoundCurrent
  <2>2. pc # "setup"
    BY <1>1, <1>3
  <2>. QED
    BY <1>4, <2>1, <2>2, IdleType, JobStep
<1>11. CASE ListIndexes(s)
  <2>. DEFINE listed == IndexesOf(committed, k.table)
              found == [shape |-> k.content.shape, indexes |-> listed]
              next == IF listed = {} THEN "store" ELSE "readIndexes"
              j == [k EXCEPT !.pc = next, !.content = found, !.unread = listed]
  <2>1. cache' = cache /\ k.pc = "listIndexes" /\ k.cache = "keys" /\ k.version <= k.inner
    BY <1>1, <1>2, <1>11 DEF ListIndexes, Behind
  <2>2. k.content \in Contents /\ k.table \in Tables /\ k.inner \in Nat /\ k.version \in Nat
    BY DEF Jobs
  <2>3. job' = [job EXCEPT ![s] = j]
    <3>1. found = [k.content EXCEPT !.indexes = listed]
      BY <2>2 DEF Contents
    <3>2. job' = [job EXCEPT ![s].pc = next, ![s].content.indexes = listed,
                             ![s].unread = listed]
      BY <1>1, <1>11 DEF ListIndexes
    <3>. HIDE DEF found, next, listed
    <3>3. job' = [job EXCEPT ![s] = [job[s] EXCEPT !.pc = next,
                                       !.content = [@ EXCEPT !.indexes = listed],
                                       !.unread = listed]]
      BY <3>2 DEF Typed
    <3>. QED
      BY <1>1, <3>1, <3>3 DEF Jobs
  <2>4. listed \in SUBSET SQLiteIndexes
    BY <2>2, ContentType DEF Typed
  <2>5. found \in Contents
    BY <2>2, <2>4 DEF Contents
  <2>6. /\ j \in Jobs /\ j.pc = next /\ j.cache = "keys" /\ j.table = k.table
        /\ j.version = k.version /\ j.inner = k.inner /\ j.content = found
    BY <2>1, <2>4, <2>5 DEF Jobs
  <2>7. Behind(j)
    BY <1>2, <2>1, <2>6 DEF Behind
  <2>8. k.version = version => k.inner = version
    BY <1>2, <1>4, <2>1, <2>2 DEF Behind
  <2>9. Settling /\ k.table \notin touched /\ k.inner = version =>
          found = Content("keys", committed, k.table)
    BY <1>2, <2>1 DEF FoundCurrent, Content
  <2>10. Settling => FoundCurrent(j)
    BY <2>6, <2>8, <2>9 DEF FoundCurrent
  <2>11. UNCHANGED <<dbVars, mapVars, version, base, resetVars, lookups>>
    BY <1>11 DEF ListIndexes
  <2>. HIDE DEF j, found, listed
  <2>. QED
    BY <1>3, <1>4, <2>1, <2>3, <2>6, <2>7, <2>10, <2>11, JobStep
<1>12. CASE ReadIndex(s)
  <2>1. PICK name \in k.unread :
          job' = [job EXCEPT ![s].pc = IF k.unread = {name} THEN "store" ELSE @,
                             ![s].content.indexes = @ \ ({name} \ AllIndexes(committed)),
                             ![s].unread = @ \ {name}]
    BY <1>1, <1>12 DEF ReadIndex
  <2>. DEFINE kept == k.content.indexes \ ({name} \ AllIndexes(committed))
              found == [shape |-> k.content.shape, indexes |-> kept]
              next == IF k.unread = {name} THEN "store" ELSE k.pc
              j == [k EXCEPT !.pc = next, !.content = found, !.unread = k.unread \ {name}]
  <2>2. cache' = cache /\ k.pc = "readIndexes" /\ k.cache = "keys" /\ k.version <= k.inner
    BY <1>1, <1>2, <1>12 DEF ReadIndex, Behind
  <2>3. /\ k.content \in Contents /\ k.table \in Tables /\ k.inner \in Nat
        /\ k.version \in Nat /\ k.unread \in SUBSET SQLiteIndexes
    BY DEF Jobs
  <2>4. job' = [job EXCEPT ![s] = j]
    <3>1. found = [k.content EXCEPT !.indexes = kept]
      BY <2>3 DEF Contents
    <3>2. job[s] = k /\ job \in [Sessions -> Jobs]
      BY <1>1 DEF Typed
    <3>3. job' = [job EXCEPT ![s].pc = next, ![s].content.indexes = kept,
                             ![s].unread = k.unread \ {name}]
      BY <2>1, <3>2, Zenon
    <3>. DEFINE rest == k.unread \ {name}
    <3>. HIDE DEF found, next, kept, rest
    <3>4. job' = [job EXCEPT ![s] = [job[s] EXCEPT !.pc = next,
                                       !.content = [@ EXCEPT !.indexes = kept],
                                       !.unread = rest]]
      BY <3>3, Zenon DEF rest
    <3>. QED
      BY <3>1, <3>2, <3>4 DEF Jobs, rest
  <2>5. found \in Contents
    BY <2>3 DEF Contents
  <2>6. /\ j \in Jobs /\ j.pc = next /\ j.cache = "keys" /\ j.table = k.table
        /\ j.version = k.version /\ j.inner = k.inner /\ j.content = found
    BY <2>2, <2>3, <2>5 DEF Jobs
  <2>7. Behind(j)
    BY <1>2, <2>2, <2>6 DEF Behind
  <2>8. k.version = version => k.inner = version
    BY <1>2, <1>4, <2>2, <2>3 DEF Behind
  <2>9. Settling /\ k.table \notin touched /\ k.inner = version =>
          found = Content("keys", committed, k.table)
    <3>. SUFFICES ASSUME Settling, k.table \notin touched, k.inner = version
                  PROVE  found = Content("keys", committed, k.table)
      OBVIOUS
    <3>1. k.content = Content("keys", committed, k.table)
      BY <1>2, <2>2 DEF FoundCurrent
    <3>2. k.content.shape = ShapeOf(committed, k.table)
          /\ k.content.indexes = IndexesOf(committed, k.table)
      BY <3>1 DEF Content
    <3>3. IndexesOf(committed, k.table) \subseteq AllIndexes(committed)
      BY <2>3 DEF AllIndexes
    <3>4. kept = IndexesOf(committed, k.table)
      BY <3>2, <3>3
    <3>. QED
      BY <3>2, <3>4 DEF Content
  <2>10. Settling => FoundCurrent(j)
    BY <2>2, <2>6, <2>8, <2>9 DEF FoundCurrent
  <2>11. UNCHANGED <<dbVars, mapVars, version, base, resetVars, lookups>>
    BY <1>12 DEF ReadIndex
  <2>. HIDE DEF j, found, kept
  <2>. QED
    BY <1>3, <1>4, <2>2, <2>4, <2>6, <2>7, <2>10, <2>11, JobStep
<1>13. CASE Store(s)
  <2>. USE <1>13 DEF Store
  <2>. DEFINE c == IF k.pc = "store" THEN k.cache ELSE "columns"
              entry == [version |-> EntryVersion(k), content |-> k.content]
              j == IF k.pc = "store" THEN Idle ELSE [k EXCEPT !.pc = "listIndexes"]
  <2>1. k.pc \in {"store", "storeColumns"}
        /\ cache' = [cache EXCEPT ![c][k.table] = {entry}]
        /\ job' = [job EXCEPT ![s] = j]
    BY <1>1
  <2>2. k.content \in Contents /\ k.table \in Tables /\ c \in Caches
        /\ k.inner \in Nat /\ k.version \in Nat
    BY DEF Jobs, Caches
  <2>3. entry \in Entries /\ entry.version <= version
    BY <1>2, <2>2 DEF Entries, EntryVersion, Behind
  <2>4. cache' \in [Caches -> [Tables -> SUBSET Entries]]
        /\ \A d \in Caches, t \in Tables :
              cache'[d][t] = IF d = c /\ t = k.table THEN {entry} ELSE cache[d][t]
    <3>. HIDE DEF c, entry
    <3>1. {entry} \in SUBSET Entries
      BY <2>3
    <3>2. cache \in [Caches -> [Tables -> SUBSET Entries]]
      BY DEF Typed
    <3>. DEFINE row == [cache[c] EXCEPT ![k.table] = {entry}]
    <3>3. row \in [Tables -> SUBSET Entries]
          /\ \A t \in Tables : row[t] = IF t = k.table THEN {entry} ELSE cache[c][t]
      BY <2>2, <3>1, <3>2
    <3>4. cache' = [cache EXCEPT ![c] = row]
      BY <2>1
    <3>. HIDE DEF row
    <3>5. cache' \in [Caches -> [Tables -> SUBSET Entries]]
      BY <2>2, <3>2, <3>3, <3>4
    <3>6. \A d \in Caches, t \in Tables :
            cache'[d][t] = IF d = c /\ t = k.table THEN {entry} ELSE cache[d][t]
      BY <2>2, <3>2, <3>3, <3>4
    <3>. QED
      BY <3>5, <3>6
  <2>5. Settling /\ entry.version = version /\ k.table \notin touched =>
          entry.content = Content(c, committed, k.table)
    BY <1>2, <2>1 DEF EntryVersion, FoundCurrent
  <2>6. j \in Jobs /\ Behind(j) /\ (Settling => FoundCurrent(j))
    <3>1. CASE k.pc = "store"
      BY <1>4, <3>1, IdleType DEF Behind, FoundCurrent
    <3>2. CASE k.pc = "storeColumns"
      <4>1. j \in Jobs /\ j.pc = "listIndexes" /\ j.cache = k.cache /\ j.table = k.table
            /\ j.version = k.version /\ j.inner = k.inner /\ j.content = k.content
        BY <3>2 DEF Jobs
      <4>2. Behind(j)
        BY <1>2, <3>2, <4>1 DEF Behind
      <4>3. Settling => FoundCurrent(j)
        BY <1>2, <3>2, <4>1 DEF FoundCurrent, Content
      <4>. QED
        BY <4>1, <4>2, <4>3
    <3>. QED
      BY <2>1, <3>1, <3>2
  <2>. HIDE DEF j, c, entry
  <2>7. /\ Typed' /\ VersionsCounted' /\ QuietSetup'
        /\ \A r \in Sessions : Behind(job[r])'
        /\ Settling' => \A r \in Sessions : FoundCurrent(job[r])'
    BY <1>3, <1>4, <2>1, <2>4, <2>6, JobStep
  <2>8. UNCHANGED <<version, committed, touched, pc, torn>>
    BY DEF dbVars, ddlVars, resetVars
  <2>9. VersionsBehind'
    <3>1. ASSUME NEW d \in Caches, NEW t \in Tables
          PROVE  /\ \A e \in cache'[d][t] : e.version <= version
                 /\ \A e, f \in cache'[d][t] : e = f
      <4>1. CASE d = c /\ t = k.table
        <5>1. cache'[d][t] = {entry}
          BY <2>4, <4>1
        <5>. QED
          BY <2>3, <5>1
      <4>2. CASE ~(d = c /\ t = k.table)
        <5>1. cache'[d][t] = cache[d][t]
          BY <2>4, <4>2
        <5>2. /\ \A e \in cache[d][t] : e.version <= version
              /\ \A e, f \in cache[d][t] : e = f
          BY DEF VersionsBehind
        <5>. QED
          BY <5>1, <5>2
      <4>. QED
        BY <4>1, <4>2
    <3>2. version' = version /\ \A r \in Sessions : Behind(job[r])'
      BY <2>7, <2>8
    <3>3. \A d \in Caches, t \in Tables : \A e \in cache'[d][t] : e.version <= version
      BY <3>1
    <3>4. \A d \in Caches, t \in Tables : \A e \in cache'[d][t] : e.version <= version'
      BY <3>2, <3>3
    <3>5. \A d \in Caches, t \in Tables : \A e, f \in cache'[d][t] : e = f
      BY <3>1
    <3>. QED
      BY <3>2, <3>4, <3>5, Zenon DEF VersionsBehind
  <2>10. Settling => EntriesCurrent'
    <3>1. ASSUME Settling, NEW d \in Caches, NEW t \in Tables \ touched, NEW e \in cache'[d][t],
                 e.version = version
          PROVE  e.content = Content(d, committed, t)
      <4>1. CASE d = c /\ t = k.table
        <5>1. cache'[d][t] = {entry}
          BY <2>4, <4>1
        <5>. QED
          BY <2>5, <3>1, <4>1, <5>1
      <4>2. CASE ~(d = c /\ t = k.table)
        <5>1. e \in cache[d][t]
          BY <2>4, <3>1, <4>2
        <5>2. EntriesCurrent
          BY <3>1 DEF CurrentWhenSettling
        <5>. QED
          BY <3>1, <5>1, <5>2 DEF EntriesCurrent
      <4>. QED
        BY <4>1, <4>2
    <3>. QED
      BY <2>8, <3>1 DEF EntriesCurrent, Content, ShapeOf, IndexesOf, Exists
  <2>11. CurrentWhenSettling'
    BY <2>7, <2>8, <2>10 DEF CurrentWhenSettling, Settling
  <2>. QED
    BY <2>7, <2>9, <2>11
<1>. QED
  BY <1>5, <1>6, <1>7, <1>8, <1>9, <1>10, <1>11, <1>12, <1>13 DEF Lookup

\* What a client makes of a table is a table, and it leaves the others alone.
LEMMA DDLSchema ==
    ASSUME CacheInv, NEW s \in Sessions, RuntimeDDL(s)
    PROVE  /\ committed' \in Schema /\ touched' \in SUBSET Tables /\ ddls' \in 0..MaxDDLs
           /\ touched \subseteq touched'
           /\ \A t \in Tables \ touched' : committed'.table[t] = committed.table[t]
<1>1. committed \in Schema /\ touched \in SUBSET Tables /\ ddls \in 0..MaxDDLs
  BY DEF CacheInv, Typed
<1>2. ddls' \in 0..MaxDDLs
  BY <1>1, MetadataAssumption DEF RuntimeDDL
<1>3. CASE \E t \in Tables, what \in Remade :
             committed' = WithTable(committed, t, what) /\ touched' = touched \cup {t}
  <2>1. PICK t \in Tables, what \in Remade :
           committed' = WithTable(committed, t, what) /\ touched' = touched \cup {t}
    BY <1>3
  <2>2. what \in Table
    BY MetadataAssumption DEF Table, SQLiteIndexes
  <2>. QED
    BY <1>1, <1>2, <2>1, <2>2, WithTableType
<1>4. CASE committed' = [committed EXCEPT !.trigger = ~@] /\ UNCHANGED touched
  <2>1. committed.trigger \in BOOLEAN /\ committed.table \in [Tables -> Table]
    BY <1>1 DEF Schema
  <2>2. PICK db \in Schema : db = committed
    BY <1>1
  <2>3. [db EXCEPT !.trigger = ~db.trigger] \in Schema
        /\ [db EXCEPT !.trigger = ~db.trigger].table = db.table
    BY <2>1, <2>2 DEF Schema
  <2>. QED
    BY <1>1, <1>2, <1>4, <2>2, <2>3
<1>. QED
  BY <1>3, <1>4 DEF RuntimeDDL

\* A client's DDL can make stale only what there is of the tables it touches.
LEMMA DDLCacheInv ==
    ASSUME CacheInv, NEW s \in Sessions, RuntimeDDL(s)
    PROVE  CacheInv'
<1>. USE DEF CacheInv
<1>1. UNCHANGED <<script, working, mapVars, version, base, cache, resetVars, lookupVars>>
  BY DEF RuntimeDDL
<1>2. Typed'
  BY <1>1, DDLSchema DEF Typed, mapVars, resetVars, lookupVars
<1>3. VersionsCounted' /\ VersionsBehind' /\ QuietSetup'
  BY <1>1 DEF VersionsCounted, VersionsBehind, Behind, QuietSetup, resetVars, lookupVars
<1>4. \A c \in Caches, t \in Tables \ touched' :
        /\ t \notin touched
        /\ Content(c, committed', t) = Content(c, committed, t)
        /\ ShapeOf(committed', t) = ShapeOf(committed, t)
  BY DDLSchema DEF Content, ShapeOf, IndexesOf, Exists
<1>5. ASSUME Settling' PROVE EntriesCurrent' /\ \A r \in Sessions : FoundCurrent(job[r])'
  <2>1. EntriesCurrent /\ \A r \in Sessions : FoundCurrent(job[r])
    BY <1>1, <1>5 DEF CurrentWhenSettling, Settling, resetVars
  <2>2. EntriesCurrent'
    BY <1>1, <1>4, <2>1 DEF EntriesCurrent
  <2>3. ASSUME NEW r \in Sessions PROVE FoundCurrent(job[r])'
    <3>1. PICK k \in Jobs : k = job[r] /\ job' = job
      BY <1>1 DEF Typed, lookupVars
    <3>2. k.table \in Tables /\ k.cache \in Caches /\ {"columns", "keys"} \subseteq Caches
      BY DEF Jobs, Caches
    <3>3. FoundCurrent(k)
      BY <2>1, <3>1
    <3>4. k.table \notin touched' =>
            /\ k.table \notin touched
            /\ \A c \in Caches : Content(c, committed', k.table) = Content(c, committed, k.table)
            /\ ShapeOf(committed', k.table) = ShapeOf(committed, k.table)
      BY <1>4, <3>2
    <3>. QED
      BY <1>1, <3>1, <3>2, <3>3, <3>4 DEF FoundCurrent
  <2>. QED
    BY <2>2, <2>3
<1>. QED
  BY <1>2, <1>3, <1>5 DEF CurrentWhenSettling

LEMMA NextCacheInv == CacheInv /\ [Next]_vars => CacheInv'
<1>1. ASSUME CacheInv, UNCHANGED vars PROVE CacheInv'
  BY <1>1 DEF CacheInv, Typed, VersionsCounted, VersionsBehind, Behind, QuietSetup,
     CurrentWhenSettling, Settling, EntriesCurrent, FoundCurrent,
     vars, dbVars, ddlVars, mapVars, resetVars, lookupVars
<1>. QED
  BY <1>1, ResetCacheInv, LookupCacheInv, DDLCacheInv DEF Next

LEMMA CacheInvariance == Spec => []CacheInv
BY InitCacheInv, NextCacheInv, PTL DEF Spec

-----------------------------------------------------------------------------
(* What the caches promise.                                                *)

\* The state of the server has its shape at every moment: the caches have one
\* entry of a table at most, whose version is not ahead of the server's.
THEOREM StateHasItsType == Spec => []TypeOK
<1>1. CacheInv => TypeOK
  <2>. SUFFICES ASSUME CacheInv PROVE TypeOK
    OBVIOUS
  <2>1. version \in 0..MaxResets /\ base \in 0..version
    BY MetadataAssumption DEF CacheInv, Typed, VersionsCounted
  <2>2. \A c \in Caches, t \in Tables :
          /\ cache[c][t] \subseteq Entries
          /\ \A e, f \in cache[c][t] : e = f
          /\ \A e \in cache[c][t] : e.version <= version
    BY DEF CacheInv, Typed, VersionsBehind
  <2>. QED
    BY <2>1, <2>2 DEF CacheInv, Typed, TypeOK
<1>. QED
  BY <1>1, CacheInvariance, PTL

\* A cached entry that counts says what SQLite says (upsert.go,
\* auto_increment_compat.go), with any number of lookups and Resets under way,
\* of every table but those that clients have changed since a Reset last dropped
\* all, by DDL behind another statement, which bumps no version (protocol.go):
\* the version a lookup began with keeps what it read before a Reset from being
\* taken for the schema after it, and what a client changed lasts no longer than
\* to the next full Reset.
THEOREM CachedEntriesAreCurrent == Spec => []CacheCurrent
<1>1. CacheInv => CacheCurrent
  BY DEF CacheInv, CurrentWhenSettling, Settling, EntriesCurrent, CacheCurrent, Hit
<1>. QED
  BY <1>1, CacheInvariance, PTL

-----------------------------------------------------------------------------
(* The maps.                                                               *)

\* The next statement of the script and the maps it leaves, for one settled
\* table.
LEMMA StatementRecorded ==
    ASSUME CacheInv, GrowTogether, ApplyStatement, NEW t \in Tables \ touched, Settled(t)
    PROVE  /\ Described(working, t)'
           /\ \A n \in 1..applied' : CreatedBy(t, n) => Exists(working', t)
           /\ Exists(working', t) => \E n \in 1..applied' : CreatedBy(t, n)
<1>1. script \in Seq(Statements) /\ Len(script) \in Nat /\ applied \in Nat
  BY MetadataAssumption DEF CacheInv, Typed
<1>2. applied + 1 \in 1..Len(script) /\ applied' = applied + 1
      /\ 1..applied' = (1..applied) \cup {applied + 1} /\ applied + 1 \notin 1..applied
      /\ 1..applied \subseteq 1..Len(script)
  BY <1>1 DEF ApplyStatement
<1>3. PICK st \in Statements : st = script[applied + 1]
  BY <1>1, <1>2
<1>4. /\ ~Refused(working, st) /\ working' = Applied(working, st) /\ working \in Schema
      /\ Recorded(st)
  BY <1>3 DEF CacheInv, Typed, ApplyStatement
<1>5. /\ Described(working, t)
      /\ \A n \in 1..applied : CreatedBy(t, n) => Exists(working, t)
      /\ Exists(working, t) => \E n \in 1..applied : CreatedBy(t, n)
  BY DEF GrowTogether, ApplyStatement
<1>6. tableDDL \in [Tables -> ShapesFound] /\ indexMetadata \in SUBSET SQLiteIndexes
  BY DEF CacheInv, Typed
<1>7. CASE ~Touches(st, t)
  <2>1. working'.table[t] = working.table[t]
    BY <1>4, <1>7, AppliedSchema
  <2>2. ~CreatedBy(t, applied + 1)
    BY <1>3, <1>7 DEF CreatedBy, Touches, Creates
  <2>3. Exists(working', t) <=> Exists(working, t)
    BY <2>1 DEF Exists
  <2>4. ShapeOf(working', t) = ShapeOf(working, t)
        /\ IndexesOf(working', t) = IndexesOf(working, t)
    BY <2>1, <2>3 DEF ShapeOf, IndexesOf
  <2>5. t \in autoIncrementColumns' <=> t \in autoIncrementColumns
    BY <1>4, <1>7 DEF Recorded, AutoIncrementRecorded, Touches, Creates
  <2>6. tableDDL'[t] = tableDDL[t]
    BY <1>4, <1>6, <1>7 DEF Recorded, DDLRecorded, Touches, Creates
  <2>7. \A i \in IndexesRecorded(st) : i[1] # t
    BY <1>7 DEF IndexesRecorded, Touches, Creates
  <2>8. {i \in indexMetadata' : i[1] = t} = {i \in indexMetadata : i[1] = t}
    BY <1>4, <2>7 DEF Recorded
  <2>9. Described(working, t)'
    BY <1>5, <2>4, <2>5, <2>6, <2>8 DEF Described
  <2>. QED
    BY <1>2, <1>5, <2>2, <2>3, <2>9
<1>8. CASE Creates(st) /\ st.table = t
  <2>1. CreatedBy(t, applied + 1)
    BY <1>3, <1>8 DEF CreatedBy
  <2>2. \A n \in 1..applied : ~CreatedBy(t, n)
    BY <1>2, <2>1 DEF Settled, CreatedBy
  <2>3. ~Exists(working, t)
    BY <1>5, <2>2
  <2>4. ShapeOf(working, t) = NoTable /\ IndexesOf(working, t) = {}
    BY <2>3 DEF ShapeOf, IndexesOf
  <2>5. st.shape \in Shapes /\ st.indexes \in SUBSET IndexNames
    BY <1>8 DEF Statements, Creates
  <2>6. working'.table[t] = [shape |-> st.shape, indexes |-> {t} \X st.indexes]
    BY <1>4, <1>8, <2>3, AppliedSchema
  <2>7. Exists(working', t)
    BY <2>5, <2>6, MetadataAssumption DEF Exists
  <2>8. ShapeOf(working', t) = st.shape /\ IndexesOf(working', t) = {t} \X st.indexes
    BY <2>6, <2>7 DEF ShapeOf, IndexesOf
  <2>9. t \in autoIncrementColumns' <=> ShapeOf(working', t) \notin {"plain", NoTable}
    BY <1>4, <1>5, <1>8, <2>4, <2>5, <2>8, MetadataAssumption
       DEF Described, Recorded, AutoIncrementRecorded
  <2>10. tableDDL'[t] = ShapeOf(working', t)
    BY <1>4, <1>6, <1>8, <2>8 DEF Recorded, DDLRecorded
  <2>11. {i \in indexMetadata : i[1] = t} = {}
    BY <1>5, <2>4 DEF Described
  <2>12. indexMetadata' = indexMetadata \cup ({t} \X st.indexes)
    BY <1>4, <1>8 DEF Recorded, IndexesRecorded, Creates
  <2>13. {i \in indexMetadata' : i[1] = t} = IndexesOf(working', t)
    BY <2>8, <2>11, <2>12
  <2>14. Described(working, t)'
    BY <2>9, <2>10, <2>13 DEF Described
  <2>. QED
    BY <1>2, <2>1, <2>7, <2>14
<1>9. CASE st.op = "addIndex" /\ st.table = t
  <2>1. Exists(working, t) /\ working'.table[t] =
          [shape |-> ShapeOf(working, t),
           indexes |-> IndexesOf(working, t) \cup ({t} \X {st.index})]
    BY <1>4, <1>9, AppliedSchema
  <2>2. /\ ShapeOf(working, t) \in Shapes
        /\ IndexesOf(working, t) \cup ({t} \X {st.index}) \in SUBSET SQLiteIndexes
    <3>1. working.table[t] \in [shape : Shapes, indexes : SUBSET SQLiteIndexes]
      BY <1>4, <2>1 DEF Schema, Table, Exists
    <3>2. st.index \in IndexNames
      BY <1>9 DEF Statements
    <3>3. {t} \X {st.index} \in SUBSET SQLiteIndexes
      BY <3>2 DEF SQLiteIndexes
    <3>. QED
      BY <2>1, <3>1, <3>3 DEF ShapeOf, IndexesOf
  <2>3. Exists(working', t)
    BY <2>1, <2>2, MetadataAssumption DEF Exists, SQLiteIndexes
  <2>4. /\ ShapeOf(working', t) = ShapeOf(working, t)
        /\ IndexesOf(working', t) = IndexesOf(working, t) \cup ({t} \X {st.index})
    BY <2>1, <2>3 DEF ShapeOf, IndexesOf
  <2>5. ~Creates(st)
    BY <1>9 DEF Creates
  <2>6. /\ autoIncrementColumns' = autoIncrementColumns
        /\ tableDDL' = tableDDL
        /\ indexMetadata' = indexMetadata \cup {<<t, st.index>>}
    BY <1>4, <1>9, <2>5 DEF Recorded, AutoIncrementRecorded, DDLRecorded, IndexesRecorded
  <2>7. {i \in indexMetadata' : i[1] = t} = IndexesOf(working', t)
    <3>1. {i \in indexMetadata : i[1] = t} = IndexesOf(working, t)
      BY <1>5 DEF Described
    <3>2. {t} \X {st.index} = {<<t, st.index>>}
      OBVIOUS
    <3>. QED
      BY <2>4, <2>6, <3>1, <3>2
  <2>8. Described(working, t)'
    BY <1>5, <2>4, <2>6, <2>7 DEF Described
  <2>9. ~CreatedBy(t, applied + 1)
    BY <1>3, <2>5 DEF CreatedBy
  <2>. QED
    BY <1>2, <1>5, <2>1, <2>3, <2>8, <2>9
<1>10. st.op = "rename" => st.table # t /\ st.to # t
  BY <1>2, <1>3 DEF Settled
<1>11. st.op = "drop" => st.table # t
  BY <1>2, <1>3 DEF Settled
<1>. QED
  BY <1>7, <1>8, <1>9, <1>10, <1>11 DEF Touches, Creates, Statements

\* Of a table that is not there nothing is to be described.
LEMMA NoneDescribed ==
    ASSUME autoIncrementColumns = {}, indexMetadata = {},
           tableDDL = [t \in Tables |-> NoTable], NEW db, NEW t \in Tables, ~Exists(db, t)
    PROVE  Described(db, t)
<1>1. ShapeOf(db, t) = NoTable /\ IndexesOf(db, t) = {}
  BY DEF ShapeOf, IndexesOf
<1>. QED
  BY <1>1 DEF Described

LEMMA InitMapsInv == Init => MapsInv
<1>. SUFFICES ASSUME Init PROVE MapsInv
  OBVIOUS
<1>1. GrowTogether
  <2>1. \A t \in Tables : Described(working, t) /\ ~Exists(working, t)
    BY NoneDescribed DEF Init, Empty, Exists
  <2>2. 1..applied = {}
    BY DEF Init
  <2>. QED
    BY <2>1, <2>2 DEF GrowTogether
<1>. QED
  BY <1>1 DEF MapsInv, Init

LEMMA NextMapsInv == CacheInv /\ MapsInv /\ [Next]_vars => MapsInv'
<1>. SUFFICES ASSUME CacheInv, MapsInv, [Next]_vars PROVE MapsInv'
  OBVIOUS
<1>1. ASSUME UNCHANGED <<dbVars, mapVars, pc, applied, failed>> PROVE MapsInv'
  BY <1>1 DEF MapsInv, GrowTogether, DescribesCommitted, Described, Settled, CreatedBy,
     Exists, ShapeOf, IndexesOf, dbVars, ddlVars, mapVars
<1>2. ASSUME UNCHANGED <<script, mapVars, committed, touched>>
      PROVE  DescribesCommitted' <=> DescribesCommitted
  BY <1>2 DEF DescribesCommitted, Described, Settled, Exists, ShapeOf, IndexesOf, mapVars
<1>3. \A t \in Tables : ~Exists(Empty, t)
  BY DEF Empty, Exists
<1>4. CASE ResetCall
  BY <1>2, <1>4 DEF ResetCall, MapsInv, GrowTogether, dbVars, ddlVars
<1>5. CASE ApplyStatement
  <2>1. GrowTogether'
    <3>1. UNCHANGED <<script, pc>> /\ pc \in {"setup", "apply"}
      BY <1>5 DEF ApplyStatement
    <3>2. ASSUME NEW t \in Tables \ touched', Settled(t)'
          PROVE  /\ Described(working, t)'
                 /\ (\A n \in 1..applied : CreatedBy(t, n) => Exists(working, t))'
                 /\ (Exists(working, t) => \E n \in 1..applied : CreatedBy(t, n))'
      <4>1. Settled(t) /\ t \in Tables \ touched
        BY <1>5, <3>1, <3>2 DEF Settled, ApplyStatement, ddlVars
      <4>2. /\ Described(working, t)'
            /\ \A n \in 1..applied' : CreatedBy(t, n) => Exists(working', t)
            /\ Exists(working', t) => \E n \in 1..applied' : CreatedBy(t, n)
        BY <1>5, <4>1, StatementRecorded DEF MapsInv
      <4>. QED
        BY <3>1, <4>2 DEF CreatedBy, Exists
    <3>. QED
      BY <3>2 DEF GrowTogether
  <2>. QED
    BY <1>5, <2>1 DEF ApplyStatement, MapsInv
<1>6. CASE CommitSetup
  <2>1. pc \in {"setup", "apply"} /\ pc' \in {"idle", "bump"}
    BY <1>6 DEF CommitSetup
  <2>2. DescribesCommitted'
    BY <1>6, <2>1 DEF CommitSetup, MapsInv, GrowTogether, DescribesCommitted, Described,
       Settled, Exists, ShapeOf, IndexesOf, ddlVars, mapVars
  <2>. QED
    BY <2>1, <2>2 DEF MapsInv, GrowTogether
<1>7. CASE SetupFails
  <2>1. CASE pc = "setup"
    BY <1>7, <2>1 DEF SetupFails, MapsInv, GrowTogether
  <2>2. CASE pc \in {"begin", "apply"}
    BY <1>7, <2>2 DEF SetupFails, ResetFails, MapsInv, GrowTogether
  <2>. QED
    BY <1>7, <2>1, <2>2 DEF SetupFails
<1>8. CASE Decide
  <2>1. CASE pc' = "idle"
    BY <1>2, <1>8, <2>1 DEF Decide, MapsInv, GrowTogether, dbVars, ddlVars
  <2>2. CASE pc' = "drop"
    BY <1>8, <2>2 DEF Decide, MapsInv, GrowTogether
  <2>. QED
    BY <1>8, <2>1, <2>2 DEF Decide
<1>9. CASE DropObjects
  <2>1. CASE committed' = Empty /\ pc' = "begin"
    BY <1>3, <1>9, <2>1 DEF DropObjects, MapsInv, GrowTogether, Exists, mapVars
  <2>2. CASE ResetFails
    BY <2>2 DEF ResetFails, MapsInv, GrowTogether
  <2>. QED
    BY <1>9, <2>1, <2>2 DEF DropObjects
<1>10. CASE BeginSetup
  <2>1. /\ working' = committed /\ 1..applied' = {} /\ pc' = "apply"
        /\ UNCHANGED <<committed, touched, mapVars>>
        /\ \A t \in Tables \ touched : ~Exists(committed, t)
    BY <1>10 DEF BeginSetup, MapsInv, ddlVars
  <2>2. \A t \in Tables \ touched : Described(committed, t)
    BY <1>10, <2>1, NoneDescribed DEF BeginSetup, MapsInv
  <2>3. \A t \in Tables \ touched' : Described(working, t)' /\ ~Exists(working, t)'
    BY <2>1, <2>2 DEF Described, Exists, ShapeOf, IndexesOf, mapVars
  <2>4. GrowTogether'
    BY <2>1, <2>3 DEF GrowTogether
  <2>. QED
    BY <1>10, <2>1, <2>4 DEF MapsInv, BeginSetup
<1>11. CASE Bump \/ ClearCaches \/ NewBase
  <2>1. pc \in {"bump", "clearCaches", "newBase"} /\ pc' \in {"clearCaches", "newBase", "idle"}
        /\ UNCHANGED <<script, mapVars, committed, touched>>
    BY <1>11 DEF Bump, ClearCaches, NewBase, dbVars, ddlVars
  <2>2. DescribesCommitted'
    BY <1>2, <2>1 DEF MapsInv
  <2>. QED
    BY <2>1, <2>2 DEF MapsInv, GrowTogether
<1>12. ASSUME NEW s \in Sessions, Lookup(s) PROVE MapsInv'
  <2>1. UNCHANGED <<dbVars, mapVars, resetVars>>
    BY <1>12 DEF Lookup, Start, Look, Steps, ReadVersion, LookColumns, Query, QueryRefused,
       ListIndexes, ReadIndex, Store
  <2>. QED
    BY <1>1, <2>1 DEF resetVars
<1>13. ASSUME NEW s \in Sessions, RuntimeDDL(s) PROVE MapsInv'
  <2>1. UNCHANGED <<script, mapVars, pc, failed>> /\ pc \notin {"setup", "apply"}
    BY <1>13 DEF RuntimeDDL, resetVars
  <2>2. touched \subseteq touched'
        /\ \A t \in Tables \ touched' : committed'.table[t] = committed.table[t]
    BY <1>13, DDLSchema
  <2>3. \A t \in Tables \ touched' :
          /\ t \in Tables \ touched
          /\ Exists(committed', t) <=> Exists(committed, t)
          /\ ShapeOf(committed', t) = ShapeOf(committed, t)
          /\ IndexesOf(committed', t) = IndexesOf(committed, t)
    BY <2>2 DEF Exists, ShapeOf, IndexesOf
  <2>4. DescribesCommitted => DescribesCommitted'
    BY <2>1, <2>3 DEF DescribesCommitted, Described, Settled, mapVars
  <2>5. (\A t \in Tables \ touched : ~Exists(committed, t)) =>
          \A t \in Tables \ touched' : ~Exists(committed', t)
    BY <2>3
  <2>. QED
    BY <2>1, <2>4, <2>5 DEF MapsInv, GrowTogether, mapVars
<1>14. CASE UNCHANGED vars
  BY <1>1, <1>14 DEF vars, resetVars
<1>. QED
  BY <1>4, <1>5, <1>6, <1>7, <1>8, <1>9, <1>10, <1>11, <1>12, <1>13, <1>14
     DEF Next, ResetStep

\* After a Reset that did not fail, and after the start, the metadata maps
\* (index_metadata.go) describe every table that exists and that the schema
\* creates once, and no client has changed since: its AUTO_INCREMENT columns, its
\* DDL and the MySQL names of its indexes, whatever failed Resets came before.
THEOREM MapsFollowSchema == Spec => []MetadataFollowsSchema
<1>1. CacheInv /\ MapsInv => MetadataFollowsSchema
  <2>. SUFFICES ASSUME CacheInv, MapsInv, pc = "idle", ~failed,
                       NEW t \in Tables \ touched, Settled(t), Exists(committed, t)
                PROVE  /\ t \in autoIncrementColumns <=> ShapeOf(committed, t) # "plain"
                       /\ tableDDL[t] = ShapeOf(committed, t)
                       /\ {i \in indexMetadata : i[1] = t} = IndexesOf(committed, t)
    BY DEF MetadataFollowsSchema
  <2>1. Described(committed, t)
    BY DEF MapsInv, DescribesCommitted
  <2>2. ShapeOf(committed, t) # NoTable
    BY MetadataAssumption DEF CacheInv, Typed, Schema, Table, Exists, ShapeOf
  <2>. QED
    BY <2>1, <2>2 DEF Described
<1>2. CacheInv /\ MapsInv /\ [Next]_vars => (CacheInv /\ MapsInv)'
  BY NextCacheInv, NextMapsInv
<1>. QED
  BY <1>1, <1>2, InitCacheInv, InitMapsInv, PTL DEF Spec

-----------------------------------------------------------------------------
(* The inductive invariant of the translations.                            *)

\* An entry is what parsing its text keeps, and a text that does not parse has
\* none; the cache is finite, so that its size is a number.
EntriesTrue ==
    /\ IsFiniteSet(DOMAIN items)
    /\ \A t \in DOMAIN items : t \notin Malformed /\ items[t] = Kept(Parse(t))

\* Only what parses is stored.
StoresParsed ==
    \A s \in Translators : At(s, "store") => translation[s].text \notin Malformed

TranslationInv == TranslationTypeOK /\ EntriesTrue /\ StoresParsed

-----------------------------------------------------------------------------
(* The order list.                                                         *)

\* A new text at the end of a list without repetitions.
LEMMA AppendNew ==
    ASSUME NEW S, NEW seq \in Seq(S), NEW t \in S, IsInjective(seq), t \notin Range(seq)
    PROVE  /\ Append(seq, t) \in Seq(S)
           /\ IsInjective(Append(seq, t))
           /\ Range(Append(seq, t)) = Range(seq) \cup {t}
<1>. DEFINE new == Append(seq, t)
<1>1. /\ new \in Seq(S) /\ Len(new) = Len(seq) + 1 /\ Len(seq) \in Nat
      /\ DOMAIN new = 1..Len(seq) + 1 /\ DOMAIN seq = 1..Len(seq)
      /\ \A i \in 1..Len(seq) : new[i] = seq[i]
      /\ new[Len(seq) + 1] = t
  BY AppendProperties, LenProperties
<1>2. IsInjective(new)
  BY <1>1 DEF IsInjective, Range
<1>3. Range(new) = Range(seq) \cup {t}
  BY <1>1 DEF Range
<1>. QED
  BY <1>1, <1>2, <1>3

\* The rest of a list without repetitions, whose range loses the head.
LEMMA TailOfInjective ==
    ASSUME NEW S, NEW seq \in Seq(S), seq # <<>>, IsInjective(seq)
    PROVE  /\ Tail(seq) \in Seq(S)
           /\ IsInjective(Tail(seq))
           /\ Range(Tail(seq)) = Range(seq) \ {Head(seq)}
<1>. DEFINE rest == Tail(seq)
<1>1. /\ rest \in Seq(S) /\ Len(seq) \in Nat /\ Len(seq) # 0
      /\ Len(rest) = Len(seq) - 1
      /\ DOMAIN rest = 1..Len(seq) - 1 /\ DOMAIN seq = 1..Len(seq)
      /\ \A i \in 1..Len(seq) - 1 : rest[i] = seq[i + 1]
      /\ Head(seq) = seq[1]
  BY HeadTailProperties, LenProperties, EmptySeq
<1>2. IsInjective(rest)
  BY <1>1 DEF IsInjective
<1>3. Range(rest) = Range(seq) \ {Head(seq)}
  <2>1. Range(rest) \subseteq Range(seq) \ {Head(seq)}
    BY <1>1 DEF IsInjective, Range
  <2>2. ASSUME NEW x \in Range(seq) \ {Head(seq)}
        PROVE  x \in Range(rest)
    <3>1. PICK i \in 1..Len(seq) : x = seq[i]
      BY <1>1 DEF Range
    <3>2. i - 1 \in DOMAIN rest /\ rest[i - 1] = x
      BY <1>1, <3>1
    <3>. QED
      BY <3>2, Zenon DEF Range
  <2>. QED
    BY <2>1, <2>2
<1>. QED
  BY <1>1, <1>2, <1>3

\* The entry of text t, newly made, and those of the texts that are kept.
LEMMA WithEntries ==
    ASSUME TranslationTypeOK, EntriesTrue, NEW t \in Texts, t \notin Malformed,
           NEW kept \in SUBSET DOMAIN items
    PROVE  /\ DOMAIN With(t, kept) = kept \cup {t}
           /\ \A u \in kept \cup {t} :
                 /\ u \in Texts /\ u \notin Malformed
                 /\ With(t, kept)[u] \in Forms
                 /\ With(t, kept)[u] = Kept(Parse(u))
  BY DEF TranslationTypeOK, EntriesTrue, With, Kept, Parse, Forms

\* cacheStore keeps the list, the entries and the limit in step.
LEMMA StoreKeepsOrder ==
    ASSUME CacheAssumption, TranslationTypeOK, EntriesTrue,
           NEW t \in Texts, t \notin Malformed, CacheStore(t)
    PROVE  /\ IsFiniteSet(DOMAIN items')
           /\ \A u \in DOMAIN items' : u \in Texts /\ u \notin Malformed
                                        /\ items'[u] \in Forms
                                        /\ items'[u] = Kept(Parse(u))
           /\ order' \in Seq(Texts) /\ IsInjective(order') /\ Range(order') = DOMAIN items'
           /\ Cardinality(DOMAIN items') <= Limit
<1>. DEFINE n == Cardinality(DOMAIN items)
<1>0. n \in Nat /\ n <= Limit /\ Limit \in Nat \ {0}
  BY FS_CardinalityType DEF TranslationTypeOK, EntriesTrue, CacheAssumption
<1>1. CASE t \in DOMAIN items
  <2>1. items' = With(t, DOMAIN items) /\ order' = order
    BY <1>1 DEF CacheStore
  <2>2. DOMAIN items' = DOMAIN items
    BY <1>1, <2>1, WithEntries
  <2>3. /\ order' \in Seq(Texts) /\ IsInjective(order') /\ Range(order') = DOMAIN items'
        /\ IsFiniteSet(DOMAIN items') /\ Cardinality(DOMAIN items') <= Limit
    BY <2>1, <2>2 DEF TranslationTypeOK, EntriesTrue
  <2>4. \A u \in DOMAIN items \cup {t} :
           /\ u \in Texts /\ u \notin Malformed
           /\ items'[u] \in Forms /\ items'[u] = Kept(Parse(u))
    BY <2>1, WithEntries
  <2>. QED
    BY <1>1, <2>2, <2>3, <2>4
<1>2. CASE t \notin DOMAIN items /\ n < Limit
  <2>1. items' = With(t, DOMAIN items) /\ order' = Append(order, t)
    <3>1. ~(Cardinality(DOMAIN items) >= Limit)
      BY <1>0, <1>2
    <3>. QED
      BY <1>2, <3>1, DOMAIN items \ {} = DOMAIN items, Zenon DEF CacheStore
  <2>2. DOMAIN items' = DOMAIN items \cup {t}
    BY <2>1, WithEntries
  <2>3. IsFiniteSet(DOMAIN items') /\ Cardinality(DOMAIN items') = n + 1
    BY <1>2, <2>2, FS_AddElement DEF EntriesTrue
  <2>4. order' \in Seq(Texts) /\ IsInjective(order') /\ Range(order') = DOMAIN items'
    <3>1. order \in Seq(Texts) /\ IsInjective(order) /\ t \notin Range(order)
          /\ Range(order) = DOMAIN items
      BY <1>2 DEF TranslationTypeOK
    <3>2. /\ Append(order, t) \in Seq(Texts)
          /\ IsInjective(Append(order, t))
          /\ Range(Append(order, t)) = Range(order) \cup {t}
      BY <3>1, AppendNew
    <3>. QED
      BY <2>1, <2>2, <3>1, <3>2
  <2>5. \A u \in DOMAIN items \cup {t} :
           /\ u \in Texts /\ u \notin Malformed
           /\ items'[u] \in Forms /\ items'[u] = Kept(Parse(u))
    BY <2>1, WithEntries
  <2>. QED
    BY <1>0, <1>2, <2>2, <2>3, <2>4, <2>5
<1>3. CASE t \notin DOMAIN items /\ n >= Limit
  <2>. DEFINE kept == DOMAIN items \ {Head(order)}
  <2>1. items' = With(t, kept) /\ order' = Append(Tail(order), t)
    BY <1>3 DEF CacheStore
  <2>2. DOMAIN items # {}
    BY <1>0, <1>3, FS_EmptySet
  <2>3. order # <<>>
    BY <2>2 DEF TranslationTypeOK, Range
  <2>4. /\ Tail(order) \in Seq(Texts) /\ IsInjective(Tail(order))
        /\ Range(Tail(order)) = kept
    BY <2>3, TailOfInjective DEF TranslationTypeOK
  <2>5. Head(order) \in DOMAIN items
    <3>1. Len(order) \in Nat \ {0} /\ DOMAIN order = 1..Len(order) /\ Head(order) = order[1]
      BY <2>3, EmptySeq, LenProperties DEF TranslationTypeOK
    <3>. QED
      BY <3>1 DEF TranslationTypeOK, Range
  <2>6. DOMAIN items' = kept \cup {t}
    BY <2>1, WithEntries
  <2>7. IsFiniteSet(kept) /\ Cardinality(kept) = n - 1
    BY <2>5, FS_RemoveElement DEF EntriesTrue
  <2>8. IsFiniteSet(DOMAIN items') /\ Cardinality(DOMAIN items') = n
    <3>1. t \notin kept
      BY <1>3
    <3>2. IsFiniteSet(kept \cup {t}) /\ Cardinality(kept \cup {t}) = Cardinality(kept) + 1
      BY <2>7, <3>1, FS_AddElement, Zenon
    <3>. QED
      BY <1>0, <2>6, <2>7, <3>2
  <2>9. order' \in Seq(Texts) /\ IsInjective(order') /\ Range(order') = DOMAIN items'
    <3>1. t \notin Range(Tail(order))
      BY <1>3, <2>4
    <3>2. /\ Append(Tail(order), t) \in Seq(Texts)
          /\ IsInjective(Append(Tail(order), t))
          /\ Range(Append(Tail(order), t)) = Range(Tail(order)) \cup {t}
      BY <2>4, <3>1, AppendNew
    <3>. QED
      BY <2>1, <2>4, <2>6, <3>2
  <2>10. \A u \in kept \cup {t} :
            /\ u \in Texts /\ u \notin Malformed
            /\ items'[u] \in Forms /\ items'[u] = Kept(Parse(u))
    BY <2>1, WithEntries
  <2>. QED
    BY <1>0, <1>3, <2>6, <2>8, <2>9, <2>10
<1>. QED
  BY <1>0, <1>1, <1>2, <1>3

-----------------------------------------------------------------------------
(* It is inductive.                                                        *)

LEMMA InitTranslationInv == TranslationInit => TranslationInv
<1>. SUFFICES ASSUME TranslationInit PROVE TranslationInv
  OBVIOUS
<1>1. DOMAIN items = {} /\ order \in Seq(Texts) /\ Range(order) = {}
  BY EmptySeq DEF TranslationInit, Range
<1>2. IsFiniteSet(DOMAIN items) /\ Cardinality(DOMAIN items) = 0
  BY <1>1, FS_EmptySet
<1>3. TranslationTypeOK
  BY <1>1, <1>2, CacheAssumption DEF TranslationInit, TranslationTypeOK, CacheAssumption, IsInjective, Places
<1>. QED
  BY <1>1, <1>2, <1>3 DEF TranslationInv, EntriesTrue, StoresParsed, TranslationInit, At

LEMMA NextTranslationInv == TranslationInv /\ [TranslationNext]_translationVars => TranslationInv'
<1>. SUFFICES ASSUME TranslationInv, [TranslationNext]_translationVars PROVE TranslationInv'
  OBVIOUS
<1>. USE CacheAssumption DEF TranslationInv
<1>1. ASSUME NEW s \in Translators, NEW t \in Texts, Call(s, t)
      PROVE  TranslationInv'
  <2>1. UNCHANGED <<items, order, answer>>
    BY <1>1 DEF Call
  <2>2. TranslationTypeOK'
    BY <1>1, <2>1 DEF Call, TranslationTypeOK, Places, CacheAssumption
  <2>3. StoresParsed'
    BY <1>1 DEF Call, StoresParsed, At, TranslationTypeOK
  <2>. QED
    BY <2>1, <2>2, <2>3 DEF EntriesTrue
<1>2. ASSUME NEW s \in Translators, LookText(s)
      PROVE  TranslationInv'
  <2>1. UNCHANGED <<items, order, calls>>
    BY <1>2 DEF LookText
  <2>2. TranslationTypeOK'
    BY <1>2, <2>1 DEF LookText, Returns, GoesTo, TranslationTypeOK, Places
  <2>3. StoresParsed'
    BY <1>2 DEF LookText, Returns, GoesTo, StoresParsed, At, TranslationTypeOK
  <2>. QED
    BY <2>1, <2>2, <2>3 DEF EntriesTrue
<1>3. ASSUME NEW s \in Translators, ParseText(s)
      PROVE  TranslationInv'
  <2>1. UNCHANGED <<items, order, calls>>
    BY <1>3 DEF ParseText
  <2>2. TranslationTypeOK'
    BY <1>3, <2>1 DEF ParseText, Returns, GoesTo, TranslationTypeOK, Places, Forms
  <2>3. StoresParsed'
    BY <1>3 DEF ParseText, Returns, GoesTo, StoresParsed, At, TranslationTypeOK, Parse, CacheAssumption
  <2>. QED
    BY <2>1, <2>2, <2>3 DEF EntriesTrue
<1>4. ASSUME NEW s \in Translators, StoreText(s)
      PROVE  TranslationInv'
  <2>1. translation[s].text \in Texts /\ translation[s].text \notin Malformed
    BY <1>4 DEF StoreText, StoresParsed, TranslationTypeOK
  <2>2. CacheStore(translation[s].text)
    BY <1>4 DEF StoreText
  <2>3. /\ DOMAIN items' \subseteq Texts
        /\ \A u \in DOMAIN items' : items'[u] \in Forms
        /\ order' \in Seq(Texts) /\ IsInjective(order') /\ Range(order') = DOMAIN items'
        /\ Cardinality(DOMAIN items') <= Limit
        /\ EntriesTrue'
    BY <2>1, <2>2, StoreKeepsOrder DEF EntriesTrue
  <2>4. /\ translation' = [translation EXCEPT ![s].pc = "idle"]
        /\ answer' = [answer EXCEPT ![s] = Parse(translation[s].text)]
        /\ calls' = calls
    BY <1>4 DEF StoreText, Returns, GoesTo
  <2>5. /\ translation' \in [Translators -> [pc : Places, text : Texts]]
        /\ answer' \in [Translators -> Forms \cup {"none"}]
        /\ calls' \in 0..MaxCalls
    BY <2>4 DEF TranslationTypeOK, Places, Forms, Parse
  <2>6. TranslationTypeOK'
    BY <2>3, <2>5 DEF TranslationTypeOK
  <2>7. StoresParsed'
    BY <2>4 DEF StoresParsed, At, TranslationTypeOK
  <2>. QED
    BY <2>3, <2>6, <2>7
<1>5. CASE UNCHANGED translationVars
  BY <1>5 DEF translationVars, TranslationTypeOK, EntriesTrue, StoresParsed, At
<1>. QED
  BY <1>1, <1>2, <1>3, <1>4, <1>5 DEF TranslationNext

LEMMA TranslationInvariance == TranslationSpec => []TranslationInv
  BY InitTranslationInv, NextTranslationInv, PTL DEF TranslationSpec

-----------------------------------------------------------------------------
(* What follows of the translations.                                       *)

\* Whatever sessions store and drop: the order lists exactly the cached texts,
\* each once, and never more than the limit.
THEOREM OrderMatchesEntries == TranslationSpec => []TranslationTypeOK
  BY TranslationInvariance, PTL DEF TranslationInv

\* No call is answered differently from a translation done now, whether it
\* found an entry, translated itself, or lost a race for the store.
THEOREM AnswersAsTranslatedNow == TranslationSpec => AnswersAreFresh
<1>. DEFINE Fresh ==
        \A s \in Translators :
            ~At(s, "idle") /\ translation'[s].pc = "idle" => answer'[s] = Parse(translation[s].text)
<1>1. ASSUME TranslationInv, [TranslationNext]_translationVars, NEW s \in Translators, ~At(s, "idle"), translation'[s].pc = "idle"
      PROVE  answer'[s] = Parse(translation[s].text)
  <2>. USE CacheAssumption DEF TranslationInv, TranslationTypeOK
  <2>1. ASSUME NEW r \in Translators, NEW t \in Texts, Call(r, t)
        PROVE  FALSE
    BY <1>1, <2>1 DEF Call, At
  <2>2. ASSUME NEW r \in Translators, LookText(r)
        PROVE  answer'[s] = Parse(translation[s].text)
    <3>1. r = s /\ translation[s].text \in DOMAIN items
      BY <1>1, <2>2 DEF LookText, Returns, GoesTo, At
    <3>2. answer'[s] = items[translation[s].text]
      BY <1>1, <2>2, <3>1 DEF LookText, Returns
    <3>3. /\ items[translation[s].text] = Kept(Parse(translation[s].text))
          /\ translation[s].text \notin Malformed
      BY <1>1, <3>1 DEF EntriesTrue
    <3>. QED
      BY <1>1, <3>1, <3>2, <3>3 DEF Kept, Parse, Texts, CacheAssumption
  <2>3. ASSUME NEW r \in Translators, ParseText(r)
        PROVE  answer'[s] = Parse(translation[s].text)
    BY <1>1, <2>3 DEF ParseText, Returns, GoesTo, At
  <2>4. ASSUME NEW r \in Translators, StoreText(r)
        PROVE  answer'[s] = Parse(translation[s].text)
    BY <1>1, <2>4 DEF StoreText, Returns, GoesTo, At
  <2>5. CASE UNCHANGED translationVars
    BY <1>1, <2>5 DEF translationVars, At
  <2>. QED
    BY <1>1, <2>1, <2>2, <2>3, <2>4, <2>5 DEF TranslationNext
<1>2. TranslationInv /\ [TranslationNext]_translationVars => [Fresh]_translationVars
  BY <1>1
<1>. QED
  BY <1>2, TranslationInvariance, PTL DEF TranslationSpec, AnswersAreFresh

-----------------------------------------------------------------------------
(* Induction over positions, and functions defined by recursion on them.   *)

\* Induction on the natural numbers, by a set.
LEMMA Upward ==
    ASSUME NEW T, \A i \in Nat : (\A j \in Nat : j < i => j \in T) => i \in T
    PROVE  \A i \in Nat : i \in T
<1>. DEFINE bad == {i \in Nat : i \notin T}
            R == {ss \in Nat \X Nat : ss[1] < ss[2]}
<1>1. IsWellFoundedOn(R, Nat)
  BY NatLessThanWellFounded DEF OpToRel
<1>2. ASSUME bad # {} PROVE FALSE
  <2>1. PICK x \in bad : \A y \in bad : ~(<<y, x>> \in R)
    <3>1. bad \subseteq Nat
      OBVIOUS
    <3>. HIDE DEF bad, R
    <3>. QED
      BY <1>1, <1>2, <3>1, WFMin
  <2>2. \A y \in Nat : y < x => y \in T
    BY <2>1
  <2>. QED
    BY <2>1, <2>2
<1>. QED
  BY <1>2

\* Induction from n down to 0.
LEMMA Downward ==
    ASSUME NEW n \in Nat, NEW T,
           \A i \in Nat : (\A j \in Nat : i < j /\ j <= n => j \in T) /\ i <= n => i \in T
    PROVE  \A i \in 0..n : i \in T
<1>. DEFINE U == {k \in Nat : k <= n => n - k \in T}
<1>1. ASSUME NEW k \in Nat, \A j \in Nat : j < k => j \in U PROVE k \in U
  <2>1. ASSUME k <= n PROVE n - k \in T
    <3>1. ASSUME NEW j \in Nat, n - k < j, j <= n PROVE j \in T
      <4>1. n - j \in Nat /\ n - j < k /\ n - j <= n /\ n - (n - j) = j
        BY <2>1, <3>1
      <4>2. n - j \in U
        BY <1>1, <4>1
      <4>. QED
        BY <4>1, <4>2
    <3>2. n - k \in Nat /\ n - k <= n
      BY <2>1
    <3>. QED
      BY <3>1, <3>2
  <2>. QED
    BY <2>1
<1>2. \A k \in Nat : k \in U
  <2>. HIDE DEF U
  <2>. QED
    BY <1>1, Upward
<1>3. ASSUME NEW i \in 0..n PROVE i \in T
  <2>1. n - i \in Nat /\ n - i <= n /\ n - (n - i) = i
    OBVIOUS
  <2>2. n - i \in U
    BY <1>2, <2>1
  <2>. QED
    BY <2>1, <2>2
<1>. QED
  BY <1>3

\* A function on 0..n given by a value at 0 and a step to the next.
IsForward(f, n, basis, G) == f = [i \in 0..n |-> IF i = 0 THEN basis ELSE G[<<i, f[i - 1]>>]]

\* There is one: what a definition by recursion on 0..n stands for.
LEMMA ForwardExists ==
    ASSUME NEW n \in Nat, NEW V, NEW basis \in V, NEW G \in [(1..n) \X V -> V]
    PROVE  \E f \in [0..n -> V] : IsForward(f, n, basis, G)
<1>. DEFINE Good(m) == {f \in [0..m -> V] :
                          f[0] = basis /\ \A i \in 1..m : f[i] = G[<<i, f[i - 1]>>]}
            T == {m \in Nat : m <= n => Good(m) # {}}
<1>1. 0 \in T
  <2>1. [i \in 0..0 |-> basis] \in Good(0)
    OBVIOUS
  <2>. QED
    BY <2>1
<1>2. ASSUME NEW m \in Nat, m # 0, m - 1 \in T PROVE m \in T
  <2>1. ASSUME m <= n PROVE Good(m) # {}
    <3>1. PICK f \in Good(m - 1) : TRUE
      BY <1>2, <2>1
    <3>2. f \in [0..(m - 1) -> V] /\ f[0] = basis
          /\ \A i \in 1..(m - 1) : f[i] = G[<<i, f[i - 1]>>]
      BY <3>1
    <3>. DEFINE g == [i \in 0..m |-> IF i = m THEN G[<<m, f[m - 1]>>] ELSE f[i]]
    <3>3. G[<<m, f[m - 1]>>] \in V
      <4>1. PICK v \in V : v = f[m - 1]
        BY <1>2, <3>2
      <4>2. <<m, v>> \in (1..n) \X V
        BY <1>2, <2>1
      <4>. QED
        BY <4>1, <4>2
    <3>4. g \in [0..m -> V] /\ g[0] = basis
      BY <1>2, <3>2, <3>3
    <3>5. ASSUME NEW i \in 1..m PROVE g[i] = G[<<i, g[i - 1]>>]
      <4>1. i - 1 \in 0..m /\ i \in 0..m /\ i - 1 # m
        BY <1>2
      <4>2. g[i - 1] = f[i - 1]
        BY <4>1
      <4>3. CASE i = m
        BY <4>1, <4>2, <4>3
      <4>4. CASE i # m
        BY <3>2, <4>1, <4>2, <4>4
      <4>. QED
        BY <4>3, <4>4
    <3>. HIDE DEF g
    <3>6. g \in Good(m)
      BY <3>4, <3>5
    <3>. QED
      BY <3>6
  <2>. QED
    BY <2>1
<1>3. \A m \in Nat : m \in T
  <2>1. ASSUME NEW m \in Nat, \A j \in Nat : j < m => j \in T PROVE m \in T
    <3>1. CASE m = 0
      BY <1>1, <3>1
    <3>2. CASE m # 0
      <4>1. m - 1 \in Nat /\ m - 1 < m
        BY <3>2
      <4>2. m - 1 \in T
        BY <2>1, <4>1
      <4>. HIDE DEF T
      <4>. QED
        BY <1>2, <3>2, <4>2
    <3>. QED
      BY <3>1, <3>2
  <2>. HIDE DEF T
  <2>. QED
    BY <2>1, Upward
<1>4. PICK f \in Good(n) : TRUE
  BY <1>3
<1>5. f = [i \in 0..n |-> IF i = 0 THEN basis ELSE G[<<i, f[i - 1]>>]]
  BY <1>4
<1>. QED
  BY <1>4, <1>5 DEF IsForward

\* A function on Nat that is basis outside 1..n, and on 1..n given by its values
\* further on.
IsBackward(f, n, basis, G) == f = [i \in Nat |-> IF i \in 1..n THEN G[<<i, f>>] ELSE basis]

\* The step at i is the same for functions that agree further on.
LooksAhead(n, V, G) ==
    /\ G \in [(1..n) \X [Nat -> V] -> V]
    /\ \A i \in 1..n : \A f, g \in [Nat -> V] :
           (\A j \in Nat : j > i => f[j] = g[j]) => G[<<i, f>>] = G[<<i, g>>]

\* There is one, if the step at i looks at nothing but values further on.
LEMMA BackwardExists ==
    ASSUME NEW n \in Nat, NEW V, NEW basis \in V, NEW G, LooksAhead(n, V, G)
    PROVE  \E f \in [Nat -> V] : IsBackward(f, n, basis, G)
<1>. USE DEF LooksAhead
<1>. DEFINE Good(m) == {f \in [Nat -> V] :
                          \A i \in Nat : i \notin 1..n \/ i > m =>
                              f[i] = IF i \in 1..n THEN G[<<i, f>>] ELSE basis}
            T == {m \in Nat : m <= n => Good(m) # {}}
<1>1. n \in T
  <2>1. [i \in Nat |-> basis] \in Good(n)
    OBVIOUS
  <2>. QED
    BY <2>1
<1>2. ASSUME NEW m \in Nat, m < n, m + 1 \in T PROVE m \in T
  <2>1. PICK f \in Good(m + 1) : TRUE
    <3>1. m + 1 <= n /\ Good(m + 1) # {}
      BY <1>2
    <3>. HIDE DEF Good
    <3>. QED
      BY <3>1
  <2>2. f \in [Nat -> V]
    OBVIOUS
  <2>3. G[<<m + 1, f>>] \in V
    BY <1>2, <2>2
  <2>. DEFINE g == [f EXCEPT ![m + 1] = G[<<m + 1, f>>]]
  <2>4. g \in [Nat -> V] /\ g[m + 1] = G[<<m + 1, f>>] /\ \A j \in Nat : j # m + 1 => g[j] = f[j]
    BY <2>2, <2>3
  <2>. HIDE DEF g
  <2>5. ASSUME NEW i \in 1..n, i > m PROVE G[<<i, f>>] = G[<<i, g>>]
    <3>1. \A j \in Nat : j > i => f[j] = g[j]
      BY <2>4, <2>5
    <3>. QED
      BY <2>2, <2>4, <3>1
  <2>6. ASSUME NEW i \in Nat, i \notin 1..n \/ i > m
        PROVE  g[i] = IF i \in 1..n THEN G[<<i, g>>] ELSE basis
    <3>1. CASE i = m + 1
      <4>1. i \in 1..n /\ i > m
        BY <1>2, <3>1
      <4>. QED
        BY <2>4, <2>5, <3>1, <4>1
    <3>2. CASE i # m + 1
      <4>1. i \notin 1..n \/ i > m + 1
        BY <2>6, <3>2
      <4>2. f[i] = IF i \in 1..n THEN G[<<i, f>>] ELSE basis
        BY <2>1, <4>1
      <4>. QED
        BY <2>4, <2>5, <2>6, <3>2, <4>2
    <3>. QED
      BY <3>1, <3>2
  <2>7. g \in Good(m)
    BY <2>4, <2>6
  <2>. QED
    BY <2>7
<1>3. \A m \in 0..n : m \in T
  <2>1. ASSUME NEW m \in Nat, \A j \in Nat : m < j /\ j <= n => j \in T, m <= n PROVE m \in T
    <3>1. CASE m = n
      BY <1>1, <3>1
    <3>2. CASE m # n
      <4>1. m < n /\ m + 1 \in Nat /\ m < m + 1 /\ m + 1 <= n
        BY <2>1, <3>2
      <4>2. m + 1 \in T
        BY <2>1, <4>1
      <4>. HIDE DEF T
      <4>. QED
        BY <1>2, <4>1, <4>2
    <3>. QED
      BY <3>1, <3>2
  <2>. HIDE DEF T
  <2>. QED
    BY <2>1, Downward
<1>4. PICK f \in Good(0) : TRUE
  BY <1>3
<1>5. \A i \in Nat : f[i] = IF i \in 1..n THEN G[<<i, f>>] ELSE basis
  BY <1>4
<1>6. f \in [Nat -> V]
  BY <1>4
<1>7. f = [i \in Nat |-> IF i \in 1..n THEN G[<<i, f>>] ELSE basis]
  BY <1>5, <1>6
<1>. QED
  BY <1>6, <1>7 DEF IsBackward

-----------------------------------------------------------------------------
(* Walks over positions.                                                   *)

\* Visited is what its recursive definition says.
LEMMA VisitedDef ==
    ASSUME NEW n \in Nat, NEW next \in [1..n -> Nat], \A i \in 1..n : next[i] > i
    PROVE  Visited(next) =
               [i \in Nat |-> IF i \notin DOMAIN next THEN {} ELSE {i} \cup Visited(next)[next[i]]]
<1>. DEFINE V == SUBSET Nat
            G == [x \in (1..n) \X [Nat -> V] |-> {x[1]} \cup x[2][next[x[1]]]]
<1>1. \A i \in 1..n, f \in [Nat -> V] : G[<<i, f>>] = {i} \cup f[next[i]]
  OBVIOUS
<1>2. \A i \in 1..n, f \in [Nat -> V] : {i} \cup f[next[i]] \in V
  OBVIOUS
<1>3. G \in [(1..n) \X [Nat -> V] -> V]
  BY <1>2
<1>. HIDE DEF G
<1>4. {} \in V
  OBVIOUS
<1>5. LooksAhead(n, V, G)
  <2>1. ASSUME NEW i \in 1..n, NEW f \in [Nat -> V], NEW g \in [Nat -> V],
               \A j \in Nat : j > i => f[j] = g[j]
        PROVE  G[<<i, f>>] = G[<<i, g>>]
    <3>1. f[next[i]] = g[next[i]]
      BY <2>1
    <3>. QED
      BY <1>1, <3>1
  <2>. QED
    BY <1>3, <2>1 DEF LooksAhead
<1>. HIDE DEF V
<1>6. PICK f \in [Nat -> V] : IsBackward(f, n, {}, G)
  BY <1>4, <1>5, BackwardExists
<1>7. f = [i \in Nat |-> IF i \notin DOMAIN next THEN {} ELSE {i} \cup f[next[i]]]
  BY <1>1, <1>6 DEF IsBackward
<1>8. \E g : g = [i \in Nat |-> IF i \notin DOMAIN next THEN {} ELSE {i} \cup g[next[i]]]
  BY <1>7
<1>9. Visited(next) = CHOOSE g : g = [i \in Nat |-> IF i \notin DOMAIN next THEN {} ELSE {i} \cup g[next[i]]]
  BY DEF Visited
<1>. QED
  BY <1>8, <1>9

\* A walk: positions go up.
Walk(n, next) == n \in Nat /\ next \in [1..n -> Nat] /\ \A i \in 1..n : next[i] > i

\* What a walk visits from i.
LEMMA VisitedStep ==
    ASSUME NEW n, NEW next, Walk(n, next), NEW i \in Nat
    PROVE  Visited(next)[i] = IF i \in 1..n THEN {i} \cup Visited(next)[next[i]] ELSE {}
<1>1. PICK f : f = Visited(next)
  OBVIOUS
<1>2. f = [j \in Nat |-> IF j \notin DOMAIN next THEN {} ELSE {j} \cup f[next[j]]]
  BY <1>1, VisitedDef DEF Walk
<1>3. DOMAIN next = 1..n
  BY DEF Walk
<1>. QED
  BY <1>1, <1>2, <1>3

\* A walk visits i, and what it visits from next[i].
LEMMA VisitedMore ==
    ASSUME NEW n, NEW next, Walk(n, next), NEW i \in 1..n
    PROVE  Visited(next)[i] = {i} \cup Visited(next)[next[i]]
<1>1. i \in Nat
  BY DEF Walk
<1>. QED
  BY <1>1, VisitedStep

\* A walk visits nothing from a position beyond its last.
LEMMA VisitedNone ==
    ASSUME NEW n, NEW next, Walk(n, next), NEW i \in Nat, i \notin 1..n
    PROVE  Visited(next)[i] = {}
BY VisitedStep

\* A walk visits positions from where it starts to the last one.
LEMMA VisitedRange ==
    ASSUME NEW n, NEW next, Walk(n, next), NEW i \in Nat
    PROVE  Visited(next)[i] \subseteq {j \in 1..n : j >= i}
<1>. DEFINE T == {k \in Nat : Visited(next)[k] \subseteq {j \in 1..n : j >= k}}
<1>2. n \in Nat
  BY DEF Walk
<1>1. ASSUME NEW k \in Nat, k <= n, \A j \in Nat : k < j /\ j <= n => j \in T PROVE k \in T
  <2>1. CASE k = 0
    <3>1. Visited(next)[k] = {}
      BY <2>1, VisitedNone
    <3>. QED
      BY <3>1
  <2>2. CASE k # 0
    <3>1. k \in 1..n /\ next[k] \in Nat /\ next[k] > k
      BY <1>1, <2>2 DEF Walk
    <3>2. PICK m \in Nat : m = next[k] /\ m > k
      BY <3>1
    <3>3. Visited(next)[k] = {k} \cup Visited(next)[m]
      BY <3>1, <3>2, VisitedStep
    <3>4. Visited(next)[m] \subseteq {j \in 1..n : j >= k}
      <4>1. CASE m <= n
        <5>1. m \in T
          BY <1>1, <3>2, <4>1
        <5>. QED
          BY <3>2, <5>1
      <4>2. CASE m > n
        <5>1. m \notin 1..n
          BY <1>2, <4>2
        <5>2. Visited(next)[m] = {}
          BY <5>1, VisitedNone
        <5>. QED
          BY <5>2
      <4>. QED
        BY <1>2, <4>1, <4>2
    <3>. QED
      BY <3>1, <3>3, <3>4
  <2>. QED
    BY <2>1, <2>2
<1>3. CASE i <= n
  <2>1. \A k \in 0..n : k \in T
    <3>. HIDE DEF T
    <3>. QED
      BY <1>1, <1>2, Downward
  <2>. QED
    BY <1>2, <1>3, <2>1
<1>4. CASE i > n
  <2>1. i \notin 1..n
    BY <1>2, <1>4
  <2>2. Visited(next)[i] = {}
    BY <2>1, VisitedNone
  <2>. QED
    BY <2>2
<1>. QED
  BY <1>2, <1>3, <1>4

\* What a walk visits from a position it comes to is the rest of what it visits.
LEMMA VisitedRest ==
    ASSUME NEW n, NEW next, Walk(n, next), NEW i \in Nat, NEW j \in Visited(next)[i]
    PROVE  Visited(next)[j] = {k \in Visited(next)[i] : k >= j}
<1>. DEFINE V(k) == Visited(next)[k]
            T == {k \in Nat : j \in V(k) => V(j) = {l \in V(k) : l >= j}}
<1>0. n \in Nat /\ j \in 1..n /\ j >= i /\ i <= n
  <2>1. n \in Nat
    BY DEF Walk
  <2>2. Visited(next)[i] \subseteq {k \in 1..n : k >= i}
    BY VisitedRange
  <2>3. j \in 1..n /\ j >= i
    BY <2>2
  <2>. QED
    BY <2>1, <2>3
<1>1. ASSUME NEW k \in Nat, k <= n, \A l \in Nat : k < l /\ l <= n => l \in T PROVE k \in T
  <2>1. CASE k = j
    <3>1. V(j) \subseteq {l \in 1..n : l >= j}
      BY <1>0, VisitedRange
    <3>2. V(j) = {l \in V(k) : l >= j}
      BY <2>1, <3>1
    <3>. HIDE DEF V
    <3>. QED
      BY <3>2
  <2>2. CASE k # j /\ j \in V(k)
    <3>1. k \in 1..n /\ V(k) = {k} \cup V(next[k])
      BY <2>2, VisitedStep
    <3>2. PICK m \in Nat : m = next[k] /\ m > k
      BY <3>1 DEF Walk
    <3>3. j \in V(m)
      BY <2>2, <3>1, <3>2
    <3>4. m <= j /\ m <= n
      BY <1>0, <3>2, <3>3, VisitedRange
    <3>5. m \in T
      BY <1>1, <3>2, <3>4
    <3>6. V(j) = {l \in V(m) : l >= j}
      BY <3>3, <3>5
    <3>7. {l \in V(k) : l >= j} = {l \in V(m) : l >= j}
      BY <1>0, <3>1, <3>2, <3>4
    <3>. HIDE DEF V
    <3>. QED
      BY <3>6, <3>7
  <2>3. CASE j \notin V(k)
    BY <2>3
  <2>. QED
    BY <2>1, <2>2, <2>3
<1>2. \A k \in 0..n : k \in T
  <2>. HIDE DEF T
  <2>. QED
    BY <1>0, <1>1, Downward
<1>. QED
  BY <1>0, <1>2

\* Beyond a position that a walk has come to, it visits nothing before it.
LEMMA VisitedLater ==
    ASSUME NEW n, NEW next, Walk(n, next), NEW i \in Nat, NEW j \in Nat, j < i
    PROVE  j \notin Visited(next)[i]
BY VisitedRange

\* Over a stretch of m positions after a and after b two walks go alike, from p
\* on, if their steps have the same length or both leave the stretch.
SameSteps(next, a, next2, b, m, p) ==
    \A i \in 1..m : i + a \in Visited(next)[p + a] =>
        \/ next2[i + b] + a = next[i + a] + b
        \/ next2[i + b] > m + b /\ next[i + a] > m + a

\* They visit the same positions of the stretch from p on.
SameVisits(next, a, next2, b, m, p) ==
    \A i \in 1..m : i + b \in Visited(next2)[p + b] <=> i + a \in Visited(next)[p + a]

\* Such walks visit the same positions of the stretch.
LEMMA VisitedAlike ==
    ASSUME NEW n, NEW next, Walk(n, next), NEW n2, NEW next2, Walk(n2, next2),
           NEW a \in Nat, NEW b \in Nat, NEW m \in Nat, a + m <= n, b + m <= n2,
           NEW p \in 1..(m + 1), SameSteps(next, a, next2, b, m, p)
    PROVE  SameVisits(next, a, next2, b, m, p)
<1>. DEFINE V(k) == Visited(next)[k + a]
            W(k) == Visited(next2)[k + b]
            Same(k) == \A i \in 1..m : i + b \in W(k) <=> i + a \in V(k)
            T == {k \in Nat : k + a \in V(p) /\ k # 0 => Same(k)}
<1>0. n \in Nat /\ n2 \in Nat
  BY DEF Walk
<1>1. ASSUME NEW k \in Nat, k > m PROVE Same(k)
  <2>1. ASSUME NEW i \in 1..m PROVE i + b \notin W(k) /\ i + a \notin V(k)
    <3>1. i + a \in Nat /\ k + a \in Nat /\ i + b \in Nat /\ k + b \in Nat
          /\ i + a < k + a /\ i + b < k + b
      BY <1>1
    <3>. QED
      BY <3>1, VisitedLater
  <2>. QED
    BY <2>1
<1>2. ASSUME NEW k \in Nat, k <= m, \A l \in Nat : k < l /\ l <= m => l \in T PROVE k \in T
  <2>1. ASSUME k + a \in V(p), k # 0 PROVE Same(k)
    <3>1. k \in 1..m /\ k + a \in 1..n /\ k + b \in 1..n2
      BY <1>0, <1>2, <2>1
    <3>2. PICK x \in Nat, y \in Nat : x = next[k + a] /\ y = next2[k + b] /\ x > k + a /\ y > k + b
      BY <3>1 DEF Walk
    <3>3. V(k) = {k + a} \cup Visited(next)[x] /\ W(k) = {k + b} \cup Visited(next2)[y]
      <4>1. PICK c \in 1..n, d \in 1..n2 : c = k + a /\ d = k + b
        BY <3>1
      <4>2. /\ Visited(next)[c] = {c} \cup Visited(next)[next[c]]
            /\ Visited(next2)[d] = {d} \cup Visited(next2)[next2[d]]
        BY VisitedMore
      <4>. QED
        BY <3>2, <4>1, <4>2
    <3>4. y + a = x + b \/ (y > m + b /\ x > m + a)
      BY <2>1, <3>1, <3>2 DEF SameSteps
    <3>5. \A i \in 1..m : i + b \in Visited(next2)[y] <=> i + a \in Visited(next)[x]
      <4>1. CASE x <= m + a
        <5>1. PICK l \in Nat : x = l + a /\ y = l + b /\ k < l /\ l <= m
          <6>1. x - a \in Nat /\ x = (x - a) + a /\ y = (x - a) + b /\ k < x - a /\ x - a <= m
            BY <3>2, <3>4, <4>1
          <6>. QED
            BY <6>1
        <5>2. x \in 1..n /\ x \in Visited(next)[x]
          <6>1. x \in 1..n
            BY <1>0, <3>2, <4>1
          <6>2. Visited(next)[x] = {x} \cup Visited(next)[next[x]]
            BY <6>1, VisitedStep
          <6>. QED
            BY <6>1, <6>2
        <5>3. x \in V(p)
          <6>1. p + a \in Nat
            OBVIOUS
          <6>2. V(k) \subseteq V(p)
            BY <2>1, <6>1, VisitedRest
          <6>. QED
            BY <3>3, <5>2, <6>2
        <5>4. l \in T /\ l # 0
          BY <1>2, <5>1
        <5>5. Same(l)
          BY <5>1, <5>3, <5>4
        <5>. QED
          BY <5>1, <5>5
      <4>2. CASE x > m + a
        <5>1. y > m + b
          BY <3>4, <4>2
        <5>2. ASSUME NEW i \in 1..m
              PROVE  i + b \notin Visited(next2)[y] /\ i + a \notin Visited(next)[x]
          <6>1. i + a \in Nat /\ i + b \in Nat /\ i + a < x /\ i + b < y
            BY <4>2, <5>1
          <6>. QED
            BY <6>1, VisitedLater
        <5>. QED
          BY <5>2
      <4>. QED
        BY <4>1, <4>2
    <3>6. \A i \in 1..m : i + b = k + b <=> i + a = k + a
      OBVIOUS
    <3>. HIDE DEF V, W
    <3>. QED
      BY <3>3, <3>5, <3>6
  <2>. HIDE DEF Same
  <2>. QED
    BY <2>1
<1>3. \A k \in 0..m : k \in T
  <2>. HIDE DEF T
  <2>. QED
    BY <1>2, Downward
<1>4. Same(p)
  <2>1. CASE p = m + 1
    <3>. HIDE DEF Same
    <3>. QED
      BY <1>1, <2>1
  <2>2. CASE p # m + 1
    <3>1. p \in 1..m /\ p + a \in 1..n /\ p # 0
      BY <1>0, <2>2
    <3>2. p + a \in V(p)
      <4>1. PICK c \in 1..n : c = p + a
        BY <3>1
      <4>2. Visited(next)[c] = {c} \cup Visited(next)[next[c]]
        BY VisitedMore
      <4>. QED
        BY <4>1, <4>2
    <3>3. p \in T
      <4>. HIDE DEF T
      <4>. QED
        BY <1>3, <3>1
    <3>. HIDE DEF Same
    <3>. QED
      BY <3>1, <3>2, <3>3
  <2>. QED
    BY <2>1, <2>2
<1>. QED
  BY <1>4 DEF SameVisits

-----------------------------------------------------------------------------
(* Texts, quotes and comments.                                             *)

\* What the scanners are given.
SQLTexts == Seq(Characters)

\* A text is a sequence of characters.
LEMMA TextFacts ==
    ASSUME NEW t \in SQLTexts
    PROVE  Len(t) \in Nat /\ DOMAIN t = 1..Len(t) /\ \A i \in 1..Len(t) : t[i] \in Characters
BY LenProperties, ElementOfSeq DEF SQLTexts

\* The least member of a set of positions.
LEMMA LeastOf ==
    ASSUME NEW S \in SUBSET Nat, S # {}
    PROVE  Min(S) \in S /\ \A x \in S : Min(S) <= x
<1>. DEFINE T == {i \in Nat : i \notin S}
<1>1. ASSUME \A x \in S : \E y \in S : y < x PROVE FALSE
  <2>1. ASSUME NEW i \in Nat, \A j \in Nat : j < i => j \in T PROVE i \in T
    <3>1. ASSUME i \in S PROVE FALSE
      <4>1. PICK y \in S : y < i
        BY <1>1, <3>1
      <4>. QED
        BY <2>1, <4>1
    <3>. QED
      BY <3>1
  <2>2. \A i \in Nat : i \in T
    <3>. HIDE DEF T
    <3>. QED
      BY <2>1, Upward
  <2>. QED
    BY <2>2
<1>2. PICK x \in S : \A y \in S : ~(y < x)
  BY <1>1
<1>3. \E x0 \in S : \A y \in S : x0 <= y
  BY <1>2
<1>. QED
  BY <1>3 DEF Min

\* The least member of a set of positions is known by what it is.
LEMMA LeastIs ==
    ASSUME NEW S \in SUBSET Nat, NEW x \in S, \A y \in S : x <= y
    PROVE  Min(S) = x
<1>1. Min(S) \in S /\ Min(S) <= x
  BY LeastOf
<1>2. PICK y \in Nat : y = Min(S) /\ y <= x /\ y \in S
  BY <1>1
<1>3. x <= y /\ x \in Nat
  BY <1>2
<1>. QED
  BY <1>2, <1>3

\* The same m characters after a in t and after b in u.
Stretch(t, a, u, b, m) ==
    /\ t \in SQLTexts /\ u \in SQLTexts /\ a \in Nat /\ b \in Nat /\ m \in Nat
    /\ a + m <= Len(t) /\ b + m <= Len(u)
    /\ \A i \in 1..m : u[i + b] = t[i + a]

\* After them u ends, or it goes on with a parenthesis that closes.
EndsAlike(t, a, u, b, m) ==
    \/ Len(u) = b + m
    \/ a + m < Len(t) /\ b + m < Len(u) /\ u[b + m + 1] = ")"

\* After them u ends, and t goes on with white space.
EndsInSpace(t, a, u, b, m) ==
    Len(u) = b + m /\ a + m < Len(t) /\ t[a + m + 1] \in Spaces

\* In a quote a scan goes up.
LEMMA QuoteWalk ==
    ASSUME NEW t \in SQLTexts, NEW quote
    PROVE  /\ Walk(Len(t), QuoteSteps(t, quote))
           /\ \A i \in 1..Len(t) : QuoteSteps(t, quote)[i] =
                                      IF Escapes(t, quote, i) THEN i + 2 ELSE i + 1
<1>1. Len(t) \in Nat
  BY TextFacts
<1>. QED
  BY <1>1 DEF Walk, QuoteSteps

\* Where a quote may close.
Closings(t, p) ==
    {i \in Visited(QuoteSteps(t, t[p]))[p + 1] : t[i] = t[p] /\ ~Escapes(t, t[p], i)}

\* A quote ends after where it begins, at its first closing or with the text.
LEMMA QuoteRange ==
    ASSUME NEW t \in SQLTexts, NEW p \in 1..Len(t)
    PROVE  /\ quotedSQLSpan(t, p) = IF Closings(t, p) = {} THEN Len(t) + 1 ELSE Min(Closings(t, p)) + 1
           /\ Closings(t, p) \subseteq (p + 1)..Len(t)
           /\ quotedSQLSpan(t, p) \in (p + 1)..(Len(t) + 1)
<1>1. quotedSQLSpan(t, p) = IF Closings(t, p) = {} THEN Len(t) + 1 ELSE Min(Closings(t, p)) + 1
  BY DEF quotedSQLSpan, Closings
<1>2. Len(t) \in Nat
  BY TextFacts
<1>3. Closings(t, p) \subseteq (p + 1)..Len(t)
  <2>1. PICK n, next, q : n = Len(t) /\ next = QuoteSteps(t, t[p]) /\ q = p + 1
    OBVIOUS
  <2>2. Walk(n, next) /\ q \in Nat
    BY <2>1, QuoteWalk
  <2>3. Visited(next)[q] \subseteq {j \in 1..n : j >= q}
    BY <2>2, VisitedRange
  <2>. QED
    BY <1>2, <2>1, <2>3 DEF Closings
<1>4. Closings(t, p) # {} => Min(Closings(t, p)) \in Closings(t, p)
  BY <1>2, <1>3, LeastOf
<1>. QED
  BY <1>1, <1>2, <1>3, <1>4

\* A quote that begins in a stretch may close at the same positions of it.  The
\* last one may close in u alone, if it is the first of a doubled quote in t.
LEMMA ClosingsAlike ==
    ASSUME NEW t, NEW a, NEW u, NEW b, NEW m, Stretch(t, a, u, b, m), NEW i \in 1..m,
           t[i + a] \in Quotes
    PROVE  /\ \A j \in 1..m : j < m => (j + b \in Closings(u, i + b) <=> j + a \in Closings(t, i + a))
           /\ EndsAlike(t, a, u, b, m) =>
                 (m + a \in Closings(t, i + a) => m + b \in Closings(u, i + b))
           /\ m + b \in Closings(u, i + b) => \/ m + a \in Closings(t, i + a)
                                              \/ a + m < Len(t) /\ t[a + m + 1] = t[i + a]
<1>1. /\ t \in SQLTexts /\ u \in SQLTexts /\ a \in Nat /\ b \in Nat /\ m \in Nat
      /\ a + m <= Len(t) /\ b + m <= Len(u) /\ Len(t) \in Nat /\ Len(u) \in Nat
      /\ \A j \in 1..m : u[j + b] = t[j + a]
  BY TextFacts DEF Stretch
<1>2. PICK q \in Quotes : q = t[i + a] /\ q = u[i + b]
  BY <1>1
<1>3. PICK next, next2, n, n2 :
        /\ next = QuoteSteps(t, q) /\ next2 = QuoteSteps(u, q) /\ n = Len(t) /\ n2 = Len(u)
  OBVIOUS
<1>4. Walk(n, next) /\ Walk(n2, next2)
  BY <1>1, <1>3, QuoteWalk
<1>5. \A j \in 1..m : j < m => (Escapes(u, q, j + b) <=> Escapes(t, q, j + a))
  <2>. TAKE j \in 1..m
  <2>1. ASSUME j < m PROVE Escapes(u, q, j + b) <=> Escapes(t, q, j + a)
    <3>1. j + 1 \in 1..m /\ (j + 1) + a = j + a + 1 /\ (j + 1) + b = j + b + 1
      BY <1>1, <2>1
    <3>2. u[j + b] = t[j + a] /\ u[j + b + 1] = t[j + a + 1]
      <4>1. PICK l \in 1..m : l = j + 1 /\ l + a = j + a + 1 /\ l + b = j + b + 1
        BY <3>1
      <4>2. u[l + b] = t[l + a] /\ u[j + b] = t[j + a]
        BY <1>1
      <4>. QED
        BY <4>1, <4>2
    <3>3. j + a < Len(t) /\ j + b < Len(u)
      BY <1>1, <2>1
    <3>. QED
      BY <3>2, <3>3 DEF Escapes
  <2>. QED
    BY <2>1
<1>6. PICK p \in 1..(m + 1) : p = i + 1
  BY <1>1
<1>7. \A j \in 1..m : j + b \in Visited(next2)[p + b] <=> j + a \in Visited(next)[p + a]
  <2>1. ASSUME NEW j \in 1..m
        PROVE  next2[j + b] + a = next[j + a] + b \/ (next2[j + b] > m + b /\ next[j + a] > m + a)
    <3>1. j + a \in 1..Len(t) /\ j + b \in 1..Len(u)
      BY <1>1
    <3>2. next[j + a] = (IF Escapes(t, q, j + a) THEN (j + a) + 2 ELSE (j + a) + 1)
          /\ next2[j + b] = IF Escapes(u, q, j + b) THEN (j + b) + 2 ELSE (j + b) + 1
      BY <1>1, <1>3, <3>1, QuoteWalk
    <3>3. CASE j < m
      <4>1. Escapes(u, q, j + b) <=> Escapes(t, q, j + a)
        BY <1>5, <3>3
      <4>. QED
        BY <1>1, <3>2, <4>1
    <3>4. CASE j = m
      BY <1>1, <3>2, <3>4
    <3>. QED
      BY <1>1, <3>3, <3>4
  <2>2. SameSteps(next, a, next2, b, m, p)
    BY <2>1 DEF SameSteps
  <2>3. a \in Nat /\ b \in Nat /\ m \in Nat /\ a + m <= n /\ b + m <= n2
    BY <1>1, <1>3
  <2>. QED
    <3>1. SameVisits(next, a, next2, b, m, p)
      BY <1>4, <2>2, <2>3, VisitedAlike
    <3>. QED
      BY <3>1 DEF SameVisits
<1>8. /\ Closings(t, i + a) = {j \in Visited(next)[p + a] : t[j] = q /\ ~Escapes(t, q, j)}
      /\ Closings(u, i + b) = {j \in Visited(next2)[p + b] : u[j] = q /\ ~Escapes(u, q, j)}
  <2>1. p + a = (i + a) + 1 /\ p + b = (i + b) + 1
    BY <1>1, <1>6
  <2>. QED
    BY <1>2, <1>3, <2>1 DEF Closings
<1>9. \A j \in 1..m : j < m => (j + b \in Closings(u, i + b) <=> j + a \in Closings(t, i + a))
  BY <1>1, <1>5, <1>7, <1>8
<1>10. /\ m \in 1..m /\ u[m + b] = t[m + a]
       /\ m + b \in Visited(next2)[p + b] <=> m + a \in Visited(next)[p + a]
  BY <1>1, <1>7
<1>11. ASSUME EndsAlike(t, a, u, b, m), m + a \in Closings(t, i + a)
       PROVE  m + b \in Closings(u, i + b)
  <2>1. t[m + a] = q /\ q # ")" /\ q # "\\"
    BY <1>8, <1>11 DEF Quotes
  <2>2. ~Escapes(u, q, m + b)
    BY <1>1, <1>10, <1>11, <2>1 DEF Escapes, EndsAlike
  <2>. QED
    BY <1>8, <1>10, <1>11, <2>2
<1>12. ASSUME m + b \in Closings(u, i + b), m + a \notin Closings(t, i + a)
       PROVE  a + m < Len(t) /\ t[a + m + 1] = t[i + a]
  <2>1. t[m + a] = q /\ Escapes(t, q, m + a) /\ q # "\\"
    BY <1>8, <1>10, <1>12 DEF Quotes
  <2>. QED
    BY <1>1, <1>2, <2>1 DEF Escapes
<1>. QED
  BY <1>9, <1>11, <1>12

\* A quote that begins in a stretch ends in u where it does in t, or with u.
LEMMA QuoteAlike ==
    ASSUME NEW t, NEW a, NEW u, NEW b, NEW m, Stretch(t, a, u, b, m), NEW i \in 1..m,
           t[i + a] \in Quotes
    PROVE  /\ EndsAlike(t, a, u, b, m) /\ quotedSQLSpan(t, i + a) <= a + m + 1 =>
                 quotedSQLSpan(u, i + b) + a = quotedSQLSpan(t, i + a) + b
           /\ EndsInSpace(t, a, u, b, m) /\ quotedSQLSpan(t, i + a) > a + m + 1 =>
                 quotedSQLSpan(u, i + b) = b + m + 1
<1>1. /\ t \in SQLTexts /\ u \in SQLTexts /\ a \in Nat /\ b \in Nat /\ m \in Nat
      /\ a + m <= Len(t) /\ b + m <= Len(u) /\ Len(t) \in Nat /\ Len(u) \in Nat
      /\ \A j \in 1..m : u[j + b] = t[j + a]
  BY TextFacts DEF Stretch
<1>2. PICK p \in 1..Len(t), r \in 1..Len(u), n \in Nat, l \in Nat :
        p = i + a /\ r = i + b /\ n = Len(t) /\ l = Len(u)
  <2>1. i + a \in 1..Len(t) /\ i + b \in 1..Len(u)
    BY <1>1
  <2>. QED
    BY <1>1, <2>1
<1>3. PICK CT, CU : CT = Closings(t, p) /\ CU = Closings(u, r)
  OBVIOUS
<1>4. /\ quotedSQLSpan(t, p) = (IF CT = {} THEN n + 1 ELSE Min(CT) + 1)
      /\ quotedSQLSpan(u, r) = (IF CU = {} THEN l + 1 ELSE Min(CU) + 1)
      /\ CT \subseteq (p + 1)..n /\ CU \subseteq (r + 1)..l
  BY <1>1, <1>2, <1>3, QuoteRange
<1>5. /\ \A j \in 1..m : j < m => (j + b \in CU <=> j + a \in CT)
      /\ EndsAlike(t, a, u, b, m) => (m + a \in CT => m + b \in CU)
      /\ m + b \in CU => m + a \in CT \/ (a + m < n /\ t[a + m + 1] = t[p])
  BY <1>2, <1>3, ClosingsAlike
<1>6. CT \in SUBSET Nat /\ CU \in SUBSET Nat
  BY <1>2, <1>4
<1>7. ASSUME EndsAlike(t, a, u, b, m), quotedSQLSpan(t, p) <= a + m + 1
      PROVE  quotedSQLSpan(u, r) + a = quotedSQLSpan(t, p) + b
  <2>1. CASE CT # {}
    <3>1. PICK c \in CT : c = Min(CT) /\ \A x \in CT : c <= x
      BY <1>6, <2>1, LeastOf
    <3>2. c \in Nat /\ quotedSQLSpan(t, p) = c + 1 /\ c <= a + m /\ c >= p + 1
      BY <1>1, <1>2, <1>4, <1>7, <2>1, <3>1
    <3>3. PICK j \in 1..m : c = j + a
      <4>1. c - a \in 1..m /\ c = (c - a) + a
        BY <1>1, <1>2, <3>2
      <4>. QED
        BY <4>1
    <3>4. PICK d \in CU : d = j + b
      <4>1. CASE j < m
        BY <1>5, <3>1, <3>3, <4>1
      <4>2. CASE j = m
        BY <1>5, <1>7, <3>1, <3>3, <4>2
      <4>. QED
        BY <1>1, <4>1, <4>2
    <3>5. ASSUME NEW x \in CU PROVE d <= x
      <4>1. SUFFICES ASSUME x < d PROVE FALSE
        BY <1>6
      <4>2. x \in Nat /\ x >= r + 1
        BY <1>2, <1>4, <1>6
      <4>3. PICK k \in 1..m : x = k + b /\ k < j
        <5>1. x - b \in 1..m /\ x = (x - b) + b /\ x - b < j
          BY <1>1, <1>2, <3>4, <4>1, <4>2
        <5>. QED
          BY <5>1
      <4>4. k + a \in CT
        BY <1>1, <1>5, <4>3
      <4>. QED
        BY <1>1, <3>1, <3>3, <4>3, <4>4
    <3>6. Min(CU) = d
      BY <1>6, <3>5, LeastIs
    <3>7. quotedSQLSpan(u, r) = d + 1
      BY <1>4, <3>4, <3>6
    <3>. QED
      BY <1>1, <3>2, <3>3, <3>4, <3>7
  <2>2. CASE CT = {}
    <3>1. quotedSQLSpan(t, p) = n + 1 /\ n = a + m /\ l = b + m
      BY <1>1, <1>2, <1>4, <1>7, <2>2 DEF EndsAlike
    <3>2. ASSUME NEW x \in CU PROVE FALSE
      <4>1. x \in Nat /\ x >= r + 1 /\ x <= l
        BY <1>2, <1>4, <1>6
      <4>2. PICK k \in 1..m : x = k + b
        <5>1. x - b \in 1..m /\ x = (x - b) + b
          BY <1>1, <1>2, <3>1, <4>1
        <5>. QED
          BY <5>1
      <4>3. CASE k < m
        BY <1>5, <2>2, <4>2, <4>3
      <4>4. CASE k = m
        BY <1>1, <1>5, <2>2, <3>1, <4>2, <4>4
      <4>. QED
        BY <1>1, <4>3, <4>4
    <3>3. quotedSQLSpan(u, r) = l + 1
      BY <1>4, <3>2
    <3>. QED
      BY <1>1, <3>1, <3>3
  <2>. QED
    BY <2>1, <2>2
<1>8. ASSUME EndsInSpace(t, a, u, b, m), quotedSQLSpan(t, p) > a + m + 1
      PROVE  quotedSQLSpan(u, r) = b + m + 1
  <2>1. l = b + m /\ t[a + m + 1] # t[p]
    BY <1>2, <1>8 DEF EndsInSpace, Spaces, Quotes
  <2>2. ASSUME NEW x \in CT PROVE x > a + m
    <3>1. Min(CT) <= x /\ Min(CT) \in CT
      BY <1>6, LeastOf
    <3>2. quotedSQLSpan(t, p) = Min(CT) + 1 /\ x \in Nat /\ Min(CT) \in Nat
      BY <1>4, <1>6, <3>1
    <3>. QED
      BY <1>1, <1>8, <3>1, <3>2
  <2>3. ASSUME NEW x \in CU PROVE FALSE
    <3>1. x \in Nat /\ x >= r + 1 /\ x <= l
      BY <1>2, <1>4, <1>6
    <3>2. PICK k \in 1..m : x = k + b
      <4>1. x - b \in 1..m /\ x = (x - b) + b
        BY <1>1, <1>2, <2>1, <3>1
      <4>. QED
        BY <4>1
    <3>3. k + a \notin CT
      BY <1>1, <2>2
    <3>4. CASE k < m
      BY <1>5, <3>2, <3>3, <3>4
    <3>5. CASE k = m
      BY <1>5, <2>1, <3>2, <3>3, <3>5
    <3>. QED
      BY <1>1, <3>4, <3>5
  <2>. QED
    BY <1>4, <2>1, <2>3
<1>. QED
  BY <1>2, <1>7, <1>8

\* The first of some positions.
LEMMA FirstFacts ==
    ASSUME NEW t \in SQLTexts, NEW S \in SUBSET (1..Len(t))
    PROVE  /\ FirstOf(t, S) \in 1..(Len(t) + 1)
           /\ \A x \in S : FirstOf(t, S) <= x
           /\ FirstOf(t, S) \in S \/ (S = {} /\ FirstOf(t, S) = Len(t) + 1)
<1>1. Len(t) \in Nat /\ S \in SUBSET Nat
  BY TextFacts
<1>2. CASE S = {}
  BY <1>1, <1>2 DEF FirstOf
<1>3. CASE S # {}
  <2>1. PICK y \in S : y = Min(S) /\ \A x \in S : y <= x
    BY <1>1, <1>3, LeastOf
  <2>2. FirstOf(t, S) = y
    BY <1>3, <2>1 DEF FirstOf
  <2>. QED
    BY <1>1, <2>1, <2>2
<1>. QED
  BY <1>2, <1>3

\* A comment opens at p, to the end of the line or to its mark.
LineOpens(t, p) == Pair(t, p, "-", "-") \/ t[p] = "#"
BlockOpens(t, p) == Pair(t, p, "/", "*")

\* The comment that opens at p ends before position s.
LineEnds(t, p, s) ==
    \/ s = Len(t) + 1 /\ \A i \in p..Len(t) : t[i] # "\n"
    \/ \E y \in p..Len(t) : s = y + 1 /\ t[y] = "\n" /\ \A i \in p..Len(t) : i < y => t[i] # "\n"
BlockEnds(t, p, s) ==
    \/ s = Len(t) + 1 /\ \A i \in (p + 2)..Len(t) : ~Pair(t, i, "*", "/")
    \/ \E y \in (p + 2)..Len(t) :
          s = y + 2 /\ Pair(t, y, "*", "/") /\ \A i \in (p + 2)..Len(t) : i < y => ~Pair(t, i, "*", "/")

\* Where a comment ends.
LEMMA CommentShape ==
    ASSUME NEW t \in SQLTexts, NEW p \in 1..Len(t)
    PROVE  /\ LineOpens(t, p) =>
                 \A s : sqlCommentSpan(t, p) = s <=> LineEnds(t, p, s)
           /\ ~LineOpens(t, p) /\ BlockOpens(t, p) =>
                 \A s : sqlCommentSpan(t, p) = s <=> BlockEnds(t, p, s)
           /\ ~LineOpens(t, p) /\ ~BlockOpens(t, p) => sqlCommentSpan(t, p) = p
<1>. DEFINE N == {i \in p..Len(t) : t[i] = "\n"}
            M == {i \in p + 2 .. Len(t) : Pair(t, i, "*", "/")}
<1>1. Len(t) \in Nat /\ N \in SUBSET Nat /\ M \in SUBSET Nat
  BY TextFacts
<1>2. /\ LineOpens(t, p) => sqlCommentSpan(t, p) = IF N = {} THEN Len(t) + 1 ELSE Min(N) + 1
      /\ ~LineOpens(t, p) /\ BlockOpens(t, p) =>
            sqlCommentSpan(t, p) = IF M = {} THEN Len(t) + 1 ELSE Min(M) + 2
      /\ ~LineOpens(t, p) /\ ~BlockOpens(t, p) => sqlCommentSpan(t, p) = p
  BY DEF sqlCommentSpan, LineOpens, BlockOpens
<1>3. ASSUME LineOpens(t, p), NEW s PROVE sqlCommentSpan(t, p) = s <=> LineEnds(t, p, s)
  <2>1. CASE N = {}
    BY <1>2, <1>3, <2>1 DEF LineEnds
  <2>2. CASE N # {}
    <3>1. PICK y \in N : y = Min(N) /\ \A x \in N : y <= x
      BY <1>1, <2>2, LeastOf
    <3>2. sqlCommentSpan(t, p) = y + 1
      BY <1>2, <1>3, <2>2, <3>1
    <3>3. y \in p..Len(t) /\ t[y] = "\n" /\ \A i \in p..Len(t) : i < y => t[i] # "\n"
      <4>1. y \in p..Len(t) /\ t[y] = "\n"
        OBVIOUS
      <4>2. ASSUME NEW i \in p..Len(t), i < y PROVE t[i] # "\n"
        <5>1. ASSUME t[i] = "\n" PROVE FALSE
          <6>1. i \in N
            BY <5>1
          <6>2. y <= i
            BY <3>1, <6>1
          <6>. QED
            BY <1>1, <4>1, <4>2, <6>2
        <5>. QED
          BY <5>1
      <4>. QED
        BY <4>1, <4>2
    <3>4. \A z \in p..Len(t) : t[z] = "\n" /\ (\A i \in p..Len(t) : i < z => t[i] # "\n") => z = y
      BY <1>1, <3>3
    <3>5. LineEnds(t, p, s) <=> s = y + 1
      BY <3>3, <3>4 DEF LineEnds
    <3>. QED
      BY <3>2, <3>5
  <2>. QED
    BY <2>1, <2>2
<1>4. ASSUME ~LineOpens(t, p), BlockOpens(t, p), NEW s
      PROVE  sqlCommentSpan(t, p) = s <=> BlockEnds(t, p, s)
  <2>1. CASE M = {}
    BY <1>2, <1>4, <2>1 DEF BlockEnds
  <2>2. CASE M # {}
    <3>1. PICK y \in M : y = Min(M) /\ \A x \in M : y <= x
      BY <1>1, <2>2, LeastOf
    <3>2. sqlCommentSpan(t, p) = y + 2
      BY <1>2, <1>4, <2>2, <3>1
    <3>3. /\ y \in (p + 2)..Len(t) /\ Pair(t, y, "*", "/")
          /\ \A i \in (p + 2)..Len(t) : i < y => ~Pair(t, i, "*", "/")
      <4>1. y \in (p + 2)..Len(t) /\ Pair(t, y, "*", "/")
        OBVIOUS
      <4>2. ASSUME NEW i \in (p + 2)..Len(t), i < y PROVE ~Pair(t, i, "*", "/")
        <5>1. ASSUME Pair(t, i, "*", "/") PROVE FALSE
          <6>1. i \in M
            BY <5>1
          <6>2. y <= i
            BY <3>1, <6>1
          <6>. QED
            BY <1>1, <4>1, <4>2, <6>2
        <5>. QED
          BY <5>1
      <4>. QED
        BY <4>1, <4>2
    <3>4. \A z \in (p + 2)..Len(t) :
             Pair(t, z, "*", "/") /\ (\A i \in (p + 2)..Len(t) : i < z => ~Pair(t, i, "*", "/"))
             => z = y
      BY <1>1, <3>3
    <3>5. BlockEnds(t, p, s) <=> s = y + 2
      BY <3>3, <3>4 DEF BlockEnds
    <3>. QED
      BY <3>2, <3>5
  <2>. QED
    BY <2>1, <2>2
<1>. QED
  BY <1>2, <1>3, <1>4

\* A span does not end before it begins, and a comment is not empty.
LEMMA CommentRange ==
    ASSUME NEW t \in SQLTexts, NEW p \in 1..Len(t)
    PROVE  /\ sqlCommentSpan(t, p) \in p..(Len(t) + 1)
           /\ LineOpens(t, p) \/ BlockOpens(t, p) => sqlCommentSpan(t, p) > p
<1>1. Len(t) \in Nat
  BY TextFacts
<1>2. PICK s : s = sqlCommentSpan(t, p)
  OBVIOUS
<1>3. CASE LineOpens(t, p)
  <2>1. LineEnds(t, p, s)
    BY <1>2, <1>3, CommentShape
  <2>. QED
    BY <1>1, <1>2, <2>1 DEF LineEnds
<1>4. CASE ~LineOpens(t, p) /\ BlockOpens(t, p)
  <2>1. BlockEnds(t, p, s)
    BY <1>2, <1>4, CommentShape
  <2>. QED
    BY <1>1, <1>2, <2>1 DEF BlockEnds, Pair
<1>5. CASE ~LineOpens(t, p) /\ ~BlockOpens(t, p)
  BY <1>1, <1>5, CommentShape
<1>. QED
  BY <1>3, <1>4, <1>5

\* What begins at p ends there or later.
LEMMA SpanRange ==
    ASSUME NEW t \in SQLTexts, NEW p \in 1..Len(t)
    PROVE  Span(t, p) \in p..(Len(t) + 1)
<1>1. Len(t) \in Nat
  BY TextFacts
<1>2. quotedSQLSpan(t, p) \in (p + 1)..(Len(t) + 1) /\ sqlCommentSpan(t, p) \in p..(Len(t) + 1)
  BY QuoteRange, CommentRange
<1>. QED
  BY <1>1, <1>2 DEF Span

\* Pairs of characters that a stretch holds, and those that reach over its end.
LEMMA PairsAlike ==
    ASSUME NEW t, NEW a, NEW u, NEW b, NEW m, Stretch(t, a, u, b, m), NEW x, NEW y
    PROVE  /\ \A j \in 1..m : j < m => (Pair(u, j + b, x, y) <=> Pair(t, j + a, x, y))
           /\ EndsAlike(t, a, u, b, m) /\ y # ")" => ~Pair(u, m + b, x, y)
           /\ EndsInSpace(t, a, u, b, m) /\ y \notin Spaces =>
                 ~Pair(u, m + b, x, y) /\ ~Pair(t, m + a, x, y)
<1>1. /\ a \in Nat /\ b \in Nat /\ m \in Nat
      /\ a + m <= Len(t) /\ b + m <= Len(u) /\ Len(t) \in Nat /\ Len(u) \in Nat
      /\ \A j \in 1..m : u[j + b] = t[j + a]
  BY TextFacts DEF Stretch
<1>2. ASSUME NEW j \in 1..m, j < m PROVE Pair(u, j + b, x, y) <=> Pair(t, j + a, x, y)
  <2>1. PICK k \in 1..m : k = j + 1 /\ k + a = (j + a) + 1 /\ k + b = (j + b) + 1
    <3>1. j + 1 \in 1..m /\ (j + 1) + a = (j + a) + 1 /\ (j + 1) + b = (j + b) + 1
      BY <1>1, <1>2
    <3>. QED
      BY <3>1
  <2>2. u[j + b] = t[j + a] /\ u[(j + b) + 1] = t[(j + a) + 1]
    <3>1. u[k + b] = t[k + a] /\ u[j + b] = t[j + a]
      BY <1>1
    <3>. QED
      BY <2>1, <3>1
  <2>3. j + a < Len(t) /\ j + b < Len(u)
    BY <1>1, <1>2
  <2>. QED
    BY <2>2, <2>3 DEF Pair
<1>3. ASSUME EndsAlike(t, a, u, b, m), y # ")" PROVE ~Pair(u, m + b, x, y)
  BY <1>1, <1>3 DEF EndsAlike, Pair
<1>4. ASSUME EndsInSpace(t, a, u, b, m), y \notin Spaces
      PROVE  ~Pair(u, m + b, x, y) /\ ~Pair(t, m + a, x, y)
  BY <1>1, <1>4 DEF EndsInSpace, Pair
<1>. QED
  BY <1>2, <1>3, <1>4

\* A comment opens in u where it opens in t, unless it reaches over the end.
LEMMA OpensAlike ==
    ASSUME NEW t, NEW a, NEW u, NEW b, NEW m, Stretch(t, a, u, b, m), NEW i \in 1..m,
           \/ EndsAlike(t, a, u, b, m) /\ sqlCommentSpan(t, i + a) <= a + m + 1
           \/ EndsInSpace(t, a, u, b, m)
    PROVE  /\ LineOpens(u, i + b) <=> LineOpens(t, i + a)
           /\ BlockOpens(u, i + b) <=> BlockOpens(t, i + a)
<1>1. /\ t \in SQLTexts /\ a \in Nat /\ b \in Nat /\ m \in Nat
      /\ a + m <= Len(t) /\ Len(t) \in Nat /\ u[i + b] = t[i + a]
  BY TextFacts DEF Stretch
<1>2. CASE i < m
  <2>1. \A x, y : \A j \in 1..m : j < m => (Pair(u, j + b, x, y) <=> Pair(t, j + a, x, y))
    BY PairsAlike
  <2>2. /\ Pair(u, i + b, "-", "-") <=> Pair(t, i + a, "-", "-")
        /\ Pair(u, i + b, "/", "*") <=> Pair(t, i + a, "/", "*")
    BY <1>2, <2>1
  <2>. QED
    BY <1>1, <2>2 DEF LineOpens, BlockOpens
<1>3. CASE i = m /\ EndsInSpace(t, a, u, b, m)
  <2>1. "-" \notin Spaces /\ "*" \notin Spaces
    BY DEF Spaces
  <2>2. /\ ~Pair(u, i + b, "-", "-") /\ ~Pair(t, i + a, "-", "-")
        /\ ~Pair(u, i + b, "/", "*") /\ ~Pair(t, i + a, "/", "*")
    BY <1>3, <2>1, PairsAlike
  <2>. QED
    BY <1>1, <2>2 DEF LineOpens, BlockOpens
<1>4. CASE i = m /\ EndsAlike(t, a, u, b, m) /\ sqlCommentSpan(t, i + a) <= a + m + 1
  <2>1. ~Pair(u, i + b, "-", "-") /\ ~Pair(u, i + b, "/", "*")
    BY <1>4, PairsAlike
  <2>2. PICK p \in 1..Len(t), s \in Nat : p = i + a /\ p = a + m /\ s = sqlCommentSpan(t, p) /\ s <= p + 1
    <3>1. i + a \in 1..Len(t) /\ i + a = a + m
      BY <1>1, <1>4
    <3>2. sqlCommentSpan(t, i + a) \in Nat
      BY <1>1, <3>1, CommentRange
    <3>. QED
      BY <1>1, <1>4, <3>1, <3>2
  <2>3. ~Pair(t, p, "-", "-")
    <3>1. ASSUME Pair(t, p, "-", "-") PROVE FALSE
      <4>1. LineEnds(t, p, s) /\ p < Len(t) /\ t[p] = "-" /\ t[p + 1] = "-"
        BY <1>1, <2>2, <3>1, CommentShape DEF LineOpens, Pair
      <4>. QED
        BY <1>1, <2>2, <4>1 DEF LineEnds
    <3>. QED
      BY <3>1
  <2>4. ~Pair(t, p, "/", "*")
    <3>1. ASSUME Pair(t, p, "/", "*") PROVE FALSE
      <4>1. p < Len(t) /\ BlockOpens(t, p) /\ ~LineOpens(t, p)
        BY <2>3, <3>1 DEF LineOpens, BlockOpens, Pair
      <4>2. BlockEnds(t, p, s)
        BY <1>1, <2>2, <4>1, CommentShape
      <4>. QED
        BY <1>1, <2>2, <4>1, <4>2 DEF BlockEnds
    <3>. QED
      BY <3>1
  <2>. QED
    BY <1>1, <2>1, <2>2, <2>3, <2>4 DEF LineOpens, BlockOpens
<1>. QED
  BY <1>1, <1>2, <1>3, <1>4

\* A comment that begins in a stretch ends in u where it does in t, or with u.
LEMMA CommentAlike ==
    ASSUME NEW t, NEW a, NEW u, NEW b, NEW m, Stretch(t, a, u, b, m), NEW i \in 1..m
    PROVE  /\ EndsAlike(t, a, u, b, m) /\ sqlCommentSpan(t, i + a) <= a + m + 1 =>
                 sqlCommentSpan(u, i + b) + a = sqlCommentSpan(t, i + a) + b
           /\ EndsInSpace(t, a, u, b, m) /\ sqlCommentSpan(t, i + a) > a + m + 1 =>
                 sqlCommentSpan(u, i + b) = b + m + 1
<1>1. /\ t \in SQLTexts /\ u \in SQLTexts /\ a \in Nat /\ b \in Nat /\ m \in Nat
      /\ a + m <= Len(t) /\ b + m <= Len(u) /\ Len(t) \in Nat /\ Len(u) \in Nat
      /\ \A j \in 1..m : u[j + b] = t[j + a]
  BY TextFacts DEF Stretch
<1>2. PICK p \in 1..Len(t), r \in 1..Len(u), n \in Nat, l \in Nat :
        p = i + a /\ r = i + b /\ n = Len(t) /\ l = Len(u)
  <2>1. i + a \in 1..Len(t) /\ i + b \in 1..Len(u)
    BY <1>1
  <2>. QED
    BY <1>1, <2>1
<1>3. PICK s \in Nat : s = sqlCommentSpan(t, p) /\ p <= s
  <2>1. sqlCommentSpan(t, p) \in p..(Len(t) + 1)
    BY <1>1, CommentRange
  <2>. QED
    BY <1>1, <2>1
<1>4. \A j \in 1..m : j < m => (Pair(u, j + b, "*", "/") <=> Pair(t, j + a, "*", "/"))
  BY PairsAlike
<1>5. ASSUME EndsAlike(t, a, u, b, m), s <= a + m + 1
      PROVE  sqlCommentSpan(u, r) + a = s + b
  <2>1. (LineOpens(u, r) <=> LineOpens(t, p)) /\ (BlockOpens(u, r) <=> BlockOpens(t, p))
    BY <1>2, <1>3, <1>5, OpensAlike
  <2>2. CASE LineOpens(t, p)
    <3>1. LineEnds(t, p, s)
      BY <1>1, <1>3, <2>2, CommentShape
    <3>2. CASE s = n + 1 /\ \A j \in p..n : t[j] # "\n"
      <4>1. n = a + m /\ l = b + m
        BY <1>1, <1>2, <1>5, <3>2 DEF EndsAlike
      <4>2. ASSUME NEW x \in r..l PROVE u[x] # "\n"
        <5>1. PICK k \in 1..m : x = k + b /\ k + a \in p..n
          <6>1. x - b \in 1..m /\ x = (x - b) + b /\ (x - b) + a \in p..n
            BY <1>1, <1>2, <4>1
          <6>. QED
            BY <6>1
        <5>. QED
          BY <1>1, <3>2, <5>1
      <4>3. LineEnds(u, r, l + 1)
        BY <1>2, <4>2 DEF LineEnds
      <4>4. sqlCommentSpan(u, r) = l + 1
        BY <1>1, <2>1, <2>2, <4>3, CommentShape
      <4>. QED
        BY <1>1, <3>2, <4>1, <4>4
    <3>3. ASSUME NEW y \in p..n, s = y + 1, t[y] = "\n", \A j \in p..n : j < y => t[j] # "\n"
          PROVE  sqlCommentSpan(u, r) + a = s + b
      <4>1. PICK k \in 1..m : y = k + a /\ k + b \in r..l
        <5>1. y - a \in 1..m /\ y = (y - a) + a /\ (y - a) + b \in r..l
          BY <1>1, <1>2, <1>5, <3>3
        <5>. QED
          BY <5>1
      <4>2. u[k + b] = "\n"
        BY <1>1, <3>3, <4>1
      <4>3. ASSUME NEW x \in r..l, x < k + b PROVE u[x] # "\n"
        <5>1. PICK k2 \in 1..m : x = k2 + b /\ k2 + a \in p..n /\ k2 + a < y
          <6>1. x - b \in 1..m /\ x = (x - b) + b /\ (x - b) + a \in p..n /\ (x - b) + a < y
            BY <1>1, <1>2, <4>1, <4>3
          <6>. QED
            BY <6>1
        <5>. QED
          BY <1>1, <3>3, <5>1
      <4>4. PICK z \in r..l : z = k + b
        BY <4>1
      <4>5. LineEnds(u, r, z + 1)
        BY <1>2, <4>2, <4>3, <4>4 DEF LineEnds
      <4>6. sqlCommentSpan(u, r) = z + 1
        BY <1>1, <2>1, <2>2, <4>5, CommentShape
      <4>. QED
        BY <1>1, <3>3, <4>1, <4>4, <4>6
    <3>. QED
      BY <1>2, <3>1, <3>2, <3>3 DEF LineEnds
  <2>3. CASE ~LineOpens(t, p) /\ BlockOpens(t, p)
    <3>1. BlockEnds(t, p, s)
      BY <1>1, <1>3, <2>3, CommentShape
    <3>2. CASE s = n + 1 /\ \A j \in (p + 2)..n : ~Pair(t, j, "*", "/")
      <4>1. n = a + m /\ l = b + m
        BY <1>1, <1>2, <1>5, <3>2 DEF EndsAlike
      <4>2. ASSUME NEW x \in (r + 2)..l PROVE ~Pair(u, x, "*", "/")
        <5>1. PICK k \in 1..m : x = k + b /\ k + a \in (p + 2)..n
          <6>1. x - b \in 1..m /\ x = (x - b) + b /\ (x - b) + a \in (p + 2)..n
            BY <1>1, <1>2, <4>1
          <6>. QED
            BY <6>1
        <5>2. CASE k < m
          BY <1>4, <3>2, <5>1, <5>2
        <5>3. CASE k = m
          BY <1>1, <1>2, <4>1, <5>1, <5>3 DEF Pair
        <5>. QED
          BY <1>1, <5>2, <5>3
      <4>3. BlockEnds(u, r, l + 1)
        BY <1>2, <4>2 DEF BlockEnds
      <4>4. sqlCommentSpan(u, r) = l + 1
        BY <1>1, <2>1, <2>3, <4>3, CommentShape
      <4>. QED
        BY <1>1, <3>2, <4>1, <4>4
    <3>3. ASSUME NEW y \in (p + 2)..n, s = y + 2, Pair(t, y, "*", "/"),
                 \A j \in (p + 2)..n : j < y => ~Pair(t, j, "*", "/")
          PROVE  sqlCommentSpan(u, r) + a = s + b
      <4>1. PICK k \in 1..m : y = k + a /\ k + b \in (r + 2)..l /\ k < m
        <5>1. y - a \in 1..m /\ y = (y - a) + a /\ (y - a) + b \in (r + 2)..l /\ y - a < m
          BY <1>1, <1>2, <1>5, <3>3
        <5>. QED
          BY <5>1
      <4>2. Pair(u, k + b, "*", "/")
        BY <1>4, <3>3, <4>1
      <4>3. ASSUME NEW x \in (r + 2)..l, x < k + b PROVE ~Pair(u, x, "*", "/")
        <5>1. PICK k2 \in 1..m : x = k2 + b /\ k2 + a \in (p + 2)..n /\ k2 + a < y /\ k2 < m
          <6>1. /\ x - b \in 1..m /\ x = (x - b) + b /\ (x - b) + a \in (p + 2)..n
                /\ (x - b) + a < y /\ x - b < m
            BY <1>1, <1>2, <4>1, <4>3
          <6>. QED
            BY <6>1
        <5>. QED
          BY <1>4, <3>3, <5>1
      <4>4. PICK z \in (r + 2)..l : z = k + b
        BY <4>1
      <4>5. BlockEnds(u, r, z + 2)
        BY <1>2, <4>2, <4>3, <4>4 DEF BlockEnds
      <4>6. sqlCommentSpan(u, r) = z + 2
        BY <1>1, <2>1, <2>3, <4>5, CommentShape
      <4>. QED
        BY <1>1, <3>3, <4>1, <4>4, <4>6
    <3>. QED
      BY <1>2, <3>1, <3>2, <3>3 DEF BlockEnds
  <2>4. CASE ~LineOpens(t, p) /\ ~BlockOpens(t, p)
    <3>1. s = p /\ sqlCommentSpan(u, r) = r
      BY <1>1, <1>3, <2>1, <2>4, CommentShape
    <3>. QED
      BY <1>1, <1>2, <3>1
  <2>. QED
    BY <2>2, <2>3, <2>4
<1>6. ASSUME EndsInSpace(t, a, u, b, m), s > a + m + 1
      PROVE  sqlCommentSpan(u, r) = b + m + 1
  <2>1. (LineOpens(u, r) <=> LineOpens(t, p)) /\ (BlockOpens(u, r) <=> BlockOpens(t, p))
    BY <1>2, <1>6, OpensAlike
  <2>2. l = b + m /\ a + m < n /\ t[a + m + 1] \in Spaces
    BY <1>2, <1>6 DEF EndsInSpace
  <2>3. CASE LineOpens(t, p)
    <3>1. LineEnds(t, p, s)
      BY <1>1, <1>3, <2>3, CommentShape
    <3>2. ASSUME NEW k \in 1..m, k + a >= p PROVE t[k + a] # "\n"
      <4>1. PICK x \in p..n : x = k + a /\ x + 1 < s
        BY <1>1, <1>2, <1>6, <3>2
      <4>2. t[x] # "\n"
        BY <1>1, <1>2, <3>1, <4>1 DEF LineEnds
      <4>. QED
        BY <4>1, <4>2
    <3>3. ASSUME NEW x \in r..l PROVE u[x] # "\n"
      <4>1. PICK k \in 1..m : x = k + b /\ k + a >= p
        <5>1. x - b \in 1..m /\ x = (x - b) + b /\ (x - b) + a >= p
          BY <1>1, <1>2, <2>2
        <5>. QED
          BY <5>1
      <4>. QED
        BY <1>1, <3>2, <4>1
    <3>4. LineEnds(u, r, l + 1)
      BY <1>2, <3>3 DEF LineEnds
    <3>. QED
      BY <1>1, <2>1, <2>2, <2>3, <3>4, CommentShape
  <2>4. CASE ~LineOpens(t, p) /\ BlockOpens(t, p)
    <3>1. BlockEnds(t, p, s)
      BY <1>1, <1>3, <2>4, CommentShape
    <3>2. ASSUME NEW k \in 1..m, k + a >= p + 2, k < m PROVE ~Pair(t, k + a, "*", "/")
      <4>1. PICK x \in (p + 2)..n : x = k + a /\ x + 2 < s
        BY <1>1, <1>2, <1>6, <3>2
      <4>2. ~Pair(t, x, "*", "/")
        BY <1>1, <1>2, <3>1, <4>1 DEF BlockEnds
      <4>. QED
        BY <4>1, <4>2
    <3>3. ASSUME NEW x \in (r + 2)..l PROVE ~Pair(u, x, "*", "/")
      <4>1. PICK k \in 1..m : x = k + b /\ k + a >= p + 2
        <5>1. x - b \in 1..m /\ x = (x - b) + b /\ (x - b) + a >= p + 2
          BY <1>1, <1>2, <2>2
        <5>. QED
          BY <5>1
      <4>2. CASE k < m
        BY <1>4, <3>2, <4>1, <4>2
      <4>3. CASE k = m
        BY <1>1, <1>2, <2>2, <4>1, <4>3 DEF Pair
      <4>. QED
        BY <1>1, <4>2, <4>3
    <3>4. BlockEnds(u, r, l + 1)
      BY <1>2, <3>3 DEF BlockEnds
    <3>. QED
      BY <1>1, <2>1, <2>2, <2>4, <3>4, CommentShape
  <2>5. CASE ~LineOpens(t, p) /\ ~BlockOpens(t, p)
    <3>1. s = p
      BY <1>1, <1>3, <2>5, CommentShape
    <3>. QED
      BY <1>1, <1>2, <1>6, <3>1
  <2>. QED
    BY <2>3, <2>4, <2>5
<1>. QED
  BY <1>2, <1>3, <1>5, <1>6

\* What begins at i in a stretch ends in u where it ends in t, or with u.
SameSpan(t, a, u, b, m, i) ==
    /\ EndsAlike(t, a, u, b, m) /\ Span(t, i + a) <= a + m + 1 =>
          Span(u, i + b) + a = Span(t, i + a) + b
    /\ EndsInSpace(t, a, u, b, m) /\ Span(t, i + a) > a + m + 1 =>
          Span(u, i + b) = b + m + 1

\* So it is with what begins anywhere in the stretch.
LEMMA SpanAlike ==
    ASSUME NEW t, NEW a, NEW u, NEW b, NEW m, Stretch(t, a, u, b, m), NEW i \in 1..m
    PROVE  SameSpan(t, a, u, b, m, i)
<1>1. u[i + b] = t[i + a]
  BY DEF Stretch
<1>2. CASE t[i + a] \in Quotes
  <2>1. Span(t, i + a) = quotedSQLSpan(t, i + a) /\ Span(u, i + b) = quotedSQLSpan(u, i + b)
    BY <1>1, <1>2 DEF Span
  <2>. QED
    BY <1>2, <2>1, QuoteAlike DEF SameSpan
<1>3. CASE t[i + a] \notin Quotes
  <2>1. Span(t, i + a) = sqlCommentSpan(t, i + a) /\ Span(u, i + b) = sqlCommentSpan(u, i + b)
    BY <1>1, <1>3 DEF Span
  <2>. QED
    BY <2>1, CommentAlike DEF SameSpan
<1>. QED
  BY <1>2, <1>3

-----------------------------------------------------------------------------
(* Where a scan looks.                                                     *)

\* The position after i in a scan.
After(t, i) == IF Span(t, i) # i THEN Span(t, i) ELSE i + 1

\* A scan goes up.
LEMMA ScanWalk ==
    ASSUME NEW t \in SQLTexts
    PROVE  /\ Walk(Len(t), ScanSteps(t))
           /\ \A i \in 1..Len(t) : ScanSteps(t)[i] = After(t, i) /\ After(t, i) \in (i + 1)..(Len(t) + 1)
<1>1. Len(t) \in Nat
  BY TextFacts
<1>2. ASSUME NEW i \in 1..Len(t)
      PROVE  ScanSteps(t)[i] = After(t, i) /\ After(t, i) \in (i + 1)..(Len(t) + 1)
  <2>1. Span(t, i) \in i..(Len(t) + 1)
    BY SpanRange
  <2>. QED
    BY <1>1, <2>1 DEF ScanSteps, After
<1>3. ScanSteps(t) \in [1..Len(t) -> Nat]
  <2>1. \A i \in 1..Len(t) : After(t, i) \in Nat
    BY <1>1, <1>2
  <2>2. ScanSteps(t) = [i \in 1..Len(t) |-> After(t, i)]
    BY DEF ScanSteps, After
  <2>. QED
    BY <2>1, <2>2
<1>4. \A i \in 1..Len(t) : ScanSteps(t)[i] > i
  <2>. TAKE i \in 1..Len(t)
  <2>1. ScanSteps(t)[i] \in (i + 1)..(Len(t) + 1)
    BY <1>2
  <2>. QED
    BY <1>1, <2>1
<1>. QED
  BY <1>1, <1>2, <1>3, <1>4 DEF Walk

\* A scan looks at positions from p on, and at p.
LEMMA StopsRange ==
    ASSUME NEW t \in SQLTexts, NEW p \in 1..(Len(t) + 1)
    PROVE  /\ Stops(t, p) \subseteq p..Len(t)
           /\ p <= Len(t) => p \in Stops(t, p)
<1>1. Len(t) \in Nat
  BY TextFacts
<1>2. PICK n \in Nat, next \in {ScanSteps(t)} : n = Len(t)
  BY <1>1
<1>3. Walk(n, next)
  BY <1>2, ScanWalk
<1>4. Stops(t, p) = Visited(next)[p]
  BY <1>2 DEF Stops
<1>5. Visited(next)[p] \subseteq {j \in 1..n : j >= p}
  BY <1>1, <1>3, VisitedRange
<1>6. ASSUME p <= Len(t) PROVE p \in Stops(t, p)
  <2>1. p \in 1..n
    BY <1>1, <1>2, <1>6
  <2>. QED
    BY <1>3, <1>4, <2>1, VisitedMore
<1>. QED
  BY <1>1, <1>2, <1>4, <1>5, <1>6

\* A scan looks at i and, from the position after it, at the rest.
LEMMA StopsAfter ==
    ASSUME NEW t \in SQLTexts, NEW i \in 1..Len(t)
    PROVE  Stops(t, i) = {i} \cup Stops(t, After(t, i))
<1>1. PICK n, next : n = Len(t) /\ next = ScanSteps(t) /\ next[i] = After(t, i)
  BY ScanWalk
<1>2. Walk(n, next) /\ i \in 1..n
  BY <1>1, ScanWalk
<1>3. Visited(next)[i] = {i} \cup Visited(next)[next[i]]
  BY <1>2, VisitedMore
<1>. QED
  BY <1>1, <1>3 DEF Stops

\* From a position that it looks at a scan goes on as one that starts there.
LEMMA StopsRest ==
    ASSUME NEW t \in SQLTexts, NEW p \in 1..(Len(t) + 1), NEW i \in Stops(t, p)
    PROVE  Stops(t, i) = {k \in Stops(t, p) : k >= i}
<1>1. Len(t) \in Nat
  BY TextFacts
<1>2. PICK n \in Nat, next \in {ScanSteps(t)} : n = Len(t)
  BY <1>1
<1>3. Walk(n, next)
  BY <1>2, ScanWalk
<1>4. \A k : Stops(t, k) = Visited(next)[k]
  BY <1>2 DEF Stops
<1>5. p \in Nat /\ i \in Visited(next)[p]
  BY <1>1, <1>4
<1>6. Visited(next)[i] = {k \in Visited(next)[p] : k >= i}
  BY <1>3, <1>5, VisitedRest
<1>. QED
  BY <1>4, <1>6

\* A scan from p comes to position i, or i is the end of the text.
Reaches(t, p, i) == i \in Stops(t, p) \/ i = Len(t) + 1

\* From a position that it comes to a scan goes on as one that starts there.
LEMMA ReachesRest ==
    ASSUME NEW t \in SQLTexts, NEW p \in 1..(Len(t) + 1), NEW i, Reaches(t, p, i)
    PROVE  /\ i \in p..(Len(t) + 1)
           /\ Stops(t, i) = {k \in Stops(t, p) : k >= i}
           /\ Code(t, i) = {k \in Code(t, p) : k >= i}
           /\ \A k : k >= i => (Reaches(t, i, k) <=> Reaches(t, p, k))
<1>1. Len(t) \in Nat /\ Stops(t, p) \subseteq p..Len(t)
  BY TextFacts, StopsRange
<1>2. i \in p..(Len(t) + 1)
  BY <1>1 DEF Reaches
<1>3. Stops(t, i) = {k \in Stops(t, p) : k >= i}
  <2>1. CASE i \in Stops(t, p)
    BY <2>1, StopsRest
  <2>2. CASE i = Len(t) + 1
    <3>1. i \in 1..(Len(t) + 1)
      BY <1>1, <2>2
    <3>2. Stops(t, i) \subseteq i..Len(t)
      BY <3>1, StopsRange
    <3>. QED
      BY <1>1, <2>2, <3>2
  <2>. QED
    BY <2>1, <2>2 DEF Reaches
<1>4. Code(t, i) = {k \in Code(t, p) : k >= i}
  BY <1>3 DEF Code
<1>. QED
  BY <1>2, <1>3, <1>4 DEF Reaches

\* A scan comes to the position after one it looks at, and to none between.
LEMMA ReachesAfter ==
    ASSUME NEW t \in SQLTexts, NEW p \in 1..(Len(t) + 1), NEW i \in Stops(t, p)
    PROVE  /\ Reaches(t, p, After(t, i))
           /\ \A k : Reaches(t, p, k) => k <= i \/ k >= After(t, i)
<1>1. Len(t) \in Nat /\ i \in p..Len(t)
  BY TextFacts, StopsRange
<1>2. i \in 1..Len(t)
  BY <1>1
<1>3. Stops(t, i) = {i} \cup Stops(t, After(t, i)) /\ After(t, i) \in (i + 1)..(Len(t) + 1)
  BY <1>2, StopsAfter, ScanWalk
<1>4. Stops(t, i) = {k \in Stops(t, p) : k >= i} /\ Stops(t, p) \subseteq p..Len(t)
  BY StopsRest, StopsRange
<1>5. PICK x \in 1..(Len(t) + 1) : x = After(t, i) /\ x > i
  BY <1>1, <1>3
<1>6. Stops(t, x) \subseteq x..Len(t) /\ (x <= Len(t) => x \in Stops(t, x))
  BY StopsRange
<1>7. Reaches(t, p, x)
  BY <1>1, <1>3, <1>4, <1>5, <1>6 DEF Reaches
<1>8. ASSUME NEW k, Reaches(t, p, k) PROVE k <= i \/ k >= x
  <2>1. CASE k = Len(t) + 1
    BY <1>1, <2>1
  <2>2. CASE k \in Stops(t, p)
    <3>1. k \in Nat
      BY <1>1, <1>4, <2>2
    <3>2. CASE k > i
      <4>1. k \in Stops(t, x)
        BY <1>1, <1>3, <1>4, <1>5, <2>2, <3>1, <3>2
      <4>. QED
        BY <1>1, <1>6, <4>1
    <3>. QED
      BY <1>1, <3>1, <3>2
  <2>. QED
    BY <1>8, <2>1, <2>2 DEF Reaches
<1>. QED
  BY <1>5, <1>7, <1>8

\* Code is passed over one by one.
LEMMA ReachesCode ==
    ASSUME NEW t \in SQLTexts, NEW p \in 1..(Len(t) + 1), NEW i \in Code(t, p)
    PROVE  Reaches(t, p, i + 1)
<1>1. i \in Stops(t, p) /\ After(t, i) = i + 1
  BY DEF Code, After
<1>2. Reaches(t, p, After(t, i))
  BY <1>1, ReachesAfter
<1>. QED
  BY <1>1, <1>2

\* The same m characters in t and in u, at which a scan of t from p arrives.
\* Then u ends where that scan comes by or finds white space, or it goes on with
\* a parenthesis where the scan comes by.
EndsHere(t, p, a, u, b, m) ==
    Len(u) = b + m /\ (Reaches(t, p, a + m + 1) \/ EndsInSpace(t, a, u, b, m))
ClosesHere(t, p, a, u, b, m) ==
    a + m + 1 \in Stops(t, p) /\ b + m < Len(u) /\ u[b + m + 1] = ")"
Passage(t, p, a, u, b, m) ==
    /\ Stretch(t, a, u, b, m) /\ p \in 1..(a + 1) /\ Reaches(t, p, a + 1)
    /\ EndsHere(t, p, a, u, b, m) \/ ClosesHere(t, p, a, u, b, m)

\* A scan of u sees there what the scan of t sees.
SeenAlike(t, p, a, u, b, m) ==
    \A i \in 1..m :
        /\ i + b \in Stops(u, b + 1) <=> i + a \in Stops(t, p)
        /\ i + b \in Code(u, b + 1) <=> i + a \in Code(t, p)
        /\ i + a \in Stops(t, p) => Span(u, i + b) + a <= Span(t, i + a) + b

\* A passage is a stretch, and the scan comes to it.
LEMMA PassageFacts ==
    ASSUME NEW t, NEW p, NEW a, NEW u, NEW b, NEW m, Passage(t, p, a, u, b, m)
    PROVE  /\ t \in SQLTexts /\ u \in SQLTexts /\ a \in Nat /\ b \in Nat /\ m \in Nat
           /\ a + m <= Len(t) /\ b + m <= Len(u) /\ Len(t) \in Nat /\ Len(u) \in Nat
           /\ \A j \in 1..m : u[j + b] = t[j + a]
           /\ p \in 1..(Len(t) + 1) /\ p <= a + 1
           /\ Stretch(t, a, u, b, m) /\ Reaches(t, p, a + 1)
<1>1. /\ t \in SQLTexts /\ u \in SQLTexts /\ a \in Nat /\ b \in Nat /\ m \in Nat
      /\ a + m <= Len(t) /\ b + m <= Len(u) /\ \A j \in 1..m : u[j + b] = t[j + a]
      /\ Stretch(t, a, u, b, m) /\ Reaches(t, p, a + 1) /\ p \in 1..(a + 1)
  BY DEF Passage, Stretch
<1>2. Len(t) \in Nat /\ Len(u) \in Nat
  BY <1>1, TextFacts
<1>. QED
  BY <1>1, <1>2

\* In a passage the scan of u steps as that of t does.
LEMMA AfterAlike ==
    ASSUME NEW t, NEW p, NEW a, NEW u, NEW b, NEW m, Passage(t, p, a, u, b, m),
           NEW i \in 1..m, i + a \in Stops(t, p)
    PROVE  /\ \/ After(u, i + b) + a = After(t, i + a) + b
              \/ After(u, i + b) > m + b /\ After(t, i + a) > m + a
           /\ Span(u, i + b) = i + b <=> Span(t, i + a) = i + a
           /\ Span(u, i + b) + a <= Span(t, i + a) + b
<1>1. /\ t \in SQLTexts /\ u \in SQLTexts /\ a \in Nat /\ b \in Nat /\ m \in Nat
      /\ a + m <= Len(t) /\ b + m <= Len(u) /\ Len(t) \in Nat /\ Len(u) \in Nat
      /\ p \in 1..(Len(t) + 1) /\ Stretch(t, a, u, b, m)
  BY PassageFacts
<1>2. PICK x \in 1..Len(t), y \in 1..Len(u) : x = i + a /\ y = i + b
  <2>1. i + a \in 1..Len(t) /\ i + b \in 1..Len(u)
    BY <1>1
  <2>. QED
    BY <2>1
<1>3. PICK s \in Nat, r \in Nat : s = Span(t, x) /\ r = Span(u, y) /\ s >= x /\ r >= y
  <2>1. Span(t, x) \in x..(Len(t) + 1) /\ Span(u, y) \in y..(Len(u) + 1)
    BY <1>1, SpanRange
  <2>. QED
    BY <1>1, <2>1
<1>4. /\ EndsAlike(t, a, u, b, m) /\ s <= a + m + 1 => r + a = s + b
      /\ EndsInSpace(t, a, u, b, m) /\ s > a + m + 1 => r = b + m + 1
  <2>1. /\ EndsAlike(t, a, u, b, m) /\ Span(t, i + a) <= a + m + 1 =>
              Span(u, i + b) + a = Span(t, i + a) + b
        /\ EndsInSpace(t, a, u, b, m) /\ Span(t, i + a) > a + m + 1 =>
              Span(u, i + b) = b + m + 1
    <3>1. SameSpan(t, a, u, b, m, i)
      BY <1>1, SpanAlike
    <3>. QED
      BY <3>1 DEF SameSpan
  <2>. QED
    BY <1>2, <1>3, <2>1
<1>5. ASSUME Reaches(t, p, a + m + 1) PROVE s <= a + m + 1
  <2>1. a + m + 1 <= x \/ a + m + 1 >= After(t, x)
    BY <1>1, <1>2, <1>5, ReachesAfter
  <2>. QED
    BY <1>1, <1>2, <1>3, <2>1 DEF After
<1>6. r + a = s + b \/ (r = b + m + 1 /\ s > a + m + 1)
  <2>1. CASE ClosesHere(t, p, a, u, b, m)
    <3>1. a + m < Len(t)
      <4>1. Stops(t, p) \subseteq p..Len(t) /\ a + m + 1 \in Stops(t, p)
        BY <1>1, <2>1, StopsRange DEF ClosesHere
      <4>. QED
        BY <1>1, <4>1
    <3>2. EndsAlike(t, a, u, b, m)
      BY <2>1, <3>1 DEF ClosesHere, EndsAlike
    <3>3. Reaches(t, p, a + m + 1)
      BY <2>1 DEF ClosesHere, Reaches
    <3>. QED
      BY <1>4, <1>5, <3>2, <3>3
  <2>2. CASE EndsHere(t, p, a, u, b, m)
    <3>1. EndsAlike(t, a, u, b, m)
      BY <2>2 DEF EndsHere, EndsAlike
    <3>2. CASE Reaches(t, p, a + m + 1)
      BY <1>4, <1>5, <3>1, <3>2
    <3>3. CASE EndsInSpace(t, a, u, b, m)
      BY <1>1, <1>4, <3>1, <3>3
    <3>. QED
      BY <2>2, <3>2, <3>3 DEF EndsHere
  <2>. QED
    BY <2>1, <2>2 DEF Passage
<1>7. After(t, x) = (IF s # x THEN s ELSE x + 1) /\ After(u, y) = (IF r # y THEN r ELSE y + 1)
  BY <1>3 DEF After
<1>8. PICK h \in Nat, g \in Nat : /\ h = After(t, x) /\ g = After(u, y)
                                  /\ h = (IF s # x THEN s ELSE x + 1) /\ g = (IF r # y THEN r ELSE y + 1)
  <2>1. After(t, x) \in Nat /\ After(u, y) \in Nat
    BY <1>7
  <2>. QED
    BY <1>7, <2>1
<1>9. y + a = x + b /\ x <= a + m /\ y <= b + m /\ x \in Nat /\ y \in Nat
  BY <1>1, <1>2
<1>10. CASE r + a = s + b
  <2>1. r = y <=> s = x
    BY <1>1, <1>9, <1>10
  <2>2. g + a = h + b
    <3>1. CASE s = x
      <4>1. g = y + 1 /\ h = x + 1
        BY <1>8, <2>1, <3>1
      <4>. QED
        BY <1>1, <1>9, <4>1
    <3>2. CASE s # x
      <4>1. g = r /\ h = s
        BY <1>8, <2>1, <3>2
      <4>. QED
        BY <1>10, <4>1
    <3>. QED
      BY <3>1, <3>2
  <2>3. r + a <= s + b
    BY <1>1, <1>10
  <2>. QED
    BY <1>2, <1>3, <1>8, <2>1, <2>2, <2>3
<1>11. CASE r = b + m + 1 /\ s > a + m + 1
  <2>1. r # y /\ s # x /\ r + a <= s + b
    BY <1>1, <1>9, <1>11
  <2>2. g = r /\ h = s
    BY <1>8, <2>1
  <2>3. g > m + b /\ h > m + a
    BY <1>1, <1>11, <2>2
  <2>. QED
    BY <1>2, <1>3, <1>8, <2>1, <2>3
<1>. QED
  BY <1>6, <1>10, <1>11

\* In a passage the scan of u sees what the scan of t sees.
LEMMA PassageAlike ==
    ASSUME NEW t, NEW p, NEW a, NEW u, NEW b, NEW m, Passage(t, p, a, u, b, m)
    PROVE  /\ SeenAlike(t, p, a, u, b, m)
           /\ ClosesHere(t, p, a, u, b, m) => b + m + 1 \in Stops(u, b + 1)
<1>1. /\ t \in SQLTexts /\ u \in SQLTexts /\ a \in Nat /\ b \in Nat /\ m \in Nat
      /\ a + m <= Len(t) /\ b + m <= Len(u) /\ Len(t) \in Nat /\ Len(u) \in Nat
      /\ p \in 1..(Len(t) + 1) /\ Reaches(t, p, a + 1)
  BY PassageFacts
<1>2. /\ Stops(t, a + 1) = {k \in Stops(t, p) : k >= a + 1}
      /\ Stops(t, p) \subseteq p..Len(t)
  BY <1>1, ReachesRest, StopsRange
<1>3. PICK n \in Nat, n2 \in Nat, next \in {ScanSteps(t)}, next2 \in {ScanSteps(u)} :
        n = Len(t) /\ n2 = Len(u)
  BY <1>1
<1>4. Walk(n, next) /\ Walk(n2, next2)
  BY <1>1, <1>3, ScanWalk
<1>5. /\ Visited(next)[1 + a] = {k \in Stops(t, p) : k >= a + 1}
      /\ Visited(next2)[1 + b] = Stops(u, b + 1)
  <2>1. PICK x, y : x = a + 1 /\ x = 1 + a /\ y = b + 1 /\ y = 1 + b
    BY <1>1
  <2>. QED
    BY <1>2, <1>3, <2>1 DEF Stops
<1>6. ASSUME NEW i \in 1..m, i + a \in Visited(next)[1 + a]
      PROVE  next2[i + b] + a = next[i + a] + b \/ (next2[i + b] > m + b /\ next[i + a] > m + a)
  <2>1. i + a \in Stops(t, p)
    BY <1>5, <1>6
  <2>2. \/ After(u, i + b) + a = After(t, i + a) + b
        \/ After(u, i + b) > m + b /\ After(t, i + a) > m + a
    BY <2>1, AfterAlike
  <2>3. next[i + a] = After(t, i + a) /\ next2[i + b] = After(u, i + b)
    <3>1. i + a \in 1..Len(t) /\ i + b \in 1..Len(u)
      BY <1>1
    <3>. QED
      BY <1>1, <1>3, <3>1, ScanWalk
  <2>. QED
    BY <2>2, <2>3
<1>7. \A i \in 1..m : i + b \in Stops(u, b + 1) <=> i + a \in Stops(t, p)
  <2>1. SameSteps(next, a, next2, b, m, 1)
    BY <1>6 DEF SameSteps
  <2>2. a + m <= n /\ b + m <= n2 /\ 1 \in 1..(m + 1)
    BY <1>1, <1>3
  <2>3. SameVisits(next, a, next2, b, m, 1)
    BY <1>1, <1>4, <2>1, <2>2, VisitedAlike
  <2>4. \A i \in 1..m : i + b \in Visited(next2)[1 + b] <=> i + a \in Visited(next)[1 + a]
    BY <2>3 DEF SameVisits
  <2>5. \A i \in 1..m : i + a >= a + 1
    BY <1>1
  <2>. QED
    BY <1>5, <2>4, <2>5
<1>8. ASSUME NEW i \in 1..m PROVE i + b \in Code(u, b + 1) <=> i + a \in Code(t, p)
  <2>1. i + a \in Stops(t, p) => (Span(u, i + b) = i + b <=> Span(t, i + a) = i + a)
    BY AfterAlike
  <2>. QED
    BY <1>7, <2>1 DEF Code
<1>9. \A i \in 1..m : i + a \in Stops(t, p) => Span(u, i + b) + a <= Span(t, i + a) + b
  BY AfterAlike
<1>10. ASSUME ClosesHere(t, p, a, u, b, m) PROVE b + m + 1 \in Stops(u, b + 1)
  <2>1. a + m + 1 \in Stops(t, p) /\ b + m + 1 <= n2 /\ a + m + 1 <= n
    BY <1>1, <1>2, <1>3, <1>10 DEF ClosesHere
  <2>2. PICK l \in Nat : l = m + 1 /\ l + a = a + m + 1 /\ l + b = b + m + 1 /\ a + l <= n /\ b + l <= n2
    BY <1>1, <2>1
  <2>3. ASSUME NEW i \in 1..l, i + a \in Visited(next)[1 + a]
        PROVE  next2[i + b] + a = next[i + a] + b \/ (next2[i + b] > l + b /\ next[i + a] > l + a)
    <3>1. CASE i = l
      <4>1. i + b \in 1..n2 /\ i + a \in 1..n
        BY <1>1, <1>3, <2>1, <2>2, <3>1
      <4>2. next2[i + b] > i + b /\ next[i + a] > i + a
        BY <1>4, <4>1 DEF Walk
      <4>. QED
        BY <3>1, <4>2
    <3>2. CASE i # l
      <4>1. i \in 1..m
        BY <1>1, <2>2, <3>2
      <4>2. next2[i + b] + a = next[i + a] + b \/ (next2[i + b] > m + b /\ next[i + a] > m + a)
        BY <1>6, <2>3, <4>1
      <4>3. i + a \in Stops(t, p)
        BY <1>5, <2>3
      <4>4. next[i + a] = After(t, i + a) /\ next2[i + b] = After(u, i + b)
        <5>1. i + a \in 1..Len(t) /\ i + b \in 1..Len(u)
          BY <1>1, <4>1
        <5>. QED
          BY <1>1, <1>3, <5>1, ScanWalk
      <4>5. After(t, i + a) <= a + m + 1
        <5>1. Reaches(t, p, a + m + 1)
          BY <2>1 DEF Reaches
        <5>2. a + m + 1 <= i + a \/ a + m + 1 >= After(t, i + a)
          BY <1>1, <4>3, <5>1, ReachesAfter
        <5>. QED
          BY <1>1, <4>1, <5>2
      <4>6. After(t, i + a) \in Nat /\ After(u, i + b) \in Nat
        <5>1. i + a \in 1..Len(t) /\ i + b \in 1..Len(u)
          BY <1>1, <4>1
        <5>2. After(t, i + a) \in (i + a + 1)..(Len(t) + 1) /\ After(u, i + b) \in (i + b + 1)..(Len(u) + 1)
          BY <1>1, <5>1, ScanWalk
        <5>. QED
          BY <1>1, <5>2
      <4>7. PICK x \in Nat, y \in Nat : x = After(t, i + a) /\ y = After(u, i + b)
        BY <4>6
      <4>8. y + a = x + b \/ (y > m + b /\ x > m + a /\ x <= a + m + 1)
        BY <4>2, <4>4, <4>5, <4>7
      <4>9. ASSUME y > m + b, x = a + m + 1 PROVE y + a = x + b
        <5>1. PICK v \in 1..Len(u), w \in 1..Len(t) : v = i + b /\ w = i + a /\ v + a = w + b
          <6>1. i + b \in 1..Len(u) /\ i + a \in 1..Len(t) /\ (i + b) + a = (i + a) + b
            BY <1>1, <4>1
          <6>. QED
            BY <6>1
        <5>2. PICK r \in Nat, s \in Nat : r = Span(u, v) /\ s = Span(t, w)
          <6>1. Span(u, v) \in v..(Len(u) + 1) /\ Span(t, w) \in w..(Len(t) + 1)
            BY <1>1, SpanRange
          <6>2. Span(u, v) \in Nat /\ Span(t, w) \in Nat
            BY <6>1
          <6>. QED
            BY <6>2
        <5>3. r + a <= s + b /\ (r = v <=> s = w)
          BY <4>1, <4>3, <5>1, <5>2, AfterAlike
        <5>4. y = (IF r # v THEN r ELSE v + 1) /\ x = (IF s # w THEN s ELSE w + 1)
          BY <4>7, <5>1, <5>2 DEF After
        <5>5. CASE s = w
          <6>1. y = v + 1 /\ x = w + 1
            BY <5>3, <5>4, <5>5
          <6>. QED
            BY <1>1, <5>1, <6>1
        <5>6. CASE s # w
          <6>1. y = r /\ x = s
            BY <5>3, <5>4, <5>6
          <6>2. y + a <= x + b
            BY <5>3, <6>1
          <6>3. y + a >= x + b
            BY <1>1, <4>9
          <6>. QED
            BY <1>1, <6>2, <6>3
        <5>. QED
          BY <5>5, <5>6
      <4>10. y + a = x + b
        <5>1. CASE y + a = x + b
          BY <5>1
        <5>2. CASE y > m + b /\ x > m + a /\ x <= a + m + 1
          <6>1. x = a + m + 1
            BY <1>1, <5>2
          <6>. QED
            BY <4>9, <5>2, <6>1
        <5>. QED
          BY <4>8, <5>1, <5>2
      <4>. QED
        BY <4>4, <4>7, <4>10
    <3>. QED
      BY <3>1, <3>2
  <2>4. SameSteps(next, a, next2, b, l, 1) /\ 1 \in 1..(l + 1)
    BY <2>2, <2>3 DEF SameSteps
  <2>5. SameVisits(next, a, next2, b, l, 1)
    BY <1>1, <1>4, <2>2, <2>4, VisitedAlike
  <2>6. l + a \in Visited(next)[1 + a] /\ l \in 1..l
    <3>1. l \in 1..l /\ l + a >= a + 1
      BY <1>1, <2>2
    <3>2. l + a \in Stops(t, p)
      BY <2>1, <2>2
    <3>. QED
      BY <1>5, <3>1, <3>2
  <2>7. l + b \in Visited(next2)[1 + b]
    BY <2>5, <2>6 DEF SameVisits
  <2>. QED
    BY <1>5, <2>2, <2>7
<1>. QED
  BY <1>7, <1>8, <1>9, <1>10 DEF SeenAlike

\* What is neither a quote nor the beginning of a comment is code.
LEMMA PlainSpan ==
    ASSUME NEW t \in SQLTexts, NEW i \in 1..Len(t), t[i] \notin Quotes \cup {"-", "#", "/"}
    PROVE  Span(t, i) = i
<1>1. ~LineOpens(t, i) /\ ~BlockOpens(t, i)
  BY DEF LineOpens, BlockOpens, Pair
<1>. QED
  BY <1>1, CommentShape DEF Span

-----------------------------------------------------------------------------
(* Depth.                                                                  *)

\* The depth after position i of a text with this code, from the depth before.
DepthAfter(t, code, i, d) ==
    IF i \notin code THEN d
    ELSE IF t[i] = "(" THEN d + 1
    ELSE IF t[i] = ")" /\ d > 0 THEN d - 1
    ELSE d

\* The depth is what its recursive definition says.
LEMMA NestingDef ==
    ASSUME NEW t \in SQLTexts, NEW p
    PROVE  /\ Nesting(t, p) \in [0..Len(t) -> Nat]
           /\ Nesting(t, p)[0] = 0
           /\ \A i \in 1..Len(t) :
                 Nesting(t, p)[i] = DepthAfter(t, Code(t, p), i, Nesting(t, p)[i - 1])
<1>1. PICK n \in Nat : n = Len(t)
  BY TextFacts
<1>2. PICK code : code = Code(t, p)
  OBVIOUS
<1>. DEFINE G == [x \in (1..n) \X Nat |-> DepthAfter(t, code, x[1], x[2])]
<1>3. \A i \in 1..n, d \in Nat : DepthAfter(t, code, i, d) \in Nat
  BY DEF DepthAfter
<1>4. G \in [(1..n) \X Nat -> Nat]
  BY <1>3
<1>5. \A i \in 1..n, d \in Nat : G[<<i, d>>] = DepthAfter(t, code, i, d)
  OBVIOUS
<1>6. PICK f \in [0..n -> Nat] : f = [i \in 0..n |-> IF i = 0 THEN 0 ELSE G[<<i, f[i - 1]>>]]
  <2>. HIDE DEF G
  <2>1. 0 \in Nat
    OBVIOUS
  <2>2. PICK V, basis : V = Nat /\ basis = 0
    OBVIOUS
  <2>3. G \in [(1..n) \X V -> V] /\ basis \in V
    BY <1>4, <2>1, <2>2
  <2>4. \E f \in [0..n -> V] : IsForward(f, n, basis, G)
    BY <2>3, ForwardExists
  <2>. QED
    BY <2>2, <2>4 DEF IsForward
<1>. HIDE DEF G
<1>7. ASSUME NEW i \in 0..n, i # 0 PROVE G[<<i, f[i - 1]>>] = DepthAfter(t, code, i, f[i - 1])
  <2>1. i \in 1..n /\ f[i - 1] \in Nat
    BY <1>7
  <2>. QED
    BY <1>5, <2>1
<1>8. f = [i \in 0..n |-> IF i = 0 THEN 0 ELSE DepthAfter(t, code, i, f[i - 1])]
  BY <1>6, <1>7
<1>. DEFINE F(g) == [i \in 0..Len(t) |->
            IF i = 0 THEN 0
            ELSE IF i \notin code THEN g[i - 1]
            ELSE IF t[i] = "(" THEN g[i - 1] + 1
            ELSE IF t[i] = ")" /\ g[i - 1] > 0 THEN g[i - 1] - 1
            ELSE g[i - 1]]
<1>9. f = F(f)
  BY <1>1, <1>8 DEF DepthAfter
<1>10. Nesting(t, p) = CHOOSE g : g = F(g)
  BY <1>2 DEF Nesting
<1>11. PICK N : N = Nesting(t, p) /\ N = F(N)
  <2>1. \E g : g = F(g)
    BY <1>9
  <2>. HIDE DEF F
  <2>. QED
    BY <1>10, <2>1
<1>12. \A i \in 0..n : N[i] = IF i = 0 THEN 0 ELSE DepthAfter(t, code, i, N[i - 1])
  BY <1>1, <1>11 DEF DepthAfter
<1>13. DOMAIN N = 0..n /\ N = [i \in 0..n |-> N[i]]
  BY <1>1, <1>11
<1>14. \A i \in 0..n : N[i] \in Nat
  <2>. DEFINE T == {i \in Nat : i <= n => N[i] \in Nat}
  <2>1. ASSUME NEW i \in Nat, \A j \in Nat : j < i => j \in T PROVE i \in T
    <3>1. CASE i = 0
      BY <1>12, <3>1
    <3>2. ASSUME i # 0, i <= n PROVE N[i] \in Nat
      <4>1. i - 1 \in Nat /\ i - 1 < i /\ i - 1 <= n /\ i \in 1..n /\ i \in 0..n
        BY <3>2
      <4>2. N[i - 1] \in Nat
        BY <2>1, <4>1
      <4>3. N[i] = DepthAfter(t, code, i, N[i - 1])
        BY <1>12, <3>2, <4>1
      <4>. QED
        BY <1>3, <4>1, <4>2, <4>3
    <3>. QED
      BY <3>1, <3>2
  <2>2. \A i \in Nat : i \in T
    <3>. HIDE DEF T
    <3>. QED
      BY <2>1, Upward
  <2>. QED
    BY <2>2
<1>15. N \in [0..n -> Nat]
  BY <1>13, <1>14
<1>16. N[0] = 0 /\ \A i \in 1..n : N[i] = DepthAfter(t, code, i, N[i - 1])
  BY <1>12
<1>. QED
  BY <1>1, <1>2, <1>11, <1>15, <1>16

\* Over a stretch of m positions after a and after b, alike to both scans, the
\* depth in t is d more than that in u, if it is so before and nothing closes
\* in t what was open d deep.
CodeAlike(t, p, a, u, q, b, m) ==
    /\ t \in SQLTexts /\ u \in SQLTexts /\ a \in Nat /\ b \in Nat /\ m \in Nat
    /\ a + m <= Len(t) /\ b + m <= Len(u)
    /\ \A i \in 1..m : u[i + b] = t[i + a] /\ (i + b \in Code(u, q) <=> i + a \in Code(t, p))

DeeperBy(t, p, a, u, q, b, m, d) ==
    \A i \in 0..m : Nesting(t, p)[i + a] = Nesting(u, q)[i + b] + d

\* It is, if it was before the first of them and never got less than d.
LEMMA NestingAlike ==
    ASSUME NEW t, NEW p, NEW a, NEW u, NEW q, NEW b, NEW m, CodeAlike(t, p, a, u, q, b, m),
           NEW d \in Nat, Nesting(t, p)[a] = Nesting(u, q)[b] + d,
           \A i \in 0..m : Nesting(t, p)[i + a] >= d
    PROVE  DeeperBy(t, p, a, u, q, b, m, d)
<1>1. PICK N, M : N = Nesting(t, p) /\ M = Nesting(u, q)
  OBVIOUS
<1>2. /\ t \in SQLTexts /\ u \in SQLTexts /\ a \in Nat /\ b \in Nat /\ m \in Nat
      /\ a + m <= Len(t) /\ b + m <= Len(u) /\ Len(t) \in Nat /\ Len(u) \in Nat
      /\ \A i \in 1..m : u[i + b] = t[i + a] /\ (i + b \in Code(u, q) <=> i + a \in Code(t, p))
  BY TextFacts DEF CodeAlike
<1>3. /\ N \in [0..Len(t) -> Nat] /\ M \in [0..Len(u) -> Nat]
      /\ \A i \in 1..Len(t) : N[i] = DepthAfter(t, Code(t, p), i, N[i - 1])
      /\ \A i \in 1..Len(u) : M[i] = DepthAfter(u, Code(u, q), i, M[i - 1])
  BY <1>1, <1>2, NestingDef
<1>. DEFINE T == {i \in Nat : i <= m => N[i + a] = M[i + b] + d}
<1>4. ASSUME NEW i \in Nat, \A j \in Nat : j < i => j \in T PROVE i \in T
  <2>1. CASE i = 0
    <3>1. i + a = a /\ i + b = b
      BY <1>2, <2>1
    <3>. QED
      BY <1>1, <3>1
  <2>2. ASSUME i # 0, i <= m PROVE N[i + a] = M[i + b] + d
    <3>1. i - 1 \in Nat /\ i - 1 < i /\ i - 1 <= m /\ i \in 1..m /\ i \in 0..m
      BY <1>2, <2>2
    <3>2. PICK x \in 1..Len(t), y \in 1..Len(u) :
            x = i + a /\ y = i + b /\ x - 1 = (i - 1) + a /\ y - 1 = (i - 1) + b
      <4>1. /\ i + a \in 1..Len(t) /\ i + b \in 1..Len(u)
            /\ (i + a) - 1 = (i - 1) + a /\ (i + b) - 1 = (i - 1) + b
        BY <1>2, <3>1
      <4>. QED
        BY <4>1
    <3>3. N[x - 1] = M[y - 1] + d
      <4>1. N[(i - 1) + a] = M[(i - 1) + b] + d
        BY <1>4, <3>1
      <4>. QED
        BY <3>2, <4>1
    <3>4. u[y] = t[x] /\ (y \in Code(u, q) <=> x \in Code(t, p)) /\ N[x] >= d
      BY <1>1, <1>2, <3>1, <3>2
    <3>5. PICK e \in Nat, f \in Nat, g \in Nat, h \in Nat :
            e = N[x - 1] /\ f = N[x] /\ g = M[y - 1] /\ h = M[y]
      <4>1. x - 1 \in 0..Len(t) /\ x \in 0..Len(t) /\ y - 1 \in 0..Len(u) /\ y \in 0..Len(u)
        BY <1>2
      <4>. QED
        BY <1>3, <4>1
    <3>6. f = DepthAfter(t, Code(t, p), x, e) /\ h = DepthAfter(u, Code(u, q), y, g)
      BY <1>3, <3>5
    <3>7. e = g + d /\ f >= d
      BY <3>3, <3>4, <3>5
    <3>8. f = h + d
      BY <3>4, <3>6, <3>7 DEF DepthAfter
    <3>. QED
      BY <3>2, <3>5, <3>8
  <2>. QED
    BY <2>1, <2>2
<1>5. \A i \in Nat : i \in T
  <2>. HIDE DEF T
  <2>. QED
    BY <1>4, Upward
<1>6. \A i \in 0..m : N[i + a] = M[i + b] + d
  BY <1>5
<1>. QED
  BY <1>1, <1>6 DEF DeeperBy

\* The depth stays what it is where no parenthesis is code.
LEMMA DepthStays ==
    ASSUME NEW t \in SQLTexts, NEW p, NEW i \in 0..Len(t), NEW j \in i..Len(t),
           \A k \in (i + 1)..j : k \in Code(t, p) => t[k] \notin {"(", ")"}
    PROVE  Nesting(t, p)[j] = Nesting(t, p)[i]
<1>1. PICK N, n : N = Nesting(t, p) /\ n = Len(t) /\ n \in Nat
  BY TextFacts
<1>2. N \in [0..n -> Nat] /\ \A k \in 1..n : N[k] = DepthAfter(t, Code(t, p), k, N[k - 1])
  BY <1>1, NestingDef
<1>. DEFINE T == {k \in Nat : i <= k /\ k <= j => N[k] = N[i]}
<1>3. ASSUME NEW k \in Nat, \A l \in Nat : l < k => l \in T PROVE k \in T
  <2>1. CASE k = i
    BY <2>1
  <2>2. ASSUME k # i, i <= k, k <= j PROVE N[k] = N[i]
    <3>1. k - 1 \in Nat /\ k - 1 < k /\ i <= k - 1 /\ k - 1 <= j /\ k \in (i + 1)..j /\ k \in 1..n
      BY <1>1, <2>2
    <3>2. N[k - 1] = N[i]
      BY <1>3, <3>1
    <3>3. N[k] = DepthAfter(t, Code(t, p), k, N[k - 1])
      BY <1>2, <3>1
    <3>4. k \in Code(t, p) => t[k] \notin {"(", ")"}
      BY <3>1
    <3>. QED
      BY <3>2, <3>3, <3>4 DEF DepthAfter
  <2>. QED
    BY <2>1, <2>2
<1>4. \A k \in Nat : k \in T
  <2>. HIDE DEF T
  <2>. QED
    BY <1>3, Upward
<1>5. j \in T
  <2>1. j \in Nat
    BY <1>1
  <2>. HIDE DEF T
  <2>. QED
    BY <1>4, <2>1
<1>. QED
  BY <1>1, <1>5

\* Before a scan begins there is no depth.
LEMMA DepthBefore ==
    ASSUME NEW t \in SQLTexts, NEW p \in 1..(Len(t) + 1), NEW i \in 0..(p - 1)
    PROVE  Nesting(t, p)[i] = 0
<1>1. Len(t) \in Nat /\ Stops(t, p) \subseteq p..Len(t)
  BY TextFacts, StopsRange
<1>2. \A k \in (0 + 1)..i : k \notin Code(t, p)
  BY <1>1 DEF Code
<1>3. 0 \in 0..Len(t) /\ i \in 0..Len(t)
  BY <1>1
<1>4. Nesting(t, p)[i] = Nesting(t, p)[0]
  BY <1>2, <1>3, DepthStays
<1>. QED
  BY <1>4, NestingDef

\* A parenthesis where a scan begins is code and opens one.
LEMMA DepthOpens ==
    ASSUME NEW t \in SQLTexts, NEW p \in 1..Len(t), t[p] = "("
    PROVE  p \in Code(t, p) /\ Nesting(t, p)[p] = 1
<1>1. Len(t) \in Nat
  BY TextFacts
<1>2. Span(t, p) = p
  BY PlainSpan DEF Quotes
<1>3. p \in Stops(t, p)
  BY <1>1, StopsRange
<1>4. Nesting(t, p)[p - 1] = 0
  BY <1>1, DepthBefore
<1>5. Nesting(t, p)[p] = DepthAfter(t, Code(t, p), p, Nesting(t, p)[p - 1])
  BY NestingDef
<1>. QED
  BY <1>2, <1>3, <1>4, <1>5 DEF Code, DepthAfter

\* The parenthesis that opens at p closes at c.
Closes(t, p, c) ==
    /\ p \in 1..Len(t) /\ t[p] = "("
    /\ c \in (p + 1)..Len(t) /\ c \in Code(t, p) /\ t[c] = ")"
    /\ Nesting(t, p)[c - 1] = 1
    /\ \A i \in p..(c - 1) : Nesting(t, p)[i] >= 1

\* The depth before a parenthesis that closes the last, or closes nothing.
LEMMA DepthAtClose ==
    ASSUME NEW t \in SQLTexts, NEW p, NEW i \in 1..Len(t), i \in Code(t, p), t[i] = ")"
    PROVE  /\ Nesting(t, p)[i] = 0 <=> Nesting(t, p)[i - 1] \in {0, 1}
           /\ Nesting(t, p)[i - 1] \in Nat
<1>1. Nesting(t, p)[i] = DepthAfter(t, Code(t, p), i, Nesting(t, p)[i - 1])
  BY NestingDef
<1>2. Nesting(t, p)[i - 1] \in Nat
  <2>1. Len(t) \in Nat /\ i - 1 \in 0..Len(t)
    BY TextFacts
  <2>. QED
    BY <2>1, NestingDef
<1>3. PICK d \in Nat : d = Nesting(t, p)[i - 1]
  BY <1>2
<1>4. Nesting(t, p)[i] = IF d > 0 THEN d - 1 ELSE d
  BY <1>1, <1>3 DEF DepthAfter
<1>5. Nesting(t, p)[i] = 0 <=> d \in {0, 1}
  BY <1>4
<1>. QED
  BY <1>3, <1>5

\* Depth goes down to zero only at a parenthesis that closes.
LEMMA StaysOpen ==
    ASSUME NEW t \in SQLTexts, NEW p \in 1..Len(t), t[p] = "(", NEW c \in p..Len(t),
           \A i \in (p + 1)..c : i \in Code(t, p) /\ t[i] = ")" => Nesting(t, p)[i] # 0
    PROVE  \A i \in p..c : Nesting(t, p)[i] >= 1
<1>1. PICK N, n : N = Nesting(t, p) /\ n = Len(t) /\ n \in Nat
  BY TextFacts
<1>2. N \in [0..n -> Nat] /\ \A k \in 1..n : N[k] = DepthAfter(t, Code(t, p), k, N[k - 1])
  BY <1>1, NestingDef
<1>. DEFINE T == {k \in Nat : p <= k /\ k <= c => N[k] >= 1}
<1>3. ASSUME NEW k \in Nat, \A l \in Nat : l < k => l \in T PROVE k \in T
  <2>1. CASE k = p
    BY <1>1, <2>1, DepthOpens
  <2>2. ASSUME k # p, p <= k, k <= c PROVE N[k] >= 1
    <3>1. /\ k - 1 \in Nat /\ k - 1 < k /\ p <= k - 1 /\ k - 1 <= c
          /\ k \in (p + 1)..c /\ k \in 1..n /\ k \in 0..n /\ k - 1 \in 0..n
      BY <1>1, <2>2
    <3>2. N[k - 1] >= 1
      BY <1>3, <3>1
    <3>3. N[k] = DepthAfter(t, Code(t, p), k, N[k - 1])
      BY <1>2, <3>1
    <3>4. k \in Code(t, p) /\ t[k] = ")" => N[k] # 0
      BY <1>1, <3>1
    <3>5. PICK d \in Nat, e \in Nat : d = N[k - 1] /\ e = N[k]
      BY <1>2, <3>1
    <3>6. e = DepthAfter(t, Code(t, p), k, d) /\ d >= 1
      BY <3>2, <3>3, <3>5
    <3>7. e >= 1
      BY <3>4, <3>5, <3>6 DEF DepthAfter
    <3>. QED
      BY <3>5, <3>7
  <2>. QED
    BY <2>1, <2>2
<1>4. \A k \in Nat : k \in T
  <2>. HIDE DEF T
  <2>. QED
    BY <1>3, Upward
<1>5. ASSUME NEW i \in p..c PROVE N[i] >= 1
  <2>1. i \in Nat
    BY <1>1
  <2>2. i \in T
    <3>. HIDE DEF T
    <3>. QED
      BY <1>4, <2>1
  <2>. QED
    BY <2>2
<1>. QED
  BY <1>1, <1>5

\* Where what is open from p on is closed.
Closers(t, p) == {i \in Code(t, p) : t[i] = ")" /\ Nesting(t, p)[i] = 0}

\* parenthesizedSQLSpan by the first of the closers.
LEMMA ParenthesisDef ==
    ASSUME NEW t \in SQLTexts, NEW p \in 1..(Len(t) + 1)
    PROVE  /\ Closers(t, p) \subseteq p..Len(t)
           /\ parenthesizedSQLSpan(t, p) =
                 IF p > Len(t) \/ Closers(t, p) = {} THEN 0
                 ELSE IF t[p] = "(" THEN Min(Closers(t, p)) + 1 ELSE 0
<1>1. Closers(t, p) \subseteq p..Len(t)
  BY StopsRange DEF Code, Closers
<1>2. parenthesizedSQLSpan(t, p) =
         IF p > Len(t) \/ Closers(t, p) = {} THEN 0
         ELSE IF t[p] = "(" THEN Min(Closers(t, p)) + 1 ELSE 0
  BY DEF parenthesizedSQLSpan, Closers
<1>. QED
  BY <1>1, <1>2

\* The end that it finds is behind the parenthesis that closes.
LEMMA ParenthesisCloses ==
    ASSUME NEW t \in SQLTexts, NEW p \in 1..(Len(t) + 1), parenthesizedSQLSpan(t, p) # 0
    PROVE  \E c \in Nat : Closes(t, p, c) /\ parenthesizedSQLSpan(t, p) = c + 1
<1>1. Len(t) \in Nat /\ Closers(t, p) \in SUBSET Nat /\ Closers(t, p) \subseteq p..Len(t)
  BY TextFacts, ParenthesisDef
<1>2. /\ p \in 1..Len(t) /\ Closers(t, p) # {} /\ t[p] = "("
      /\ parenthesizedSQLSpan(t, p) = Min(Closers(t, p)) + 1
  BY <1>1, ParenthesisDef
<1>3. PICK c \in Closers(t, p) : c = Min(Closers(t, p)) /\ \A x \in Closers(t, p) : c <= x
  BY <1>1, <1>2, LeastOf
<1>4. c \in p..Len(t) /\ c \in Code(t, p) /\ t[c] = ")" /\ Nesting(t, p)[c] = 0
  BY <1>1 DEF Closers
<1>5. c # p
  BY <1>2, <1>4
<1>6. PICK b \in p..Len(t) : b = c - 1
  BY <1>1, <1>4, <1>5
<1>7. ASSUME NEW i \in (p + 1)..b, i \in Code(t, p), t[i] = ")" PROVE Nesting(t, p)[i] # 0
  <2>1. ASSUME Nesting(t, p)[i] = 0 PROVE FALSE
    <3>1. i \in Closers(t, p)
      BY <1>7, <2>1 DEF Closers
    <3>. QED
      BY <1>1, <1>3, <1>4, <1>6, <3>1
  <2>. QED
    BY <2>1
<1>8. \A i \in p..b : Nesting(t, p)[i] >= 1
  BY <1>2, <1>7, StaysOpen
<1>9. Nesting(t, p)[b] = 1
  <2>1. c \in 1..Len(t)
    BY <1>1, <1>4
  <2>2. Nesting(t, p)[c - 1] \in {0, 1}
    BY <1>4, <2>1, DepthAtClose
  <2>. QED
    BY <1>1, <1>6, <1>8, <2>2
<1>10. c \in (p + 1)..Len(t) /\ c \in Nat
  BY <1>1, <1>4, <1>5
<1>11. Closes(t, p, c)
  BY <1>2, <1>4, <1>6, <1>8, <1>9, <1>10 DEF Closes
<1>. QED
  BY <1>2, <1>3, <1>10, <1>11

\* And it finds the one that closes.
LEMMA ClosesParenthesis ==
    ASSUME NEW t \in SQLTexts, NEW p, NEW c, Closes(t, p, c)
    PROVE  parenthesizedSQLSpan(t, p) = c + 1
<1>1. /\ p \in 1..Len(t) /\ t[p] = "(" /\ Len(t) \in Nat
      /\ c \in (p + 1)..Len(t) /\ c \in Code(t, p) /\ t[c] = ")"
      /\ Nesting(t, p)[c - 1] = 1
      /\ \A i \in p..(c - 1) : Nesting(t, p)[i] >= 1
  BY TextFacts DEF Closes
<1>2. p \in 1..(Len(t) + 1) /\ c \in 1..Len(t)
  BY <1>1
<1>3. Closers(t, p) \in SUBSET Nat /\ Closers(t, p) \subseteq p..Len(t)
  BY <1>1, <1>2, ParenthesisDef
<1>4. c \in Closers(t, p)
  BY <1>1, <1>2, DepthAtClose DEF Closers
<1>5. ASSUME NEW x \in Closers(t, p) PROVE c <= x
  <2>1. x \in p..Len(t) /\ Nesting(t, p)[x] = 0
    BY <1>3 DEF Closers
  <2>2. ASSUME x < c PROVE FALSE
    <3>1. x \in p..(c - 1)
      BY <1>1, <2>1, <2>2
    <3>2. Nesting(t, p)[x] >= 1
      BY <1>1, <3>1
    <3>. QED
      BY <2>1, <3>2
  <2>. QED
    BY <1>1, <2>1, <2>2
<1>6. Min(Closers(t, p)) = c
  BY <1>3, <1>4, <1>5, LeastIs
<1>7. parenthesizedSQLSpan(t, p) = Min(Closers(t, p)) + 1
  BY <1>1, <1>2, <1>4, ParenthesisDef
<1>. QED
  BY <1>6, <1>7

\* In a passage that a scan of u comes to, u has the code of t.
LEMMA PassageCode ==
    ASSUME NEW t, NEW p, NEW a, NEW u, NEW b, NEW m, Passage(t, p, a, u, b, m),
           NEW q \in 1..(b + 1), Reaches(u, q, b + 1)
    PROVE  CodeAlike(t, p, a, u, q, b, m)
<1>1. /\ t \in SQLTexts /\ u \in SQLTexts /\ a \in Nat /\ b \in Nat /\ m \in Nat
      /\ a + m <= Len(t) /\ b + m <= Len(u) /\ Len(u) \in Nat
      /\ \A j \in 1..m : u[j + b] = t[j + a]
  BY PassageFacts
<1>2. SeenAlike(t, p, a, u, b, m)
  BY PassageAlike
<1>3. Code(u, b + 1) = {k \in Code(u, q) : k >= b + 1}
  <2>1. q \in 1..(Len(u) + 1)
    BY <1>1
  <2>2. PICK x : x = b + 1
    OBVIOUS
  <2>. QED
    BY <1>1, <2>1, <2>2, ReachesRest
<1>4. ASSUME NEW i \in 1..m PROVE i + b \in Code(u, q) <=> i + a \in Code(t, p)
  <2>1. i + b >= b + 1
    BY <1>1
  <2>2. i + b \in Code(u, b + 1) <=> i + a \in Code(t, p)
    BY <1>2 DEF SeenAlike
  <2>. QED
    BY <1>3, <2>1, <2>2
<1>. QED
  BY <1>1, <1>4 DEF CodeAlike

-----------------------------------------------------------------------------
(* Parts of texts.                                                         *)

\* A part of a text is a text, and a stretch of it.
LEMMA SubText ==
    ASSUME NEW t \in SQLTexts, NEW a \in Nat, NEW e \in Nat, a <= e, e <= Len(t)
    PROVE  /\ SubSeq(t, a + 1, e) \in SQLTexts
           /\ Len(SubSeq(t, a + 1, e)) = e - a
           /\ Stretch(t, a, SubSeq(t, a + 1, e), 0, e - a)
<1>1. Len(t) \in Nat /\ \A i \in 1..Len(t) : t[i] \in Characters
  BY TextFacts
<1>2. PICK k \in Nat, m \in Nat, s \in {SubSeq(t, a + 1, e)} : k = a + 1 /\ m = e - a
  <2>1. a + 1 \in Nat /\ e - a \in Nat
    OBVIOUS
  <2>. QED
    BY <2>1
<1>3. \A i \in k..e : t[i] \in Characters
  BY <1>1, <1>2
<1>4. /\ s \in Seq(Characters) /\ Len(s) = (IF k <= e THEN e - k + 1 ELSE 0)
      /\ \A i \in 1..(e - k + 1) : s[i] = t[k + i - 1]
  <2>1. s = SubSeq(t, k, e) /\ k \in Int /\ e \in Int
    BY <1>2
  <2>. QED
    BY <1>3, <2>1, SubSeqProperties
<1>5. Len(s) = m
  BY <1>2, <1>4
<1>6. ASSUME NEW i \in 1..m PROVE s[i + 0] = t[i + a]
  <2>1. i \in 1..(e - k + 1) /\ k + i - 1 = i + a /\ i + 0 = i
    BY <1>2
  <2>2. s[i] = t[k + i - 1]
    BY <1>4, <2>1
  <2>. QED
    BY <2>1, <2>2
<1>7. a + m <= Len(t) /\ 0 + m <= Len(s) /\ 0 \in Nat
  BY <1>2, <1>5
<1>8. Stretch(t, a, s, 0, m)
  BY <1>2, <1>4, <1>6, <1>7 DEF Stretch, SQLTexts
<1>. QED
  BY <1>2, <1>4, <1>5, <1>8 DEF SQLTexts

\* The greatest member of a set of positions.
LEMMA GreatestOf ==
    ASSUME NEW n \in Nat, NEW S \in SUBSET (0..n), S # {}
    PROVE  Max(S) \in S /\ \A x \in S : Max(S) >= x
<1>. DEFINE T == {i \in Nat : i \notin S}
<1>1. ASSUME \A x \in S : \E y \in S : y > x PROVE FALSE
  <2>1. ASSUME NEW i \in Nat, \A j \in Nat : i < j /\ j <= n => j \in T, i <= n PROVE i \in T
    <3>1. ASSUME i \in S PROVE FALSE
      <4>1. PICK y \in S : y > i
        BY <1>1, <3>1
      <4>. QED
        BY <2>1, <4>1
    <3>. QED
      BY <3>1
  <2>2. \A i \in 0..n : i \in T
    <3>. HIDE DEF T
    <3>. QED
      BY <2>1, Downward
  <2>. QED
    BY <2>2
<1>2. PICK x \in S : \A y \in S : ~(y > x)
  BY <1>1
<1>3. \E x0 \in S : \A y \in S : x0 >= y
  BY <1>2
<1>. QED
  BY <1>3 DEF Max

\* What Trim leaves of a text: nothing of white space, or what is at o + 1 ..
\* o + Len(s), with white space around.
TrimsTo(w, o, s) ==
    /\ s \in SQLTexts /\ Len(s) >= 1 /\ Stretch(w, o, s, 0, Len(s))
    /\ s[1] \notin Spaces /\ s[Len(s)] \notin Spaces
    /\ \A i \in 1..Len(w) : i <= o \/ i > o + Len(s) => w[i] \in Spaces

\* What trimming leaves, if not nothing.
LEMMA TrimFacts ==
    ASSUME NEW w \in SQLTexts
    PROVE  \/ Trim(w) = <<>> /\ \A i \in 1..Len(w) : w[i] \in Spaces
           \/ \E o \in Nat : TrimsTo(w, o, Trim(w))
<1>. DEFINE solid == {i \in 1..Len(w) : w[i] \notin Spaces}
<1>1. Len(w) \in Nat
  BY TextFacts
<1>2. Trim(w) = IF solid = {} THEN <<>> ELSE SubSeq(w, Min(solid), Max(solid))
  BY DEF Trim
<1>3. CASE solid = {}
  BY <1>2, <1>3
<1>4. CASE solid # {}
  <2>1. solid \in SUBSET (0..Len(w)) /\ solid \in SUBSET Nat
    BY <1>1
  <2>2. PICK f \in solid : f = Min(solid) /\ \A x \in solid : f <= x
    <3>. HIDE DEF solid
    <3>. QED
      BY <1>4, <2>1, LeastOf
  <2>3. PICK g \in solid : g = Max(solid) /\ \A x \in solid : g >= x
    <3>. HIDE DEF solid
    <3>. QED
      BY <1>1, <1>4, <2>1, GreatestOf
  <2>4. f \in 1..Len(w) /\ g \in 1..Len(w) /\ f <= g /\ w[f] \notin Spaces /\ w[g] \notin Spaces
    BY <2>2
  <2>5. PICK o \in Nat : f = o + 1
    <3>1. f - 1 \in Nat /\ f = (f - 1) + 1
      BY <1>1, <2>4
    <3>. QED
      BY <3>1
  <2>6. PICK s : s = SubSeq(w, o + 1, g) /\ s = Trim(w)
    BY <1>2, <1>4, <2>2, <2>3, <2>5
  <2>7. s \in SQLTexts /\ Len(s) = g - o /\ Stretch(w, o, s, 0, g - o)
    <3>1. g \in Nat /\ o <= g /\ g <= Len(w)
      BY <1>1, <2>4, <2>5
    <3>. QED
      BY <2>6, <3>1, SubText
  <2>8. PICK m \in Nat : m = g - o /\ m >= 1 /\ m = Len(s) /\ g = o + m
    BY <1>1, <2>4, <2>5, <2>7
  <2>9. s[1] = w[f] /\ s[m] = w[g]
    <3>1. \A i \in 1..m : s[i + 0] = w[i + o]
      BY <2>7, <2>8 DEF Stretch
    <3>2. 1 \in 1..m /\ m \in 1..m /\ 1 + 0 = 1 /\ m + 0 = m /\ 1 + o = f /\ m + o = g
      BY <2>5, <2>8
    <3>. QED
      BY <3>1, <3>2
  <2>10. ASSUME NEW i \in 1..Len(w), i <= o \/ i > o + m PROVE w[i] \in Spaces
    <3>1. ASSUME w[i] \notin Spaces PROVE FALSE
      <4>1. i \in solid
        BY <3>1
      <4>2. f <= i /\ i <= g
        BY <1>1, <2>1, <2>2, <2>3, <4>1
      <4>. QED
        BY <1>1, <2>5, <2>8, <2>10, <4>2
    <3>. QED
      BY <3>1
  <2>11. TrimsTo(w, o, s)
    BY <2>4, <2>7, <2>8, <2>9, <2>10 DEF TrimsTo
  <2>. QED
    BY <2>6, <2>11
<1>. QED
  BY <1>3, <1>4

\* Nothing is left to trim of what is left.
LEMMA TrimAgain ==
    ASSUME NEW s \in SQLTexts, Len(s) >= 1, s[1] \notin Spaces, s[Len(s)] \notin Spaces
    PROVE  Trim(s) = s
<1>. DEFINE solid == {i \in 1..Len(s) : s[i] \notin Spaces}
<1>1. PICK m \in Nat : m = Len(s) /\ m >= 1
  BY TextFacts
<1>2. 1 \in solid /\ m \in solid /\ solid \in SUBSET (0..m) /\ solid \in SUBSET Nat
  BY <1>1
<1>3. Min(solid) = 1
  <2>1. \A x \in solid : 1 <= x
    BY <1>1
  <2>. HIDE DEF solid
  <2>. QED
    BY <1>2, <2>1, LeastIs
<1>4. Max(solid) = m
  <2>1. \A x \in solid : x <= m
    BY <1>1
  <2>. HIDE DEF solid
  <2>2. PICK g \in solid : g = Max(solid) /\ \A x \in solid : g >= x
    BY <1>2, GreatestOf
  <2>. QED
    BY <1>2, <2>1, <2>2
<1>5. Trim(s) = SubSeq(s, 1, Len(s))
  BY <1>1, <1>2, <1>3, <1>4 DEF Trim
<1>6. SubSeq(s, 1, Len(s)) = s
  BY SubSeqFull DEF SQLTexts
<1>. QED
  BY <1>5, <1>6

\* The ends of the parts between cuts: the cuts one by one, then the end of the
\* text.
LEMMA EndsDef ==
    ASSUME NEW t \in SQLTexts, NEW cuts \in SUBSET (1..Len(t))
    PROVE  /\ Cardinality(cuts) \in Nat
           /\ Ends(t, cuts) \in [0..(Cardinality(cuts) + 1) -> 0..(Len(t) + 1)]
           /\ Ends(t, cuts)[0] = 0
           /\ \A n \in 1..(Cardinality(cuts) + 1) :
                 Ends(t, cuts)[n] = FirstOf(t, {i \in cuts : i > Ends(t, cuts)[n - 1]})
<1>1. Len(t) \in Nat
  BY TextFacts
<1>2. IsFiniteSet(cuts) /\ Cardinality(cuts) \in Nat
  <2>1. IsFiniteSet(1..Len(t))
    BY <1>1, FS_Interval
  <2>2. IsFiniteSet(cuts)
    BY <2>1, FS_Subset
  <2>. QED
    BY <2>2, FS_CardinalityType
<1>3. PICK n \in Nat, V \in {0..(Len(t) + 1)}, basis \in {0} : n = Cardinality(cuts) + 1
  <2>1. Cardinality(cuts) + 1 \in Nat
    BY <1>2
  <2>. QED
    BY <2>1
<1>. DEFINE next(d) == FirstOf(t, {i \in cuts : i > d})
            G == [x \in (1..n) \X V |-> next(x[2])]
<1>4. ASSUME NEW d PROVE next(d) \in V
  <2>1. {i \in cuts : i > d} \in SUBSET (1..Len(t))
    OBVIOUS
  <2>2. next(d) \in 1..(Len(t) + 1)
    BY <2>1, FirstFacts
  <2>. QED
    BY <1>1, <1>3, <2>2
<1>. HIDE DEF next
<1>5. G \in [(1..n) \X V -> V] /\ basis \in V
  BY <1>1, <1>3, <1>4
<1>6. \A k \in 1..n, d \in V : G[<<k, d>>] = next(d)
  OBVIOUS
<1>. HIDE DEF G
<1>7. PICK f \in [0..n -> V] : IsForward(f, n, basis, G)
  BY <1>5, ForwardExists
<1>8. ASSUME NEW k \in 0..n, k # 0 PROVE G[<<k, f[k - 1]>>] = next(f[k - 1])
  <2>1. k \in 1..n /\ f[k - 1] \in V
    BY <1>8
  <2>. QED
    BY <1>6, <2>1
<1>9. f = [k \in 0..n |-> IF k = 0 THEN 0 ELSE next(f[k - 1])]
  BY <1>3, <1>7, <1>8 DEF IsForward
<1>. DEFINE F(g) == [k \in 0..(Cardinality(cuts) + 1) |-> IF k = 0 THEN 0 ELSE next(g[k - 1])]
<1>10. f = F(f)
  BY <1>3, <1>9
<1>11. Ends(t, cuts) = CHOOSE g : g = F(g)
  BY DEF Ends, next
<1>12. PICK g : g = Ends(t, cuts) /\ g = F(g)
  <2>1. \E h : h = F(h)
    BY <1>10
  <2>. HIDE DEF F
  <2>. QED
    BY <1>11, <2>1
<1>13. DOMAIN g = 0..n /\ g = [k \in 0..n |-> g[k]]
  BY <1>3, <1>12
<1>14. \A k \in 0..n : g[k] = IF k = 0 THEN 0 ELSE next(g[k - 1])
  BY <1>3, <1>12
<1>15. \A k \in 0..n : g[k] \in V
  BY <1>1, <1>3, <1>4, <1>14
<1>16. g \in [0..n -> V] /\ g[0] = 0 /\ \A k \in 1..n : g[k] = next(g[k - 1])
  <2>1. \A k \in 1..n : k \in 0..n /\ k # 0
    OBVIOUS
  <2>2. \A k \in 1..n : g[k] = next(g[k - 1])
    BY <1>14, <2>1
  <2>3. g[0] = 0
    BY <1>14
  <2>. HIDE DEF next
  <2>. QED
    BY <1>13, <1>15, <2>2, <2>3
<1>. QED
  BY <1>2, <1>3, <1>12, <1>16 DEF next

\* E are the ends of the parts that N cuts leave.
EndsAre(t, cuts, N, E) ==
    /\ N \in Nat /\ E \in [0..(N + 1) -> 0..(Len(t) + 1)]
    /\ E[0] = 0 /\ E[N + 1] = Len(t) + 1
    /\ \A n \in 1..N : E[n] \in cuts
    /\ \A n \in 1..(N + 1) : E[n - 1] < E[n] /\ \A i \in cuts : i <= E[n - 1] \/ i >= E[n]

\* They are such ends.
LEMMA EndsFacts ==
    ASSUME NEW t \in SQLTexts, NEW cuts \in SUBSET (1..Len(t))
    PROVE  EndsAre(t, cuts, Cardinality(cuts), Ends(t, cuts))
<1>1. Len(t) \in Nat
  BY TextFacts
<1>2. PICK N \in Nat, E \in {Ends(t, cuts)} : N = Cardinality(cuts)
  BY EndsDef
<1>. DEFINE later(d) == {i \in cuts : i > d}
<1>3. /\ E \in [0..(N + 1) -> 0..(Len(t) + 1)] /\ E[0] = 0
      /\ \A n \in 1..(N + 1) : E[n] = FirstOf(t, later(E[n - 1]))
  BY <1>2, EndsDef
<1>4. IsFiniteSet(cuts)
  <2>1. IsFiniteSet(1..Len(t))
    BY <1>1, FS_Interval
  <2>. QED
    BY <2>1, FS_Subset
<1>5. ASSUME NEW n \in 1..(N + 1)
      PROVE  /\ E[n] \in later(E[n - 1]) \/ (later(E[n - 1]) = {} /\ E[n] = Len(t) + 1)
             /\ E[n - 1] \in 0..(Len(t) + 1) /\ E[n] \in 1..(Len(t) + 1)
             /\ \A i \in cuts : i <= E[n - 1] \/ i >= E[n]
  <2>1. later(E[n - 1]) \in SUBSET (1..Len(t))
    OBVIOUS
  <2>2. n - 1 \in 0..(N + 1)
    OBVIOUS
  <2>3. E[n - 1] \in 0..(Len(t) + 1)
    BY <1>3, <2>2
  <2>4. PICK S, d : S = later(d) /\ d = E[n - 1]
    OBVIOUS
  <2>5. /\ FirstOf(t, S) \in 1..(Len(t) + 1)
        /\ \A x \in S : FirstOf(t, S) <= x
        /\ FirstOf(t, S) \in S \/ (S = {} /\ FirstOf(t, S) = Len(t) + 1)
    BY <2>1, <2>4, FirstFacts
  <2>6. E[n] = FirstOf(t, S)
    BY <1>3, <2>4
  <2>7. ASSUME NEW i \in cuts PROVE i <= d \/ i >= FirstOf(t, S)
    <3>1. i \in S \/ i <= d
      BY <1>1, <2>3, <2>4
    <3>. QED
      BY <1>1, <2>5, <3>1
  <2>8. E[n] \in S \/ (S = {} /\ E[n] = Len(t) + 1)
    BY <2>5, <2>6
  <2>9. E[n] \in 1..(Len(t) + 1) /\ \A i \in cuts : i <= d \/ i >= E[n]
    BY <2>5, <2>6, <2>7
  <2>. HIDE DEF later
  <2>10. E[n] \in later(E[n - 1]) \/ (later(E[n - 1]) = {} /\ E[n] = Len(t) + 1)
    BY <2>4, <2>8
  <2>. QED
    BY <2>3, <2>4, <2>9, <2>10
<1>. DEFINE T == {n \in Nat : n <= N => IsFiniteSet(later(E[n])) /\ Cardinality(later(E[n])) = N - n}
<1>6. ASSUME NEW n \in Nat, \A j \in Nat : j < n => j \in T PROVE n \in T
  <2>1. CASE n = 0
    <3>1. later(E[n]) = cuts
      <4>1. PICK d : d = E[n] /\ d = 0
        BY <1>3, <2>1
      <4>2. \A i \in cuts : i > d
        BY <1>1, <4>1
      <4>. QED
        BY <4>1, <4>2
    <3>. HIDE DEF later
    <3>. QED
      BY <1>2, <1>4, <2>1, <3>1
  <2>2. ASSUME n # 0, n <= N
        PROVE  IsFiniteSet(later(E[n])) /\ Cardinality(later(E[n])) = N - n
    <3>1. n - 1 \in Nat /\ n - 1 < n /\ n - 1 <= N /\ n \in 1..(N + 1)
      BY <2>2
    <3>2. PICK x, y, S, R : x = E[n - 1] /\ y = E[n] /\ S = later(x) /\ R = later(y)
      OBVIOUS
    <3>3. IsFiniteSet(S) /\ Cardinality(S) = N - (n - 1)
      <4>1. n - 1 \in T
        BY <1>6, <3>1
      <4>. HIDE DEF later
      <4>. QED
        BY <3>1, <3>2, <4>1
    <3>4. S # {}
      <4>1. Cardinality(S) # 0
        BY <2>2, <3>3
      <4>. QED
        BY <3>3, <4>1, FS_EmptySet
    <3>5. y \in S /\ x \in Nat /\ y \in Nat /\ \A i \in cuts : i <= x \/ i >= y
      <4>1. x \in 0..(Len(t) + 1) /\ y \in 1..(Len(t) + 1)
            /\ (y \in S \/ S = {}) /\ \A i \in cuts : i <= x \/ i >= y
        <5>. HIDE DEF later
        <5>. QED
          BY <1>5, <3>1, <3>2
      <4>. QED
        BY <1>1, <3>4, <4>1
    <3>6. R = S \ {y}
      <4>1. y > x /\ y \in cuts /\ \A i \in cuts : i \in Nat
        BY <1>1, <3>2, <3>5
      <4>2. \A i \in cuts : i > y <=> i > x /\ i # y
        BY <3>5, <4>1
      <4>3. R = {i \in cuts : i > y} /\ S = {i \in cuts : i > x}
        BY <3>2
      <4>. QED
        BY <4>2, <4>3
    <3>7. IsFiniteSet(R) /\ Cardinality(R) = N - (n - 1) - 1
      BY <3>3, <3>5, <3>6, FS_RemoveElement
    <3>. HIDE DEF later
    <3>. QED
      BY <3>1, <3>2, <3>7
  <2>. HIDE DEF later
  <2>. QED
    BY <2>1, <2>2
<1>7. \A n \in Nat : n \in T
  <2>. HIDE DEF T
  <2>. QED
    BY <1>6, Upward
<1>8. ASSUME NEW n \in 1..N PROVE E[n] \in cuts
  <2>1. n - 1 \in Nat /\ n - 1 <= N /\ n \in 1..(N + 1)
    OBVIOUS
  <2>2. PICK S : S = later(E[n - 1])
    OBVIOUS
  <2>3. IsFiniteSet(S) /\ Cardinality(S) = N - (n - 1)
    <3>1. n - 1 \in T
      <4>. HIDE DEF T
      <4>. QED
        BY <1>7, <2>1
    <3>. HIDE DEF later
    <3>. QED
      BY <2>1, <2>2, <3>1
  <2>4. S # {}
    <3>1. Cardinality(S) # 0
      BY <2>3
    <3>. QED
      BY <2>3, <3>1, FS_EmptySet
  <2>5. E[n] \in S
    <3>. HIDE DEF later
    <3>. QED
      BY <1>5, <2>1, <2>2, <2>4
  <2>. QED
    BY <2>2, <2>5
<1>9. E[N + 1] = Len(t) + 1
  <2>1. N + 1 \in 1..(N + 1) /\ (N + 1) - 1 = N
    OBVIOUS
  <2>2. PICK S : S = later(E[N])
    OBVIOUS
  <2>3. IsFiniteSet(S) /\ Cardinality(S) = 0
    <3>1. N \in T
      <4>. HIDE DEF T
      <4>. QED
        BY <1>7
    <3>2. N - N = 0
      OBVIOUS
    <3>. HIDE DEF later
    <3>. QED
      BY <2>2, <3>1, <3>2
  <2>4. S = {}
    BY <2>3, FS_EmptySet
  <2>. HIDE DEF later
  <2>. QED
    BY <1>5, <2>1, <2>2, <2>4
<1>10. ASSUME NEW n \in 1..(N + 1) PROVE E[n - 1] < E[n]
  <2>1. E[n - 1] \in 0..(Len(t) + 1) /\ E[n] \in 1..(Len(t) + 1)
    <3>. HIDE DEF later
    <3>. QED
      BY <1>5
  <2>2. CASE E[n] \in later(E[n - 1])
    BY <1>1, <2>1, <2>2
  <2>3. CASE E[n] = Len(t) + 1
    <3>1. E[n - 1] <= Len(t)
      <4>1. CASE n = 1
        BY <1>1, <1>3, <4>1
      <4>2. CASE n # 1
        <5>1. n - 1 \in 1..N
          BY <4>2
        <5>2. PICK x \in cuts : x = E[n - 1]
          BY <1>8, <5>1
        <5>. QED
          BY <1>1, <5>2
      <4>. QED
        BY <4>1, <4>2
    <3>. QED
      BY <1>1, <2>1, <2>3, <3>1
  <2>. HIDE DEF later
  <2>. QED
    BY <1>5, <2>2, <2>3
<1>11. \A n \in 1..(N + 1) : E[n - 1] < E[n] /\ \A i \in cuts : i <= E[n - 1] \/ i >= E[n]
  BY <1>5, <1>10
<1>. QED
  BY <1>2, <1>3, <1>8, <1>9, <1>11 DEF EndsAre

\* s is w but for white space around it, at o + 1 .. o + Len(s).
Within(w, o, s) ==
    /\ Stretch(w, o, s, 0, Len(s))
    /\ \A i \in 1..Len(w) : i <= o \/ i > o + Len(s) => w[i] \in Spaces

\* A text when trimmed is within the text.
LEMMA TrimWithin ==
    ASSUME NEW w \in SQLTexts
    PROVE  \E o \in Nat : Within(w, o, Trim(w))
<1>1. Len(w) \in Nat
  BY TextFacts
<1>2. CASE Trim(w) = <<>> /\ \A i \in 1..Len(w) : w[i] \in Spaces
  <2>1. PICK s : s = <<>> /\ s = Trim(w)
    BY <1>2
  <2>2. s \in SQLTexts /\ Len(s) = 0
    BY <2>1 DEF SQLTexts
  <2>3. Stretch(w, 0, s, 0, Len(s))
    BY <1>1, <2>2 DEF Stretch
  <2>4. Within(w, 0, s)
    BY <1>2, <2>3 DEF Within
  <2>. QED
    BY <2>1, <2>4
<1>3. ASSUME NEW o \in Nat, TrimsTo(w, o, Trim(w)) PROVE Within(w, o, Trim(w))
  BY <1>3 DEF TrimsTo, Within
<1>. QED
  BY <1>2, <1>3, TrimFacts

\* As is the text itself.
LEMMA AllWithin ==
    ASSUME NEW w \in SQLTexts
    PROVE  Within(w, 0, w)
<1>1. Len(w) \in Nat
  BY TextFacts
<1>. QED
  BY <1>1 DEF Within, Stretch

\* White space where a scan comes by is passed over one by one.
LEMMA ReachesOverSpaces ==
    ASSUME NEW t \in SQLTexts, NEW p \in 1..(Len(t) + 1), NEW i \in Nat, Reaches(t, p, i),
           NEW j \in i..(Len(t) + 1), \A k \in i..(j - 1) : t[k] \in Spaces
    PROVE  Reaches(t, p, j)
<1>1. Len(t) \in Nat /\ i \in p..(Len(t) + 1)
  BY TextFacts, ReachesRest
<1>. DEFINE T == {k \in Nat : i <= k /\ k <= j => Reaches(t, p, k)}
<1>2. ASSUME NEW k \in Nat, \A l \in Nat : l < k => l \in T PROVE k \in T
  <2>1. CASE k = i
    BY <2>1
  <2>2. ASSUME k # i, i <= k, k <= j PROVE Reaches(t, p, k)
    <3>1. PICK l \in 1..Len(t) : k = l + 1 /\ l \in i..(j - 1)
      <4>1. k - 1 \in 1..Len(t) /\ k = (k - 1) + 1 /\ k - 1 \in i..(j - 1)
        BY <1>1, <2>2
      <4>. QED
        BY <4>1
    <3>2. Reaches(t, p, l)
      <4>1. l \in Nat /\ l < k /\ i <= l /\ l <= j
        BY <1>1, <2>2, <3>1
      <4>. QED
        BY <1>2, <4>1
    <3>3. l \in Stops(t, p)
      BY <1>1, <3>1, <3>2 DEF Reaches
    <3>4. Span(t, l) = l
      <4>1. t[l] \in Spaces
        BY <3>1
      <4>2. t[l] \notin Quotes \cup {"-", "#", "/"}
        BY <4>1 DEF Spaces, Quotes
      <4>. QED
        BY <4>2, PlainSpan
    <3>5. l \in Code(t, p)
      BY <3>3, <3>4 DEF Code
    <3>. QED
      BY <3>1, <3>5, ReachesCode
  <2>. QED
    BY <2>1, <2>2
<1>3. j \in T
  <2>1. j \in Nat
    BY <1>1
  <2>. HIDE DEF T
  <2>. QED
    BY <1>2, <2>1, Upward
<1>. QED
  BY <1>1, <1>3

\* A part of t between two positions where a scan comes by is a passage of that
\* scan, with its white space or without.
LEMMA PartPassage ==
    ASSUME NEW t \in SQLTexts, NEW p \in 1..(Len(t) + 1), NEW a \in Nat, NEW e \in Nat,
           a <= e, e <= Len(t), p <= a + 1, Reaches(t, p, a + 1), Reaches(t, p, e + 1),
           NEW o \in Nat, NEW s, Within(SubSeq(t, a + 1, e), o, s)
    PROVE  /\ Passage(t, p, a + o, s, 0, Len(s))
           /\ a + o + Len(s) <= e /\ s \in SQLTexts
           /\ \A k \in (a + 1)..(a + o) : t[k] \in Spaces
           /\ \A k \in (a + o + Len(s) + 1)..e : t[k] \in Spaces
<1>1. PICK w : w = SubSeq(t, a + 1, e)
  OBVIOUS
<1>2. /\ w \in SQLTexts /\ Len(w) = e - a /\ Stretch(t, a, w, 0, e - a)
  BY <1>1, SubText
<1>3. /\ Stretch(w, o, s, 0, Len(s))
      /\ \A i \in 1..Len(w) : i <= o \/ i > o + Len(s) => w[i] \in Spaces
  BY <1>1 DEF Within
<1>4. /\ s \in SQLTexts /\ Len(s) \in Nat /\ o + Len(s) <= Len(w) /\ Len(t) \in Nat
      /\ \A i \in 1..Len(s) : s[i + 0] = w[i + o]
  BY <1>3, TextFacts DEF Stretch
<1>5. PICK m \in Nat, c \in Nat : m = Len(s) /\ c = a + o /\ c + m <= e
  BY <1>2, <1>4
<1>6. \A i \in 1..(e - a) : w[i] = t[i + a]
  <2>1. \A i \in 1..(e - a) : w[i + 0] = t[i + a] /\ i + 0 = i
    BY <1>2 DEF Stretch
  <2>. QED
    BY <2>1
<1>7. \A i \in 1..m : s[i + 0] = t[i + c]
  <2>. TAKE i \in 1..m
  <2>1. PICK j \in 1..(e - a) : j = i + o /\ j + a = i + c
    <3>1. i + o \in 1..(e - a) /\ (i + o) + a = i + c
      BY <1>2, <1>4, <1>5
    <3>. QED
      BY <3>1
  <2>2. s[i + 0] = w[j]
    BY <1>4, <1>5, <2>1
  <2>. QED
    BY <1>6, <2>1, <2>2
<1>8. Stretch(t, c, s, 0, m)
  BY <1>4, <1>5, <1>7 DEF Stretch
<1>9. ASSUME NEW k \in (a + 1)..e, k <= c \/ k > c + m PROVE t[k] \in Spaces
  <2>1. PICK i \in 1..(e - a) : k = i + a
    <3>1. k - a \in 1..(e - a) /\ k = (k - a) + a
      OBVIOUS
    <3>. QED
      BY <3>1
  <2>2. i \in 1..Len(w) /\ (i <= o \/ i > o + Len(s))
    BY <1>2, <1>5, <1>9, <2>1
  <2>3. w[i] \in Spaces
    BY <1>3, <2>2
  <2>. QED
    BY <1>6, <2>1, <2>3
<1>10. \A k \in (a + 1)..c : t[k] \in Spaces
  BY <1>4, <1>5, <1>9
<1>11. \A k \in (c + m + 1)..e : t[k] \in Spaces
  BY <1>5, <1>9
<1>12. Reaches(t, p, c + 1)
  <2>1. PICK x \in Nat : x = a + 1
    OBVIOUS
  <2>2. PICK y \in x..(Len(t) + 1) : y = c + 1
    BY <1>4, <1>5, <2>1
  <2>3. \A k \in x..(y - 1) : t[k] \in Spaces
    BY <1>5, <1>10, <2>1, <2>2
  <2>4. Reaches(t, p, x)
    BY <2>1
  <2>5. Reaches(t, p, y)
    BY <2>3, <2>4, ReachesOverSpaces
  <2>. QED
    BY <2>2, <2>5
<1>13. EndsHere(t, p, c, s, 0, m)
  <2>1. Len(s) = 0 + m
    BY <1>5
  <2>2. CASE c + m = e
    BY <2>1, <2>2 DEF EndsHere
  <2>3. CASE c + m < e
    <3>1. t[c + m + 1] \in Spaces
      BY <1>5, <1>11, <2>3
    <3>2. EndsInSpace(t, c, s, 0, m)
      BY <1>4, <1>5, <2>1, <2>3, <3>1 DEF EndsInSpace
    <3>. QED
      BY <2>1, <3>2 DEF EndsHere
  <2>. QED
    BY <1>5, <2>2, <2>3
<1>14. p \in 1..(c + 1)
  BY <1>4, <1>5
<1>15. Passage(t, p, c, s, 0, m)
  BY <1>8, <1>12, <1>13, <1>14 DEF Passage
<1>. QED
  BY <1>4, <1>5, <1>10, <1>11, <1>15

\* Characters outside parentheses are at positions of the text.
LEMMA TopLevelRange ==
    ASSUME NEW t \in SQLTexts, NEW ch
    PROVE  /\ TopLevel(t, ch) \in SUBSET (1..Len(t))
           /\ \A i : i \in TopLevel(t, ch) <=> i \in Code(t, 1) /\ t[i] = ch /\ Nesting(t, 1)[i] = 0
<1>1. Len(t) \in Nat
  BY TextFacts
<1>2. 1 \in 1..(Len(t) + 1)
  BY <1>1
<1>3. Stops(t, 1) \subseteq 1..Len(t)
  BY <1>2, StopsRange
<1>4. \A i : i \in TopLevel(t, ch) <=> i \in Code(t, 1) /\ t[i] = ch /\ Nesting(t, 1)[i] = 0
  BY DEF TopLevel
<1>. QED
  BY <1>3, <1>4 DEF Code

\* The n-th part between characters ch outside parentheses, at a + 1 .. e.
PartAt(t, ch, n, a, e) ==
    /\ a \in Nat /\ e \in Nat /\ a <= e /\ e <= Len(t)
    /\ a = Ends(t, TopLevel(t, ch))[n - 1] /\ e + 1 = Ends(t, TopLevel(t, ch))[n]
    /\ CutAt(t, TopLevel(t, ch))[n] = SubSeq(t, a + 1, e)
    /\ a = 0 \/ a \in TopLevel(t, ch)
    /\ e = Len(t) \/ e + 1 \in TopLevel(t, ch)
    /\ \A i \in (a + 1)..e : i \notin TopLevel(t, ch)

\* There is one part more than there are cuts.
LEMMA CutLength ==
    ASSUME NEW t \in SQLTexts, NEW cuts \in SUBSET (1..Len(t))
    PROVE  /\ Cardinality(cuts) \in Nat
           /\ DOMAIN CutAt(t, cuts) = 1..(Cardinality(cuts) + 1)
<1>. QED
  BY EndsDef DEF CutAt

\* Each of the parts is somewhere.
LEMMA PartExists ==
    ASSUME NEW t \in SQLTexts, NEW ch, NEW n \in 1..(Cardinality(TopLevel(t, ch)) + 1)
    PROVE  \E a, e : PartAt(t, ch, n, a, e)
<1>1. PICK cuts : cuts = TopLevel(t, ch)
  OBVIOUS
<1>2. Len(t) \in Nat /\ cuts \in SUBSET (1..Len(t))
  BY <1>1, TextFacts, TopLevelRange
<1>3. PICK N, E : N = Cardinality(cuts) /\ E = Ends(t, cuts)
  OBVIOUS
<1>4. EndsAre(t, cuts, N, E)
  BY <1>2, <1>3, EndsFacts
<1>5. /\ N \in Nat /\ E \in [0..(N + 1) -> 0..(Len(t) + 1)]
      /\ E[0] = 0 /\ E[N + 1] = Len(t) + 1
      /\ \A k \in 1..N : E[k] \in cuts
      /\ \A k \in 1..(N + 1) : E[k - 1] < E[k] /\ \A i \in cuts : i <= E[k - 1] \/ i >= E[k]
  BY <1>4 DEF EndsAre
<1>6. n \in 1..(N + 1) /\ n \in 0..(N + 1) /\ n - 1 \in 0..(N + 1)
  BY <1>1, <1>3, <1>5
<1>7. PICK a \in Nat, c \in Nat : a = E[n - 1] /\ c = E[n] /\ a < c /\ c <= Len(t) + 1
  <2>1. PICK k \in 0..(N + 1) : k = n - 1
    BY <1>6
  <2>2. E[k] \in 0..(Len(t) + 1) /\ E[n] \in 0..(Len(t) + 1)
    BY <1>5, <1>6
  <2>3. E[k] < E[n]
    BY <1>5, <1>6, <2>1
  <2>4. E[k] \in Nat /\ E[n] \in Nat /\ E[n] <= Len(t) + 1
    BY <1>2, <2>2
  <2>. QED
    BY <2>1, <2>3, <2>4
<1>8. PICK e \in Nat : c = e + 1 /\ e = c - 1 /\ a <= e /\ e <= Len(t)
  <2>1. c - 1 \in Nat /\ c = (c - 1) + 1 /\ a <= c - 1 /\ c - 1 <= Len(t)
    BY <1>2, <1>7
  <2>. QED
    BY <2>1
<1>9. CutAt(t, cuts)[n] = SubSeq(t, a + 1, e)
  BY <1>3, <1>6, <1>7, <1>8 DEF CutAt
<1>10. a = 0 \/ a \in cuts
  <2>1. CASE n = 1
    BY <1>5, <1>7, <2>1
  <2>2. CASE n # 1
    <3>1. n - 1 \in 1..N
      BY <1>5, <1>6, <2>2
    <3>. QED
      BY <1>5, <1>7, <3>1
  <2>. QED
    BY <2>1, <2>2
<1>11. e = Len(t) \/ e + 1 \in cuts
  <2>1. CASE n = N + 1
    <3>1. c = Len(t) + 1
      BY <1>5, <1>7, <2>1
    <3>. QED
      BY <1>2, <1>8, <3>1
  <2>2. CASE n # N + 1
    <3>1. n \in 1..N
      BY <1>5, <1>6, <2>2
    <3>. QED
      BY <1>5, <1>7, <1>8, <3>1
  <2>. QED
    BY <2>1, <2>2
<1>12. ASSUME NEW i \in (a + 1)..e, i \in cuts PROVE FALSE
  <2>1. i <= a \/ i >= c
    BY <1>5, <1>6, <1>7, <1>12
  <2>. QED
    BY <1>7, <1>8, <2>1
<1>13. PartAt(t, ch, n, a, e)
  BY <1>1, <1>3, <1>7, <1>8, <1>9, <1>10, <1>11, <1>12 DEF PartAt
<1>. QED
  BY <1>13

\* A scan comes to the beginning of a part with nothing open, and to its end.
LEMMA PartReached ==
    ASSUME NEW t \in SQLTexts, NEW ch, NEW n, NEW a, NEW e, PartAt(t, ch, n, a, e)
    PROVE  Reaches(t, 1, a + 1) /\ Reaches(t, 1, e + 1) /\ Nesting(t, 1)[a] = 0
<1>1. /\ a \in Nat /\ e \in Nat /\ a <= e /\ e <= Len(t) /\ Len(t) \in Nat
      /\ a = 0 \/ a \in TopLevel(t, ch)
      /\ e = Len(t) \/ e + 1 \in TopLevel(t, ch)
  BY TextFacts DEF PartAt
<1>2. 1 \in 1..(Len(t) + 1)
  BY <1>1
<1>3. Reaches(t, 1, a + 1)
  <2>1. CASE a = 0
    <3>1. a + 1 = 1 /\ (1 \in Stops(t, 1) \/ Len(t) = 0)
      BY <1>1, <1>2, <2>1, StopsRange
    <3>. QED
      BY <3>1 DEF Reaches
  <2>2. CASE a \in TopLevel(t, ch)
    <3>1. a \in Code(t, 1)
      BY <2>2, TopLevelRange
    <3>. QED
      BY <1>2, <3>1, ReachesCode
  <2>. QED
    BY <1>1, <2>1, <2>2
<1>4. Reaches(t, 1, e + 1)
  BY <1>1, TopLevelRange DEF Reaches, Code
<1>5. Nesting(t, 1)[a] = 0
  BY <1>1, NestingDef, TopLevelRange
<1>. QED
  BY <1>3, <1>4, <1>5

\* A scan from the beginning comes to the first position, or ends there.
LEMMA ReachesFirst ==
    ASSUME NEW t \in SQLTexts
    PROVE  Reaches(t, 1, 1) /\ 1 \in 1..(Len(t) + 1)
<1>1. Len(t) \in Nat /\ 1 \in 1..(Len(t) + 1)
  BY TextFacts
<1>2. 1 <= Len(t) => 1 \in Stops(t, 1)
  BY <1>1, StopsRange
<1>. QED
  BY <1>1, <1>2 DEF Reaches

\* What is left of a part has the code and the depth it had in the text.
LEMMA PartAlike ==
    ASSUME NEW t \in SQLTexts, NEW ch, NEW n, NEW a, NEW e, PartAt(t, ch, n, a, e),
           NEW o \in Nat, NEW s, Within(SubSeq(t, a + 1, e), o, s)
    PROVE  /\ Passage(t, 1, a + o, s, 0, Len(s)) /\ a + o + Len(s) <= e
           /\ CodeAlike(t, 1, a + o, s, 1, 0, Len(s))
           /\ DeeperBy(t, 1, a + o, s, 1, 0, Len(s), 0)
<1>1. /\ a \in Nat /\ e \in Nat /\ a <= e /\ e <= Len(t) /\ Len(t) \in Nat /\ 1 <= a + 1
      /\ Reaches(t, 1, a + 1) /\ Reaches(t, 1, e + 1) /\ Nesting(t, 1)[a] = 0
  <2>1. Reaches(t, 1, a + 1) /\ Reaches(t, 1, e + 1) /\ Nesting(t, 1)[a] = 0
    BY PartReached
  <2>2. a \in Nat /\ e \in Nat /\ a <= e /\ e <= Len(t) /\ Len(t) \in Nat
    BY TextFacts DEF PartAt
  <2>. QED
    BY <2>1, <2>2
<1>2. 1 \in 1..(Len(t) + 1)
  BY <1>1
<1>3. /\ Passage(t, 1, a + o, s, 0, Len(s))
      /\ a + o + Len(s) <= e /\ s \in SQLTexts
      /\ \A k \in (a + 1)..(a + o) : t[k] \in Spaces
  BY <1>1, <1>2, PartPassage
<1>4. PICK c \in Nat, m \in Nat : c = a + o /\ m = Len(s) /\ c + m <= e
  <2>1. a + o \in Nat /\ Len(s) \in Nat
    BY <1>1, <1>3, TextFacts
  <2>. QED
    BY <1>3, <2>1
<1>5. CodeAlike(t, 1, c, s, 1, 0, m)
  <2>1. Passage(t, 1, c, s, 0, m)
    BY <1>3, <1>4
  <2>2. Reaches(s, 1, 0 + 1) /\ 1 \in 1..(0 + 1)
    BY <1>3, ReachesFirst
  <2>. QED
    BY <2>1, <2>2, PassageCode
<1>6. Nesting(t, 1)[c] = 0
  <2>1. a \in 0..Len(t) /\ c \in a..Len(t)
    BY <1>1, <1>4
  <2>2. \A k \in (a + 1)..c : t[k] \notin {"(", ")"}
    BY <1>3, <1>4 DEF Spaces
  <2>3. Nesting(t, 1)[c] = Nesting(t, 1)[a]
    BY <2>1, <2>2, DepthStays
  <2>. QED
    BY <1>1, <2>3
<1>7. Nesting(s, 1)[0] = 0
  BY <1>3, NestingDef
<1>8. \A i \in 0..m : Nesting(t, 1)[i + c] >= 0
  <2>. TAKE i \in 0..m
  <2>1. i + c \in 0..Len(t)
    BY <1>1, <1>4
  <2>2. Nesting(t, 1)[i + c] \in Nat
    BY <2>1, NestingDef
  <2>. QED
    BY <2>2
<1>9. Nesting(t, 1)[c] = Nesting(s, 1)[0] + 0
  BY <1>6, <1>7
<1>10. DeeperBy(t, 1, c, s, 1, 0, m, 0)
  BY <1>5, <1>8, <1>9, NestingAlike
<1>. QED
  BY <1>3, <1>4, <1>5, <1>10

\* Nothing is left in a part to cut it again.
LEMMA PartUncut ==
    ASSUME NEW t \in SQLTexts, NEW ch, NEW n, NEW a, NEW e, PartAt(t, ch, n, a, e),
           NEW o \in Nat, NEW s, Within(SubSeq(t, a + 1, e), o, s)
    PROVE  TopLevel(s, ch) = {}
<1>1. PICK m, c : m = Len(s) /\ c = a + o
  OBVIOUS
<1>2. /\ CodeAlike(t, 1, c, s, 1, 0, m) /\ DeeperBy(t, 1, c, s, 1, 0, m, 0) /\ c + m <= e
  BY <1>1, PartAlike
<1>3. /\ s \in SQLTexts /\ c \in Nat /\ m \in Nat /\ a \in Nat /\ e \in Nat /\ a <= c
      /\ \A i \in 1..m : s[i + 0] = t[i + c] /\ (i + 0 \in Code(s, 1) <=> i + c \in Code(t, 1))
  BY <1>1, <1>2 DEF CodeAlike, PartAt
<1>4. \A i \in 0..m : Nesting(t, 1)[i + c] = Nesting(s, 1)[i + 0] + 0
  BY <1>2 DEF DeeperBy
<1>5. ASSUME NEW i \in TopLevel(s, ch) PROVE FALSE
  <2>1. i \in 1..m /\ i \in 0..m /\ i + 0 = i
    <3>1. i \in 1..Len(s)
      BY <1>3, TopLevelRange
    <3>. QED
      BY <1>1, <1>3, <3>1
  <2>2. i \in Code(s, 1) /\ s[i] = ch /\ Nesting(s, 1)[i] = 0
    BY <1>3, TopLevelRange
  <2>3. i + c \in Code(t, 1) /\ t[i + c] = ch /\ Nesting(t, 1)[i + c] = 0
    BY <1>3, <1>4, <2>1, <2>2
  <2>4. i + c \in TopLevel(t, ch)
    BY <2>3, TopLevelRange
  <2>5. i + c \in (a + 1)..e
    BY <1>2, <1>3, <2>1
  <2>. QED
    BY <2>4, <2>5 DEF PartAt
<1>. QED
  BY <1>5

-----------------------------------------------------------------------------
(* Statements stand alone.                                                 *)

\* The parts kept of the first n.
KeptAfter(parts, n, kept) ==
    IF Trim(parts[n]) = <<>> THEN kept ELSE Append(kept, Trim(parts[n]))

\* What trimming leaves is a text.
LEMMA TrimType ==
    ASSUME NEW w \in SQLTexts
    PROVE  Trim(w) \in SQLTexts
<1>1. PICK o \in Nat : Within(w, o, Trim(w))
  BY TrimWithin
<1>. QED
  BY <1>1 DEF Within, Stretch

\* Trimmed is what its recursive definition says.
LEMMA TrimmedDef ==
    ASSUME NEW parts \in Seq(SQLTexts)
    PROVE  \E kept \in [0..Len(parts) -> Seq(SQLTexts)] :
               /\ kept[0] = <<>>
               /\ \A n \in 1..Len(parts) : kept[n] = KeptAfter(parts, n, kept[n - 1])
               /\ Trimmed(parts) = kept[Len(parts)]
<1>1. PICK l \in Nat, V \in {Seq(SQLTexts)}, basis \in {<<>>} : l = Len(parts)
  BY LenProperties
<1>2. \A n \in 1..l : parts[n] \in SQLTexts
  BY <1>1, ElementOfSeq
<1>. DEFINE G == [x \in (1..l) \X V |-> KeptAfter(parts, x[1], x[2])]
<1>3. ASSUME NEW n \in 1..l, NEW k \in V PROVE KeptAfter(parts, n, k) \in V
  <2>1. PICK s \in SQLTexts : s = Trim(parts[n])
    BY <1>2, TrimType
  <2>2. Append(k, s) \in V
    BY <1>1, AppendProperties
  <2>. QED
    BY <2>1, <2>2 DEF KeptAfter
<1>4. G \in [(1..l) \X V -> V] /\ basis \in V
  BY <1>1, <1>3
<1>5. \A n \in 1..l, k \in V : G[<<n, k>>] = KeptAfter(parts, n, k)
  OBVIOUS
<1>. HIDE DEF G
<1>6. PICK f \in [0..l -> V] : IsForward(f, l, basis, G)
  BY <1>4, ForwardExists
<1>7. ASSUME NEW n \in 0..l, n # 0 PROVE G[<<n, f[n - 1]>>] = KeptAfter(parts, n, f[n - 1])
  <2>1. n \in 1..l /\ f[n - 1] \in V
    BY <1>7
  <2>. QED
    BY <1>5, <2>1
<1>8. f = [n \in 0..l |-> IF n = 0 THEN <<>> ELSE KeptAfter(parts, n, f[n - 1])]
  BY <1>1, <1>6, <1>7 DEF IsForward
<1>. DEFINE F(g) == [n \in 0..Len(parts) |->
                        IF n = 0 THEN <<>>
                        ELSE IF Trim(parts[n]) = <<>> THEN g[n - 1]
                        ELSE Append(g[n - 1], Trim(parts[n]))]
<1>9. f = F(f)
  BY <1>1, <1>8 DEF KeptAfter
<1>10. Trimmed(parts) = (CHOOSE g : g = F(g))[Len(parts)]
  BY DEF Trimmed
<1>11. PICK g : g = F(g) /\ Trimmed(parts) = g[Len(parts)]
  <2>1. \E h : h = F(h)
    BY <1>9
  <2>. HIDE DEF F
  <2>. QED
    BY <1>10, <2>1
<1>12. \A n \in 0..l : g[n] = IF n = 0 THEN <<>> ELSE KeptAfter(parts, n, g[n - 1])
  BY <1>1, <1>11 DEF KeptAfter
<1>13. DOMAIN g = 0..l /\ g = [n \in 0..l |-> g[n]]
  BY <1>1, <1>11
<1>. DEFINE T == {n \in Nat : n <= l => g[n] \in V}
<1>14. ASSUME NEW n \in Nat, \A j \in Nat : j < n => j \in T PROVE n \in T
  <2>1. CASE n = 0
    <3>1. g[n] = <<>>
      BY <1>12, <2>1
    <3>2. <<>> \in V
      BY <1>1
    <3>. QED
      BY <3>1, <3>2
  <2>2. ASSUME n # 0, n <= l PROVE g[n] \in V
    <3>1. n - 1 \in Nat /\ n - 1 < n /\ n - 1 <= l /\ n \in 1..l /\ n \in 0..l
      BY <2>2
    <3>2. g[n - 1] \in V
      BY <1>14, <3>1
    <3>3. g[n] = KeptAfter(parts, n, g[n - 1])
      BY <1>12, <2>2, <3>1
    <3>. QED
      BY <1>3, <3>1, <3>2, <3>3
  <2>. QED
    BY <2>1, <2>2
<1>15. \A n \in Nat : n \in T
  <2>. HIDE DEF T
  <2>. QED
    BY <1>14, Upward
<1>16. g \in [0..l -> V]
  BY <1>13, <1>15
<1>17. g[0] = <<>> /\ \A n \in 1..l : g[n] = KeptAfter(parts, n, g[n - 1])
  BY <1>12
<1>. QED
  BY <1>1, <1>11, <1>16, <1>17

\* What is kept are parts trimmed, none of them empty.
LEMMA TrimmedFacts ==
    ASSUME NEW parts \in Seq(SQLTexts)
    PROVE  /\ Trimmed(parts) \in Seq(SQLTexts)
           /\ \A k \in 1..Len(Trimmed(parts)) : \E n \in 1..Len(parts) :
                 Trimmed(parts)[k] = Trim(parts[n]) /\ Trim(parts[n]) # <<>>
<1>1. PICK l \in Nat : l = Len(parts)
  BY LenProperties
<1>2. PICK kept \in [0..l -> Seq(SQLTexts)] :
        /\ kept[0] = <<>>
        /\ \A n \in 1..l : kept[n] = KeptAfter(parts, n, kept[n - 1])
        /\ Trimmed(parts) = kept[l]
  BY <1>1, TrimmedDef
<1>3. \A n \in 1..l : parts[n] \in SQLTexts
  BY <1>1, ElementOfSeq
<1>. DEFINE Good(s) == \A k \in 1..Len(s) : \E n \in 1..l : s[k] = Trim(parts[n]) /\ Trim(parts[n]) # <<>>
            T == {n \in Nat : n <= l => Good(kept[n])}
<1>4. ASSUME NEW n \in Nat, \A j \in Nat : j < n => j \in T PROVE n \in T
  <2>1. CASE n = 0
    <3>1. Len(kept[n]) = 0
      BY <1>2, <2>1
    <3>. QED
      BY <3>1
  <2>2. ASSUME n # 0, n <= l PROVE Good(kept[n])
    <3>1. n - 1 \in Nat /\ n - 1 < n /\ n - 1 <= l /\ n \in 1..l /\ n - 1 \in 0..l
      BY <2>2
    <3>2. PICK old \in Seq(SQLTexts), s \in SQLTexts : old = kept[n - 1] /\ s = Trim(parts[n])
      BY <1>2, <1>3, <3>1, TrimType
    <3>3. Good(old)
      <4>1. Good(kept[n - 1])
        BY <1>4, <3>1
      <4>. QED
        BY <3>2, <4>1
    <3>4. kept[n] = IF s = <<>> THEN old ELSE Append(old, s)
      BY <1>2, <3>1, <3>2 DEF KeptAfter
    <3>5. CASE s = <<>>
      BY <3>3, <3>4, <3>5
    <3>6. CASE s # <<>>
      <4>1. PICK new : new = Append(old, s) /\ new = kept[n]
        BY <3>4, <3>6
      <4>2. /\ Len(new) = Len(old) + 1 /\ Len(old) \in Nat
            /\ \A k \in 1..Len(old) : new[k] = old[k]
            /\ new[Len(old) + 1] = s
        <5>1. /\ Len(Append(old, s)) = Len(old) + 1
              /\ \A k \in 1..Len(old) : Append(old, s)[k] = old[k]
              /\ Append(old, s)[Len(old) + 1] = s
          BY AppendProperties
        <5>2. Len(old) \in Nat
          BY LenProperties
        <5>. QED
          BY <4>1, <5>1, <5>2
      <4>3. ASSUME NEW k \in 1..Len(new)
            PROVE  \E j \in 1..l : new[k] = Trim(parts[j]) /\ Trim(parts[j]) # <<>>
        <5>1. CASE k = Len(old) + 1
          BY <3>1, <3>2, <3>6, <4>2, <5>1
        <5>2. CASE k # Len(old) + 1
          <6>1. k \in 1..Len(old)
            BY <4>2, <5>2
          <6>2. PICK j \in 1..l : old[k] = Trim(parts[j]) /\ Trim(parts[j]) # <<>>
            BY <3>3, <6>1
          <6>. QED
            BY <4>2, <6>1, <6>2
        <5>. QED
          BY <5>1, <5>2
      <4>. QED
        BY <4>1, <4>3
    <3>. QED
      BY <3>5, <3>6
  <2>. HIDE DEF Good
  <2>. QED
    BY <2>1, <2>2
<1>5. \A n \in Nat : n \in T
  <2>. HIDE DEF T
  <2>. QED
    BY <1>4, Upward
<1>6. Good(kept[l]) /\ kept[l] \in Seq(SQLTexts)
  <2>. HIDE DEF Good
  <2>. QED
    BY <1>2, <1>5
<1>. QED
  BY <1>1, <1>2, <1>6

\* One part that needs no trimming.
LEMMA TrimmedOne ==
    ASSUME NEW s \in SQLTexts, Trim(s) = s, s # <<>>
    PROVE  Trimmed(<<s>>) = <<s>>
<1>1. PICK parts : parts = <<s>>
  OBVIOUS
<1>2. parts \in Seq(SQLTexts) /\ Len(parts) = 1 /\ parts[1] = s
  BY <1>1
<1>3. PICK kept \in [0..Len(parts) -> Seq(SQLTexts)] :
        /\ kept[0] = <<>>
        /\ \A n \in 1..Len(parts) : kept[n] = KeptAfter(parts, n, kept[n - 1])
        /\ Trimmed(parts) = kept[Len(parts)]
  BY <1>2, TrimmedDef
<1>4. kept[1] = KeptAfter(parts, 1, kept[0])
  <2>1. 1 \in 1..Len(parts) /\ 1 - 1 = 0
    BY <1>2
  <2>. QED
    BY <1>3, <2>1
<1>5. kept[1] = Append(<<>>, s)
  BY <1>2, <1>3, <1>4 DEF KeptAfter
<1>6. Append(<<>>, s) = <<s>>
  OBVIOUS
<1>. QED
  BY <1>1, <1>2, <1>3, <1>5, <1>6

\* A text without cuts is its only part.
LEMMA CutNowhere ==
    ASSUME NEW s \in SQLTexts
    PROVE  CutAt(s, {}) = <<s>>
<1>1. Cardinality({}) = 0
  BY FS_EmptySet
<1>2. {} \in SUBSET (1..Len(s))
  OBVIOUS
<1>3. EndsAre(s, {}, 0, Ends(s, {}))
  BY <1>1, <1>2, EndsFacts
<1>4. Ends(s, {})[0] = 0 /\ Ends(s, {})[1] = Len(s) + 1
  BY <1>3 DEF EndsAre
<1>5. CutAt(s, {}) = [n \in 1..1 |-> SubSeq(s, Ends(s, {})[n - 1] + 1, Ends(s, {})[n] - 1)]
  BY <1>1 DEF CutAt
<1>6. \A n \in 1..1 : SubSeq(s, Ends(s, {})[n - 1] + 1, Ends(s, {})[n] - 1) = SubSeq(s, 1, Len(s))
  <2>1. Len(s) \in Nat
    BY TextFacts
  <2>2. Ends(s, {})[1 - 1] + 1 = 1 /\ Ends(s, {})[1] - 1 = Len(s)
    BY <1>4, <2>1
  <2>. QED
    BY <2>2
<1>7. SubSeq(s, 1, Len(s)) = s
  BY SubSeqFull DEF SQLTexts
<1>8. CutAt(s, {}) = [n \in 1..1 |-> s]
  BY <1>5, <1>6, <1>7
<1>. QED
  BY <1>8

\* The parts of a text are texts.
LEMMA CutType ==
    ASSUME NEW t \in SQLTexts, NEW ch
    PROVE  /\ CutAt(t, TopLevel(t, ch)) \in Seq(SQLTexts)
           /\ Cardinality(TopLevel(t, ch)) \in Nat
           /\ Len(CutAt(t, TopLevel(t, ch))) = Cardinality(TopLevel(t, ch)) + 1
<1>1. PICK N, parts : N = Cardinality(TopLevel(t, ch)) /\ parts = CutAt(t, TopLevel(t, ch))
  OBVIOUS
<1>2. N \in Nat /\ DOMAIN parts = 1..(N + 1)
  BY <1>1, CutLength, TopLevelRange
<1>3. ASSUME NEW n \in 1..(N + 1) PROVE parts[n] \in SQLTexts
  <2>1. PICK a, e : PartAt(t, ch, n, a, e)
    BY <1>1, PartExists
  <2>2. a \in Nat /\ e \in Nat /\ a <= e /\ e <= Len(t) /\ parts[n] = SubSeq(t, a + 1, e)
    BY <1>1, <2>1 DEF PartAt
  <2>. QED
    BY <2>2, SubText
<1>4. parts = [n \in 1..(N + 1) |-> parts[n]]
  BY <1>1, <1>2 DEF CutAt
<1>5. parts \in [1..(N + 1) -> SQLTexts]
  BY <1>3, <1>4
<1>6. parts \in Seq(SQLTexts) /\ Len(parts) = N + 1
  BY <1>2, <1>5
<1>. QED
  BY <1>1, <1>2, <1>6

\* A statement, split alone, is one statement.
LEMMA StatementsAlone ==
    ASSUME NEW t \in SQLTexts, NEW k \in 1..Len(splitSQLStatements(t))
    PROVE  splitSQLStatements(splitSQLStatements(t)[k]) = <<splitSQLStatements(t)[k]>>
<1>1. PICK parts : parts = CutAt(t, TopLevel(t, ";")) /\ splitSQLStatements(t) = Trimmed(parts)
  BY DEF splitSQLStatements
<1>2. parts \in Seq(SQLTexts) /\ Len(parts) = Cardinality(TopLevel(t, ";")) + 1
  BY <1>1, CutType
<1>3. PICK s : s = splitSQLStatements(t)[k]
  OBVIOUS
<1>4. PICK n \in 1..Len(parts) : s = Trim(parts[n]) /\ s # <<>>
  <2>1. k \in 1..Len(Trimmed(parts)) /\ s = Trimmed(parts)[k]
    BY <1>1, <1>3
  <2>. QED
    BY <1>2, <2>1, TrimmedFacts
<1>5. PICK a, e : PartAt(t, ";", n, a, e)
  BY <1>2, PartExists
<1>6. parts[n] = SubSeq(t, a + 1, e) /\ parts[n] \in SQLTexts
  BY <1>1, <1>2, <1>5, ElementOfSeq DEF PartAt
<1>7. PICK o \in Nat : TrimsTo(parts[n], o, s)
  BY <1>4, <1>6, TrimFacts
<1>8. /\ s \in SQLTexts /\ Len(s) >= 1 /\ s[1] \notin Spaces /\ s[Len(s)] \notin Spaces
      /\ Within(SubSeq(t, a + 1, e), o, s)
  BY <1>6, <1>7 DEF TrimsTo, Within
<1>9. TopLevel(s, ";") = {}
  BY <1>5, <1>8, PartUncut
<1>10. Trim(s) = s
  BY <1>8, TrimAgain
<1>11. splitSQLStatements(s) = Trimmed(<<s>>)
  BY <1>8, <1>9, CutNowhere DEF splitSQLStatements
<1>12. Trimmed(<<s>>) = <<s>>
  BY <1>4, <1>8, <1>10, TrimmedOne
<1>. QED
  BY <1>3, <1>11, <1>12

-----------------------------------------------------------------------------
(* Items of a body stand alone.                                            *)

\* The text between parentheses that open at p has the code it has there, one
\* less deep.
BodyAt(t, p, c, w) ==
    /\ Closes(t, p, c) /\ w \in SQLTexts /\ Len(w) = c - p - 1
    /\ Passage(t, p, p, w, 0, Len(w))
    /\ CodeAlike(t, p, p, w, 1, 0, Len(w)) /\ DeeperBy(t, p, p, w, 1, 0, Len(w), 1)

\* What is between a parenthesis and the one that closes it is such a body.
LEMMA BodyAlike ==
    ASSUME NEW t \in SQLTexts, NEW p, NEW c, Closes(t, p, c)
    PROVE  BodyAt(t, p, c, SubSeq(t, p + 1, c - 1))
<1>1. /\ p \in 1..Len(t) /\ t[p] = "(" /\ Len(t) \in Nat
      /\ c \in (p + 1)..Len(t) /\ c \in Code(t, p)
      /\ Nesting(t, p)[c - 1] = 1
      /\ \A i \in p..(c - 1) : Nesting(t, p)[i] >= 1
  BY TextFacts DEF Closes
<1>2. PICK e \in Nat : e = c - 1 /\ p <= e /\ e <= Len(t) /\ e + 1 = c
  <2>1. c - 1 \in Nat /\ p <= c - 1 /\ c - 1 <= Len(t) /\ (c - 1) + 1 = c
    BY <1>1
  <2>. QED
    BY <2>1
<1>3. PICK w : w = SubSeq(t, p + 1, e)
  OBVIOUS
<1>4. p \in 1..(Len(t) + 1) /\ p \in Nat /\ p <= p + 1
  BY <1>1
<1>5. w \in SQLTexts /\ Len(w) = e - p
  BY <1>2, <1>3, <1>4, SubText
<1>6. p \in Code(t, p) /\ Nesting(t, p)[p] = 1
  BY <1>1, DepthOpens
<1>7. Reaches(t, p, p + 1) /\ Reaches(t, p, e + 1)
  <2>1. Reaches(t, p, p + 1)
    BY <1>4, <1>6, ReachesCode
  <2>2. Reaches(t, p, c)
    BY <1>1 DEF Reaches, Code
  <2>. QED
    BY <1>2, <2>1, <2>2
<1>8. Passage(t, p, p, w, 0, Len(w))
  <2>1. Within(SubSeq(t, p + 1, e), 0, w)
    BY <1>3, <1>5, AllWithin
  <2>2. Passage(t, p, p + 0, w, 0, Len(w))
    BY <1>2, <1>4, <1>7, <2>1, PartPassage
  <2>3. p + 0 = p
    BY <1>4
  <2>. QED
    BY <2>2, <2>3
<1>9. CodeAlike(t, p, p, w, 1, 0, Len(w))
  <2>1. Reaches(w, 1, 0 + 1) /\ 1 \in 1..(0 + 1)
    BY <1>5, ReachesFirst
  <2>. QED
    BY <1>8, <2>1, PassageCode
<1>10. DeeperBy(t, p, p, w, 1, 0, Len(w), 1)
  <2>1. Nesting(w, 1)[0] = 0
    BY <1>5, NestingDef
  <2>2. Nesting(t, p)[p] = Nesting(w, 1)[0] + 1
    BY <1>6, <2>1
  <2>3. ASSUME NEW i \in 0..Len(w) PROVE Nesting(t, p)[i + p] >= 1
    <3>1. i + p \in p..(c - 1)
      BY <1>1, <1>2, <1>5, <2>3
    <3>. QED
      BY <1>1, <3>1
  <2>. QED
    BY <1>9, <2>2, <2>3, NestingAlike
<1>11. Len(w) = c - p - 1
  BY <1>1, <1>2, <1>5
<1>. QED
  BY <1>2, <1>3, <1>5, <1>8, <1>9, <1>10, <1>11 DEF BodyAt

\* Where the items of a body begin and end, in the text it is in.
LEMMA ItemReached ==
    ASSUME NEW t \in SQLTexts, NEW p, NEW c, NEW w, BodyAt(t, p, c, w),
           NEW ch \in Characters \ {"(", ")"}, NEW n, NEW a, NEW e,
           PartAt(w, ch, n, a, e)
    PROVE  /\ a \in Nat /\ e \in Nat /\ a <= e /\ e <= Len(w) /\ e + p < c
           /\ Reaches(t, p, a + p + 1) /\ e + p + 1 \in Stops(t, p)
           /\ Nesting(t, p)[a + p] = 1 /\ Nesting(t, p)[e + p] = 1
<1>1. /\ p \in 1..Len(t) /\ t[p] = "(" /\ Len(t) \in Nat /\ w \in SQLTexts /\ Len(w) \in Nat
      /\ c \in (p + 1)..Len(t) /\ c \in Code(t, p) /\ Len(w) = c - p - 1
      /\ Nesting(t, p)[c - 1] = 1
  BY TextFacts DEF BodyAt, Closes
<1>2. /\ a \in Nat /\ e \in Nat /\ a <= e /\ e <= Len(w)
      /\ a = 0 \/ a \in TopLevel(w, ch)
      /\ e = Len(w) \/ e + 1 \in TopLevel(w, ch)
  BY DEF PartAt
<1>3. \A i \in 1..Len(w) : i \in Code(w, 1) <=> i + p \in Code(t, p)
  <2>1. \A i \in 1..Len(w) : i + 0 \in Code(w, 1) <=> i + p \in Code(t, p)
    BY DEF BodyAt, CodeAlike
  <2>2. \A i \in 1..Len(w) : i + 0 = i
    OBVIOUS
  <2>. QED
    BY <2>1, <2>2
<1>4. \A i \in 0..Len(w) : Nesting(t, p)[i + p] = Nesting(w, 1)[i] + 1
  <2>1. \A i \in 0..Len(w) : Nesting(t, p)[i + p] = Nesting(w, 1)[i + 0] + 1
    BY DEF BodyAt, DeeperBy
  <2>2. \A i \in 0..Len(w) : i + 0 = i
    OBVIOUS
  <2>. QED
    BY <2>1, <2>2
<1>5. p \in 1..(Len(t) + 1)
  BY <1>1
<1>6. \A i \in TopLevel(w, ch) : /\ i \in 1..Len(w) /\ i \in Code(w, 1) /\ w[i] = ch
                                  /\ Nesting(w, 1)[i] = 0
  BY <1>1, TopLevelRange
<1>7. Reaches(t, p, a + p + 1) /\ Nesting(t, p)[a + p] = 1
  <2>1. CASE a = 0
    <3>1. p \in Code(t, p) /\ Nesting(t, p)[p] = 1
      BY <1>1, DepthOpens
    <3>2. Reaches(t, p, p + 1)
      BY <1>5, <3>1, ReachesCode
    <3>3. a + p = p
      BY <1>1, <2>1
    <3>. QED
      BY <3>1, <3>2, <3>3
  <2>2. CASE a \in TopLevel(w, ch)
    <3>1. PICK x \in Code(t, p) : x = a + p
      BY <1>3, <1>6, <2>2
    <3>2. Reaches(t, p, x + 1)
      BY <1>5, ReachesCode
    <3>3. a \in 0..Len(w) /\ Nesting(w, 1)[a] = 0
      BY <1>6, <2>2
    <3>4. Nesting(t, p)[a + p] = 0 + 1
      BY <1>4, <3>3
    <3>. QED
      BY <3>1, <3>2, <3>4
  <2>. QED
    BY <1>2, <2>1, <2>2
<1>8. e + p + 1 \in Stops(t, p) /\ Nesting(t, p)[e + p] = 1
  <2>1. CASE e = Len(w)
    <3>1. e + p + 1 = c /\ e + p = c - 1
      BY <1>1, <2>1
    <3>. QED
      BY <1>1, <3>1 DEF Code
  <2>2. CASE e + 1 \in TopLevel(w, ch)
    <3>1. PICK x \in 1..Len(w) : x = e + 1 /\ x - 1 = e /\ x + p = e + p + 1
      <4>1. e + 1 \in 1..Len(w) /\ (e + 1) - 1 = e /\ (e + 1) + p = e + p + 1
        BY <1>1, <1>2, <1>6, <2>2
      <4>. QED
        BY <4>1
    <3>2. x \in Code(w, 1) /\ w[x] = ch /\ Nesting(w, 1)[x] = 0
      BY <1>6, <2>2, <3>1
    <3>3. Nesting(w, 1)[x] = DepthAfter(w, Code(w, 1), x, Nesting(w, 1)[x - 1])
      BY <1>1, NestingDef
    <3>4. Nesting(w, 1)[e] = 0
      BY <3>1, <3>2, <3>3 DEF DepthAfter
    <3>5. e \in 0..Len(w)
      BY <1>2
    <3>6. Nesting(t, p)[e + p] = 0 + 1
      BY <1>4, <3>4, <3>5
    <3>. QED
      BY <1>3, <3>1, <3>2, <3>6 DEF Code
  <2>. QED
    BY <1>2, <2>1, <2>2
<1>9. e + p < c
  BY <1>1, <1>2
<1>. QED
  BY <1>2, <1>7, <1>8, <1>9

\* A text, put in parentheses.
Bracketed(v, x) == v = <<"(">> \o x \o <<")">>

\* Its characters.
LEMMA InParentheses ==
    ASSUME NEW x \in SQLTexts, NEW v, Bracketed(v, x)
    PROVE  /\ v \in SQLTexts /\ Len(v) = Len(x) + 2 /\ v[1] = "(" /\ v[Len(x) + 2] = ")"
           /\ \A i \in 1..Len(x) : v[i + 1] = x[i]
<1>1. PICK m \in Nat : m = Len(x)
  BY TextFacts
<1>2. x \in Seq(Characters) /\ "(" \in Characters /\ ")" \in Characters
  BY DEF Characters, SQLTexts
<1>3. PICK b, d : b = <<"(">> /\ d = <<")">>
  OBVIOUS
<1>4. b \in Seq(Characters) /\ d \in Seq(Characters) /\ Len(b) = 1 /\ Len(d) = 1
      /\ b[1] = "(" /\ d[1] = ")"
  BY <1>2, <1>3
<1>5. PICK y : y = b \o x
  OBVIOUS
<1>14. /\ b \o x \in Seq(Characters) /\ Len(b \o x) = Len(b) + Len(x)
       /\ \A i \in 1..(Len(b) + Len(x)) : (b \o x)[i] = IF i <= Len(b) THEN b[i] ELSE x[i - Len(b)]
  BY <1>2, <1>4, ConcatProperties
<1>6. /\ y \in Seq(Characters) /\ Len(y) = m + 1 /\ y[1] = "("
      /\ \A i \in 1..m : y[i + 1] = x[i]
  <2>1. y \in Seq(Characters) /\ Len(y) = 1 + m
    BY <1>1, <1>4, <1>5, <1>14
  <2>2. \A i \in 1..Len(y) : y[i] = IF i <= 1 THEN b[i] ELSE x[i - 1]
    BY <1>1, <1>4, <1>5, <1>14, <2>1
  <2>3. ASSUME NEW i \in 1..m PROVE y[i + 1] = x[i]
    <3>1. i + 1 \in 1..Len(y) /\ ~(i + 1 <= 1) /\ (i + 1) - 1 = i
      BY <1>1, <2>1
    <3>. QED
      BY <2>2, <3>1
  <2>4. 1 \in 1..Len(y)
    BY <1>1, <2>1
  <2>. QED
    BY <1>1, <1>4, <2>1, <2>2, <2>3, <2>4
<1>7. v = y \o d
  BY <1>3, <1>5 DEF Bracketed
<1>15. /\ y \o d \in Seq(Characters) /\ Len(y \o d) = Len(y) + Len(d)
       /\ \A i \in 1..(Len(y) + Len(d)) : (y \o d)[i] = IF i <= Len(y) THEN y[i] ELSE d[i - Len(y)]
  BY <1>4, <1>6, ConcatProperties
<1>8. v \in Seq(Characters) /\ Len(v) = m + 2
  BY <1>1, <1>4, <1>6, <1>7, <1>15
<1>9. \A i \in 1..Len(v) : v[i] = IF i <= Len(y) THEN y[i] ELSE d[i - Len(y)]
  BY <1>1, <1>4, <1>6, <1>7, <1>8, <1>15
<1>10. \A i \in 1..(m + 1) : v[i] = y[i]
  BY <1>1, <1>6, <1>8, <1>9
<1>11. v[m + 2] = ")"
  <2>1. m + 2 \in 1..Len(v) /\ ~(m + 2 <= Len(y)) /\ (m + 2) - Len(y) = 1
    BY <1>1, <1>6, <1>8
  <2>. QED
    BY <1>4, <1>9, <2>1
<1>12. v[1] = "("
  BY <1>1, <1>6, <1>10
<1>13. ASSUME NEW i \in 1..m PROVE v[i + 1] = x[i]
  <2>1. i + 1 \in 1..(m + 1)
    BY <1>1
  <2>. QED
    BY <1>6, <1>10, <2>1
<1>. QED
  BY <1>1, <1>8, <1>11, <1>12, <1>13 DEF SQLTexts

\* x is what is at a + 1 .. e.
ItemFrom(x, w, a, e) == x = SubSeq(w, a + 1, e)

\* An item of a body, put in parentheses, closes what it opens.
LEMMA ItemAlone ==
    ASSUME NEW t \in SQLTexts, NEW p, NEW c, NEW w, BodyAt(t, p, c, w),
           NEW ch \in Characters \ {"(", ")"}, NEW n, NEW a, NEW e,
           PartAt(w, ch, n, a, e),
           NEW x, ItemFrom(x, w, a, e)
    PROVE  parenthesizedSQLSpan(<<"(">> \o x \o <<")">>, 1) = Len(x) + 3
<1>1. /\ p \in 1..Len(t) /\ Len(t) \in Nat /\ w \in SQLTexts /\ Len(w) \in Nat
      /\ c \in (p + 1)..Len(t) /\ Len(w) = c - p - 1
      /\ \A i \in p..(c - 1) : Nesting(t, p)[i] >= 1
      /\ Stretch(t, p, w, 0, Len(w))
  BY TextFacts, PassageFacts DEF BodyAt, Closes
<1>2. /\ a \in Nat /\ e \in Nat /\ a <= e /\ e <= Len(w) /\ e + p < c
      /\ Reaches(t, p, a + p + 1) /\ e + p + 1 \in Stops(t, p)
      /\ Nesting(t, p)[a + p] = 1 /\ Nesting(t, p)[e + p] = 1
  BY ItemReached
<1>4. PICK m \in Nat, A \in Nat : m = e - a /\ A = a + p /\ A + m = e + p
  <2>1. e - a \in Nat /\ a + p \in Nat /\ (a + p) + (e - a) = e + p
    BY <1>1, <1>2
  <2>. QED
    BY <2>1
<1>3. x \in SQLTexts /\ Len(x) = m /\ Stretch(w, a, x, 0, m)
  <2>1. /\ SubSeq(w, a + 1, e) \in SQLTexts /\ Len(SubSeq(w, a + 1, e)) = e - a
        /\ Stretch(w, a, SubSeq(w, a + 1, e), 0, e - a)
    BY <1>1, <1>2, SubText
  <2>. QED
    BY <1>4, <2>1 DEF ItemFrom
<1>5. \A i \in 1..m : x[i] = t[i + A]
  <2>. TAKE i \in 1..m
  <2>1. x[i + 0] = w[i + a] /\ i + 0 = i
    BY <1>3, <1>4 DEF Stretch
  <2>2. PICK j \in 1..Len(w) : j = i + a /\ j + 0 = j /\ j + p = i + A
    <3>1. i + a \in 1..Len(w) /\ (i + a) + 0 = i + a /\ (i + a) + p = i + A
      BY <1>1, <1>2, <1>4
    <3>. QED
      BY <3>1
  <2>3. w[j + 0] = t[j + p]
    BY <1>1 DEF Stretch
  <2>. QED
    BY <2>1, <2>2, <2>3
<1>6. PICK v : Bracketed(v, x) /\ v = <<"(">> \o x \o <<")">>
  BY DEF Bracketed
<1>7. /\ v \in SQLTexts /\ Len(v) = m + 2 /\ v[1] = "(" /\ v[m + 2] = ")"
      /\ \A i \in 1..m : v[i + 1] = x[i]
  BY <1>3, <1>6, InParentheses
<1>8. Passage(t, p, A, v, 1, m)
  <2>1. Stretch(t, A, v, 1, m)
    <3>1. A + m <= Len(t) /\ 1 + m <= Len(v)
      BY <1>1, <1>2, <1>4, <1>7
    <3>2. \A i \in 1..m : v[i + 1] = t[i + A]
      BY <1>3, <1>5, <1>7
    <3>. QED
      BY <1>4, <1>7, <3>1, <3>2 DEF Stretch
  <2>2. A + m + 1 = e + p + 1 /\ 1 + m + 1 = m + 2 /\ A + 1 = a + p + 1 /\ p \in 1..(A + 1)
    BY <1>1, <1>2, <1>4
  <2>3. ClosesHere(t, p, A, v, 1, m)
    BY <1>2, <1>7, <2>2 DEF ClosesHere
  <2>. QED
    BY <1>2, <2>1, <2>2, <2>3 DEF Passage
<1>9. 1 \in Code(v, 1) /\ Nesting(v, 1)[1] = 1 /\ Reaches(v, 1, 1 + 1)
  <2>1. 1 \in 1..Len(v) /\ 1 \in 1..(Len(v) + 1)
    BY <1>7
  <2>2. 1 \in Code(v, 1) /\ Nesting(v, 1)[1] = 1
    BY <1>7, <2>1, DepthOpens
  <2>. QED
    BY <1>7, <2>1, <2>2, ReachesCode
<1>10. CodeAlike(t, p, A, v, 1, 1, m)
  BY <1>8, <1>9, PassageCode
<1>11. m + 2 \in Code(v, 1)
  <2>1. ClosesHere(t, p, A, v, 1, m)
    <3>1. A + m + 1 = e + p + 1 /\ 1 + m + 1 = m + 2
      BY <1>1, <1>2, <1>4
    <3>. QED
      BY <1>2, <1>7, <3>1 DEF ClosesHere
  <2>2. 1 + m + 1 \in Stops(v, 1 + 1)
    BY <1>8, <2>1, PassageAlike
  <2>3. PICK z, y : z = 1 + 1 /\ y = m + 2 /\ y = 1 + m + 1
    OBVIOUS
  <2>4. 1 \in 1..(Len(v) + 1) /\ Reaches(v, 1, z) /\ y \in Stops(v, z)
    BY <1>7, <1>9, <2>2, <2>3
  <2>5. y \in Stops(v, 1)
    BY <1>7, <2>4, ReachesRest
  <2>6. Span(v, y) = y
    <3>1. y \in 1..Len(v) /\ v[y] = ")"
      BY <1>7, <2>3
    <3>2. v[y] \notin Quotes \cup {"-", "#", "/"}
      BY <3>1 DEF Quotes
    <3>3. v \in SQLTexts /\ y \in 1..Len(v)
      BY <1>7, <3>1
    <3>. QED
      BY <3>2, <3>3, PlainSpan
  <2>. QED
    BY <2>3, <2>5, <2>6 DEF Code
<1>12. DeeperBy(t, p, A, v, 1, 1, m, 0)
  <2>1. Nesting(t, p)[A] = Nesting(v, 1)[1] + 0
    BY <1>2, <1>4, <1>9
  <2>2. ASSUME NEW i \in 0..m PROVE Nesting(t, p)[i + A] >= 0
    <3>1. i + A \in p..(c - 1)
      BY <1>1, <1>2, <1>4
    <3>2. Nesting(t, p)[i + A] >= 1
      BY <1>1, <3>1
    <3>3. Nesting(t, p)[i + A] \in Nat
      <4>1. i + A \in 0..Len(t)
        BY <1>1, <3>1
      <4>. QED
        BY <4>1, NestingDef
    <3>. QED
      BY <3>3
  <2>. QED
    BY <1>10, <2>1, <2>2, NestingAlike
<1>13. ASSUME NEW i \in 1..(m + 1)
       PROVE  Nesting(v, 1)[i] >= 1 /\ (i = m + 1 => Nesting(v, 1)[i] = 1)
  <2>1. PICK j \in 0..m : i = j + 1
    <3>1. i - 1 \in 0..m /\ i = (i - 1) + 1
      OBVIOUS
    <3>. QED
      BY <3>1
  <2>2. Nesting(t, p)[j + A] = Nesting(v, 1)[j + 1] + 0
    BY <1>12 DEF DeeperBy
  <2>3. j + A \in p..(c - 1)
    BY <1>1, <1>2, <1>4
  <2>4. Nesting(t, p)[j + A] >= 1
    BY <1>1, <2>3
  <2>5. Nesting(v, 1)[i] \in Nat
    <3>1. i \in 0..Len(v)
      BY <1>7
    <3>. QED
      BY <1>7, <3>1, NestingDef
  <2>6. i = m + 1 => j + A = e + p
    <3>1. i = m + 1 => j = m
      BY <1>4, <2>1
    <3>2. m + A = e + p
      BY <1>4
    <3>. QED
      BY <3>1, <3>2
  <2>. QED
    BY <1>2, <2>1, <2>2, <2>4, <2>5, <2>6
<1>14. Closes(v, 1, m + 2)
  <2>1. 1 \in 1..Len(v) /\ m + 2 \in (1 + 1)..Len(v) /\ (m + 2) - 1 = m + 1 /\ m + 1 \in 1..(m + 1)
    BY <1>7
  <2>. QED
    BY <1>7, <1>11, <1>13, <2>1 DEF Closes
<1>15. parenthesizedSQLSpan(v, 1) = (m + 2) + 1
  BY <1>7, <1>14, ClosesParenthesis
<1>. QED
  BY <1>3, <1>4, <1>6, <1>15

\* The items of the body of CREATE TABLE do.
LEMMA ItemsAlone ==
    ASSUME NEW t \in SQLTexts, parenthesizedSQLSpan(t, 1) # 0, NEW n \in 1..Len(BodyItems(t))
    PROVE  parenthesizedSQLSpan(<<"(">> \o BodyItems(t)[n] \o <<")">>, 1) = Len(BodyItems(t)[n]) + 3
<1>1. 1 \in 1..(Len(t) + 1)
  BY ReachesFirst
<1>2. PICK c \in Nat : Closes(t, 1, c) /\ parenthesizedSQLSpan(t, 1) = c + 1
  BY <1>1, ParenthesisCloses
<1>3. PICK w : w = SubSeq(t, 1 + 1, c - 1) /\ BodyAt(t, 1, c, w)
  BY <1>2, BodyAlike
<1>4. BodyItems(t) = CutAt(w, TopLevel(w, ","))
  <2>1. 1 + 1 = 2 /\ (c + 1) - 2 = c - 1
    BY <1>2
  <2>. QED
    BY <1>2, <1>3, <2>1 DEF BodyItems, splitSQLTopLevelList
<1>5. w \in SQLTexts
  BY <1>3 DEF BodyAt
<1>6. n \in 1..(Cardinality(TopLevel(w, ",")) + 1)
  BY <1>4, <1>5, CutType
<1>7. PICK a, e : PartAt(w, ",", n, a, e)
  BY <1>5, <1>6, PartExists
<1>8. PICK x : x = BodyItems(t)[n] /\ ItemFrom(x, w, a, e)
  BY <1>4, <1>7 DEF PartAt, ItemFrom
<1>9. parenthesizedSQLSpan(<<"(">> \o x \o <<")">>, 1) = Len(x) + 3
  <2>1. "," \in Characters \ {"(", ")"}
    BY DEF Characters
  <2>. QED
    BY <1>3, <1>7, <1>8, <2>1, ItemAlone
<1>. QED
  BY <1>8, <1>9

-----------------------------------------------------------------------------
(* What the automaton of placeholders counts.                              *)

\* What it counts from position i on, from what it counts from the next
\* position on and from the one after that.
NextCount(t, i, mode, g, h) ==
    IF mode = "line" THEN g[IF t[i] \in {"\n", "\r"} THEN "code" ELSE "line"]
    ELSE IF mode = "block" THEN IF Pair(t, i, "*", "/") THEN h["code"] ELSE g["block"]
    ELSE IF mode \in Quotes
    THEN IF t[i] = "\\" /\ mode # "backtick" THEN h[mode]
         ELSE g[IF t[i] = mode THEN "code" ELSE mode]
    ELSE IF Pair(t, i, "-", "-") THEN h["line"]
    ELSE IF t[i] = "#" THEN g["line"]
    ELSE IF Pair(t, i, "/", "*") THEN h["block"]
    ELSE IF t[i] \in Quotes THEN g[t[i]]
    ELSE g["code"] + (IF t[i] = "?" THEN 1 ELSE 0)

\* It is a number.
LEMMA NextCountType ==
    ASSUME NEW t, NEW i, NEW mode \in Modes, NEW g \in [Modes -> Nat], NEW h \in [Modes -> Nat]
    PROVE  NextCount(t, i, mode, g, h) \in Nat
<1>1. /\ "line" \in Modes /\ "block" \in Modes /\ "code" \in Modes
      /\ t[i] \in Quotes => t[i] \in Modes
  BY DEF Modes
<1>2. \A x \in Modes : g[x] \in Nat /\ h[x] \in Nat
  OBVIOUS
<1>3. (IF t[i] \in {"\n", "\r"} THEN "code" ELSE "line") \in Modes
  BY <1>1
<1>4. (IF t[i] = mode THEN "code" ELSE mode) \in Modes
  BY <1>1
<1>5. g["code"] + (IF t[i] = "?" THEN 1 ELSE 0) \in Nat
  BY <1>1, <1>2
<1>6. PICK x, y, z : /\ x = (IF t[i] \in {"\n", "\r"} THEN "code" ELSE "line")
                     /\ y = (IF t[i] = mode THEN "code" ELSE mode)
                     /\ z = g["code"] + (IF t[i] = "?" THEN 1 ELSE 0)
  OBVIOUS
<1>7. x \in Modes /\ y \in Modes /\ z \in Nat
  BY <1>3, <1>4, <1>5, <1>6
<1>8. NextCount(t, i, mode, g, h) =
          IF mode = "line" THEN g[x]
          ELSE IF mode = "block" THEN IF Pair(t, i, "*", "/") THEN h["code"] ELSE g["block"]
          ELSE IF mode \in Quotes
          THEN IF t[i] = "\\" /\ mode # "backtick" THEN h[mode] ELSE g[y]
          ELSE IF Pair(t, i, "-", "-") THEN h["line"]
          ELSE IF t[i] = "#" THEN g["line"]
          ELSE IF Pair(t, i, "/", "*") THEN h["block"]
          ELSE IF t[i] \in Quotes THEN g[t[i]]
          ELSE z
  BY <1>6 DEF NextCount
<1>. QED
  BY <1>1, <1>2, <1>7, <1>8

\* What it counts from a position on, by the mode it is in.
Counts == [Modes -> Nat]

\* countPlaceholders is what its recursive definition says.
CountsOf(t, f) ==
    /\ f \in [Nat -> Counts] /\ countPlaceholders(t) = f[1]["code"]
    /\ \A i \in Nat : \A mode \in Modes :
           f[i][mode] = IF i \in 1..Len(t) THEN NextCount(t, i, mode, f[i + 1], f[i + 2]) ELSE 0

\* There is such a function.
LEMMA CountsExist ==
    ASSUME NEW t \in SQLTexts
    PROVE  \E f : CountsOf(t, f)
<1>. DEFINE n == Len(t)
            Step(i, g, h) == [mode \in Modes |-> NextCount(t, i, mode, g, h)]
            G == [x \in (1..n) \X [Nat -> Counts] |-> Step(x[1], x[2][x[1] + 1], x[2][x[1] + 2])]
            zero == [mode \in Modes |-> 0]
<1>1. n \in Nat /\ DOMAIN t = 1..n
  BY TextFacts
<1>2. zero \in Counts
  BY DEF Counts
<1>3. \A i \in 1..n, g \in Counts, h \in Counts : Step(i, g, h) \in Counts
  BY NextCountType DEF Counts
<1>. HIDE DEF Step
<1>4. \A i \in 1..n, f \in [Nat -> Counts] : G[<<i, f>>] = Step(i, f[i + 1], f[i + 2])
  OBVIOUS
<1>5. \A i \in 1..n, f \in [Nat -> Counts] : Step(i, f[i + 1], f[i + 2]) \in Counts
  <2>. TAKE i \in 1..n, f \in [Nat -> Counts]
  <2>1. i + 1 \in Nat /\ i + 2 \in Nat
    BY <1>1
  <2>2. f[i + 1] \in Counts /\ f[i + 2] \in Counts
    BY <2>1
  <2>. QED
    BY <1>3, <2>2
<1>6. G \in [(1..n) \X [Nat -> Counts] -> Counts]
  BY <1>5
<1>. HIDE DEF G
<1>7. LooksAhead(n, Counts, G)
  <2>1. ASSUME NEW i \in 1..n, NEW f \in [Nat -> Counts], NEW g \in [Nat -> Counts],
               \A j \in Nat : j > i => f[j] = g[j]
        PROVE  G[<<i, f>>] = G[<<i, g>>]
    <3>1. i + 1 \in Nat /\ i + 2 \in Nat /\ i + 1 > i /\ i + 2 > i
      BY <1>1
    <3>2. f[i + 1] = g[i + 1] /\ f[i + 2] = g[i + 2]
      BY <2>1, <3>1
    <3>. QED
      BY <1>4, <3>2
  <2>. QED
    BY <1>6, <2>1 DEF LooksAhead
<1>. HIDE DEF zero
<1>8. PICK f \in [Nat -> Counts] : IsBackward(f, n, zero, G)
  BY <1>1, <1>2, <1>7, BackwardExists
<1>9. \A i \in Nat : f[i] = IF i \in 1..n THEN Step(i, f[i + 1], f[i + 2]) ELSE zero
  BY <1>4, <1>8 DEF IsBackward
<1>. DEFINE Right(h) == h = [i \in Nat |->
            [mode \in Modes |->
                IF i \notin DOMAIN t THEN 0
                ELSE IF mode = "line"
                THEN h[i + 1][IF t[i] \in {"\n", "\r"} THEN "code" ELSE "line"]
                ELSE IF mode = "block"
                THEN IF Pair(t, i, "*", "/") THEN h[i + 2]["code"] ELSE h[i + 1]["block"]
                ELSE IF mode \in Quotes
                THEN IF t[i] = "\\" /\ mode # "backtick" THEN h[i + 2][mode]
                     ELSE h[i + 1][IF t[i] = mode THEN "code" ELSE mode]
                ELSE IF Pair(t, i, "-", "-") THEN h[i + 2]["line"]
                ELSE IF t[i] = "#" THEN h[i + 1]["line"]
                ELSE IF Pair(t, i, "/", "*") THEN h[i + 2]["block"]
                ELSE IF t[i] \in Quotes THEN h[i + 1][t[i]]
                ELSE h[i + 1]["code"] + (IF t[i] = "?" THEN 1 ELSE 0)]]
            Alike(h) == h = [i \in Nat |->
                [mode \in Modes |-> IF i \notin DOMAIN t THEN 0
                                    ELSE NextCount(t, i, mode, h[i + 1], h[i + 2])]]
<1>10. \A h : Right(h) <=> Alike(h)
  BY DEF NextCount
<1>11. countPlaceholders(t) = (CHOOSE h : Right(h))[1]["code"]
  BY DEF countPlaceholders
<1>12. Alike(f)
  <2>1. ASSUME NEW i \in Nat
        PROVE  f[i] = [mode \in Modes |-> IF i \notin DOMAIN t THEN 0
                                          ELSE NextCount(t, i, mode, f[i + 1], f[i + 2])]
    <3>1. CASE i \in 1..n
      BY <1>1, <1>9, <3>1 DEF Step
    <3>2. CASE i \notin 1..n
      BY <1>1, <1>9, <3>2 DEF zero
    <3>. QED
      BY <3>1, <3>2
  <2>. QED
    BY <1>8, <2>1
<1>. HIDE DEF Right, Alike
<1>13. PICK h : h = CHOOSE g : Right(g)
  OBVIOUS
<1>14. Right(h)
  BY <1>10, <1>12, <1>13
<1>15. Alike(h)
  BY <1>10, <1>14
<1>16. /\ h = [i \in Nat |-> h[i]]
       /\ \A i \in Nat : h[i] = IF i \in 1..n THEN Step(i, h[i + 1], h[i + 2]) ELSE zero
  <2>1. h = [i \in Nat |->
                [mode \in Modes |-> IF i \notin DOMAIN t THEN 0
                                    ELSE NextCount(t, i, mode, h[i + 1], h[i + 2])]]
    BY <1>15 DEF Alike
  <2>2. \A i \in Nat : h[i] = [mode \in Modes |-> IF i \notin DOMAIN t THEN 0
                                    ELSE NextCount(t, i, mode, h[i + 1], h[i + 2])]
    BY <2>1
  <2>3. h = [i \in Nat |-> h[i]]
    BY <2>1, <2>2
  <2>4. ASSUME NEW i \in Nat PROVE h[i] = IF i \in 1..n THEN Step(i, h[i + 1], h[i + 2]) ELSE zero
    <3>1. h[i] = [mode \in Modes |-> IF i \notin DOMAIN t THEN 0
                                     ELSE NextCount(t, i, mode, h[i + 1], h[i + 2])]
      BY <2>2
    <3>2. CASE i \in 1..n
      BY <1>1, <3>1, <3>2 DEF Step
    <3>3. CASE i \notin 1..n
      BY <1>1, <3>1, <3>3 DEF zero
    <3>. QED
      BY <3>2, <3>3
  <2>. QED
    BY <2>3, <2>4
<1>17. \A i \in Nat : h[i] \in Counts
  <2>. DEFINE T == {i \in Nat : h[i] \in Counts}
  <2>1. \A i \in Nat : i \notin 1..n => i \in T
    BY <1>2, <1>16
  <2>2. ASSUME NEW i \in Nat, \A j \in Nat : i < j /\ j <= n => j \in T, i <= n PROVE i \in T
    <3>1. CASE i \in 1..n
      <4>1. i + 1 \in Nat /\ i + 2 \in Nat /\ i < i + 1 /\ i < i + 2
        BY <3>1
      <4>2. i + 1 \in T /\ i + 2 \in T
        BY <1>1, <2>1, <2>2, <4>1
      <4>. QED
        BY <1>3, <1>16, <3>1, <4>2
    <3>. QED
      BY <2>1, <3>1
  <2>. HIDE DEF T
  <2>3. \A i \in 0..n : i \in T
    BY <1>1, <2>2, Downward
  <2>4. \A i \in Nat : i \in T
    BY <1>1, <2>1, <2>3
  <2>. QED
    BY <2>4 DEF T
<1>18. h \in [Nat -> Counts]
  BY <1>16, <1>17
<1>19. \A i \in Nat : \A mode \in Modes :
          h[i][mode] = IF i \in 1..Len(t) THEN NextCount(t, i, mode, h[i + 1], h[i + 2]) ELSE 0
  BY <1>16 DEF Step, zero
<1>20. countPlaceholders(t) = h[1]["code"]
  BY <1>11, <1>13
<1>. QED
  BY <1>18, <1>19, <1>20 DEF CountsOf

\* A value that no step changes.
LEMMA SteadyTo ==
    ASSUME NEW g, NEW a \in Nat, NEW e \in Nat, a <= e, \A k \in a..(e - 1) : g[k] = g[k + 1]
    PROVE  g[a] = g[e]
<1>. DEFINE T == {k \in Nat : k >= a => g[k] = g[e]}
<1>1. ASSUME NEW k \in Nat, \A j \in Nat : k < j /\ j <= e => j \in T, k <= e PROVE k \in T
  <2>1. CASE k = e
    BY <2>1
  <2>2. CASE k < e
    <3>1. k + 1 \in Nat /\ k < k + 1 /\ k + 1 <= e
      BY <2>2
    <3>2. k + 1 \in T
      BY <1>1, <3>1
    <3>3. k >= a => g[k] = g[k + 1] /\ k + 1 >= a
      <4>1. k >= a => k \in a..(e - 1) /\ k + 1 >= a
        BY <2>2
      <4>. QED
        BY <4>1
    <3>. QED
      BY <3>2, <3>3
  <2>. QED
    BY <1>1, <2>1, <2>2
<1>. HIDE DEF T
<1>2. \A k \in 0..e : k \in T
  BY <1>1, Downward
<1>3. a \in 0..e
  OBVIOUS
<1>. QED
  BY <1>2, <1>3 DEF T

\* What it counts from i on, mode by mode.
LEMMA CountModes ==
    ASSUME NEW t \in SQLTexts, NEW f, CountsOf(t, f), NEW i \in 1..Len(t)
    PROVE  /\ t[i] \notin {"\n", "\r"} => f[i]["line"] = f[i + 1]["line"]
           /\ t[i] = "\n" => f[i]["line"] = f[i + 1]["code"]
           /\ Pair(t, i, "*", "/") => f[i]["block"] = f[i + 2]["code"]
           /\ ~Pair(t, i, "*", "/") => f[i]["block"] = f[i + 1]["block"]
           /\ \A q \in Quotes :
                 /\ t[i] = "\\" /\ q # "backtick" => f[i][q] = f[i + 2][q]
                 /\ ~(t[i] = "\\" /\ q # "backtick") =>
                       f[i][q] = IF t[i] = q THEN f[i + 1]["code"] ELSE f[i + 1][q]
           /\ Pair(t, i, "-", "-") => f[i]["code"] = f[i + 2]["line"]
           /\ t[i] = "#" => f[i]["code"] = f[i + 1]["line"]
           /\ Pair(t, i, "/", "*") => f[i]["code"] = f[i + 2]["block"]
           /\ t[i] \in Quotes => f[i]["code"] = f[i + 1][t[i]]
           /\ t[i] \notin Quotes /\ ~LineOpens(t, i) /\ ~BlockOpens(t, i) =>
                 f[i]["code"] = f[i + 1]["code"] + (IF t[i] = "?" THEN 1 ELSE 0)
<1>1. /\ "line" \in Modes /\ "block" \in Modes /\ "code" \in Modes
      /\ \A q \in Quotes : q \in Modes /\ q # "line" /\ q # "block" /\ q # "code"
  BY DEF Modes, Quotes
<1>2. i \in Nat
  OBVIOUS
<1>3. PICK g, h : g = f[i + 1] /\ h = f[i + 2]
  OBVIOUS
<1>4. \A mode \in Modes : f[i][mode] = NextCount(t, i, mode, g, h)
  BY <1>2, <1>3 DEF CountsOf
<1>5. f[i]["line"] = g[IF t[i] \in {"\n", "\r"} THEN "code" ELSE "line"]
  BY <1>1, <1>4 DEF NextCount
<1>6. f[i]["block"] = IF Pair(t, i, "*", "/") THEN h["code"] ELSE g["block"]
  BY <1>1, <1>4 DEF NextCount
<1>7. ASSUME NEW q \in Quotes
      PROVE  f[i][q] = IF t[i] = "\\" /\ q # "backtick" THEN h[q]
                       ELSE g[IF t[i] = q THEN "code" ELSE q]
  BY <1>1, <1>4 DEF NextCount
<1>8. "code" \notin Quotes
  BY DEF Quotes
<1>9. f[i]["code"] = IF Pair(t, i, "-", "-") THEN h["line"]
                     ELSE IF t[i] = "#" THEN g["line"]
                     ELSE IF Pair(t, i, "/", "*") THEN h["block"]
                     ELSE IF t[i] \in Quotes THEN g[t[i]]
                     ELSE g["code"] + (IF t[i] = "?" THEN 1 ELSE 0)
  BY <1>1, <1>4, <1>8 DEF NextCount
<1>10. /\ t[i] = "#" => ~Pair(t, i, "-", "-")
       /\ Pair(t, i, "/", "*") => ~Pair(t, i, "-", "-") /\ t[i] # "#"
       /\ t[i] \in Quotes => ~Pair(t, i, "-", "-") /\ t[i] # "#" /\ ~Pair(t, i, "/", "*")
  BY DEF Pair, Quotes
<1>11. /\ t[i] \notin {"\n", "\r"} => f[i]["line"] = f[i + 1]["line"]
       /\ t[i] = "\n" => f[i]["line"] = f[i + 1]["code"]
  BY <1>3, <1>5
<1>12. \A q \in Quotes :
          /\ t[i] = "\\" /\ q # "backtick" => f[i][q] = f[i + 2][q]
          /\ ~(t[i] = "\\" /\ q # "backtick") =>
                f[i][q] = IF t[i] = q THEN f[i + 1]["code"] ELSE f[i + 1][q]
  BY <1>3, <1>7
<1>13. /\ Pair(t, i, "-", "-") => f[i]["code"] = f[i + 2]["line"]
       /\ t[i] = "#" => f[i]["code"] = f[i + 1]["line"]
       /\ Pair(t, i, "/", "*") => f[i]["code"] = f[i + 2]["block"]
       /\ t[i] \in Quotes => f[i]["code"] = f[i + 1][t[i]]
  BY <1>3, <1>9, <1>10
<1>14. t[i] \notin Quotes /\ ~LineOpens(t, i) /\ ~BlockOpens(t, i) =>
          f[i]["code"] = f[i + 1]["code"] + (IF t[i] = "?" THEN 1 ELSE 0)
  BY <1>3, <1>9 DEF LineOpens, BlockOpens
<1>. QED
  BY <1>3, <1>6, <1>11, <1>12, <1>13, <1>14

\* It counts nothing behind the text.
LEMMA CountsEnd ==
    ASSUME NEW t \in SQLTexts, NEW f, CountsOf(t, f), NEW i \in Nat, i > Len(t), NEW mode \in Modes
    PROVE  f[i][mode] = 0
BY TextFacts DEF CountsOf

\* A line comment that opens at i ends for the automaton where it does for the
\* scan, if no carriage return is in it.
LEMMA CountLine ==
    ASSUME NEW t \in SQLTexts, NEW f, CountsOf(t, f), NEW i \in 1..Len(t), LineOpens(t, i),
           NEW s, LineEnds(t, i, s), \A k \in i..(s - 1) : t[k] # "\r"
    PROVE  f[i]["code"] = f[s]["code"]
<1>1. Len(t) \in Nat /\ "line" \in Modes /\ "code" \in Modes
  BY TextFacts DEF Modes
<1>. DEFINE g == [k \in Nat |-> f[k]["line"]]
<1>2. \A k \in Nat : g[k] = f[k]["line"]
  OBVIOUS
<1>. HIDE DEF g
<1>3. PICK j \in Nat : /\ j \in (i + 1)..(Len(t) + 1) /\ f[i]["code"] = g[j]
                       /\ \A k \in i..(j - 1) : t[k] \notin {"\n", "\r"}
  <2>1. CASE Pair(t, i, "-", "-")
    <3>1. i + 2 \in (i + 1)..(Len(t) + 1) /\ i + 2 \in Nat
      BY <1>1, <2>1 DEF Pair
    <3>2. f[i]["code"] = g[i + 2]
      BY <1>2, <2>1, <3>1, CountModes
    <3>3. ASSUME NEW k \in i..((i + 2) - 1) PROVE t[k] \notin {"\n", "\r"}
      <4>1. k = i \/ k = i + 1
        OBVIOUS
      <4>. QED
        BY <2>1, <4>1 DEF Pair
    <3>. QED
      BY <3>1, <3>2, <3>3
  <2>2. CASE t[i] = "#"
    <3>1. i + 1 \in (i + 1)..(Len(t) + 1) /\ i + 1 \in Nat
      BY <1>1
    <3>2. f[i]["code"] = g[i + 1]
      BY <1>2, <2>2, <3>1, CountModes
    <3>3. ASSUME NEW k \in i..((i + 1) - 1) PROVE t[k] \notin {"\n", "\r"}
      <4>1. k = i
        OBVIOUS
      <4>. QED
        BY <2>2, <4>1
    <3>. QED
      BY <3>1, <3>2, <3>3
  <2>. QED
    BY <2>1, <2>2 DEF LineOpens
<1>4. ASSUME NEW e \in j..(Len(t) + 1), \A k \in i..(e - 1) : t[k] \notin {"\n", "\r"}
      PROVE  g[j] = g[e]
  <2>1. ASSUME NEW k \in j..(e - 1) PROVE g[k] = g[k + 1]
    <3>1. k \in 1..Len(t) /\ k \in Nat /\ k + 1 \in Nat /\ k \in i..(e - 1)
      BY <1>1, <1>3, <1>4
    <3>2. t[k] \notin {"\n", "\r"}
      BY <1>4, <3>1
    <3>3. f[k]["line"] = f[k + 1]["line"]
      BY <3>1, <3>2, CountModes
    <3>. QED
      BY <1>2, <3>1, <3>3
  <2>2. e \in Nat /\ j <= e
    BY <1>1, <1>3
  <2>. QED
    BY <1>3, <2>1, <2>2, SteadyTo
<1>5. CASE s = Len(t) + 1 /\ \A k \in i..Len(t) : t[k] # "\n"
  <2>1. PICK e \in Nat : e = Len(t) + 1 /\ e - 1 = Len(t) /\ e > Len(t)
    <3>1. Len(t) + 1 \in Nat /\ (Len(t) + 1) - 1 = Len(t) /\ Len(t) + 1 > Len(t)
      BY <1>1
    <3>. QED
      BY <3>1
  <2>2. e \in j..(Len(t) + 1)
    BY <1>1, <1>3, <2>1
  <2>3. \A k \in i..(e - 1) : t[k] \notin {"\n", "\r"}
    BY <1>5, <2>1
  <2>4. g[j] = g[e]
    BY <1>4, <2>2, <2>3
  <2>5. f[e]["line"] = 0 /\ f[e]["code"] = 0
    BY <1>1, <2>1, CountsEnd
  <2>. QED
    BY <1>2, <1>3, <1>5, <2>1, <2>4, <2>5
<1>6. CASE \E y \in i..Len(t) : s = y + 1 /\ t[y] = "\n" /\ \A k \in i..Len(t) : k < y => t[k] # "\n"
  <2>1. PICK y \in i..Len(t) : s = y + 1 /\ t[y] = "\n" /\ \A k \in i..Len(t) : k < y => t[k] # "\n"
    BY <1>6
  <2>2. y \in Nat /\ y \in 1..Len(t)
    BY <1>1
  <2>3. y >= j
    <3>1. ~(y \in i..(j - 1))
      BY <1>3, <2>1
    <3>. QED
      BY <1>1, <1>3, <2>2, <3>1
  <2>4. \A k \in i..(y - 1) : t[k] \notin {"\n", "\r"}
    <3>. TAKE k \in i..(y - 1)
    <3>1. k \in i..Len(t) /\ k < y /\ k \in i..(s - 1)
      BY <1>1, <2>1
    <3>. QED
      BY <2>1, <3>1
  <2>5. y \in j..(Len(t) + 1)
    BY <1>1, <2>2, <2>3
  <2>6. g[j] = g[y]
    BY <1>4, <2>4, <2>5
  <2>7. f[y]["line"] = f[y + 1]["code"]
    BY <2>1, <2>2, CountModes
  <2>. QED
    BY <1>2, <1>3, <2>1, <2>2, <2>6, <2>7
<1>. QED
  BY <1>5, <1>6 DEF LineEnds

\* So does a block comment, whatever is in it.
LEMMA CountBlock ==
    ASSUME NEW t \in SQLTexts, NEW f, CountsOf(t, f), NEW i \in 1..Len(t), BlockOpens(t, i),
           NEW s, BlockEnds(t, i, s)
    PROVE  f[i]["code"] = f[s]["code"]
<1>1. Len(t) \in Nat /\ "block" \in Modes /\ "code" \in Modes
  BY TextFacts DEF Modes
<1>. DEFINE g == [k \in Nat |-> f[k]["block"]]
<1>2. \A k \in Nat : g[k] = f[k]["block"]
  OBVIOUS
<1>. HIDE DEF g
<1>3. PICK j \in Nat : j = i + 2
  <2>1. i + 2 \in Nat
    OBVIOUS
  <2>. QED
    BY <2>1
<1>4. j <= Len(t) + 1 /\ j > i /\ f[i]["code"] = g[j]
  <2>1. i + 2 <= Len(t) + 1
    BY <1>1 DEF BlockOpens, Pair
  <2>. QED
    BY <1>2, <1>3, <2>1, CountModes DEF BlockOpens
<1>5. ASSUME NEW e \in j..(Len(t) + 1), \A k \in j..(e - 1) : ~Pair(t, k, "*", "/")
      PROVE  g[j] = g[e]
  <2>1. ASSUME NEW k \in j..(e - 1) PROVE g[k] = g[k + 1]
    <3>1. k \in 1..Len(t) /\ k \in Nat /\ k + 1 \in Nat
      BY <1>1, <1>4, <1>5
    <3>2. f[k]["block"] = f[k + 1]["block"]
      BY <1>5, <3>1, CountModes
    <3>. QED
      BY <1>2, <3>1, <3>2
  <2>2. e \in Nat /\ j <= e
    BY <1>1
  <2>. QED
    BY <2>1, <2>2, SteadyTo
<1>6. CASE s = Len(t) + 1 /\ \A k \in (i + 2)..Len(t) : ~Pair(t, k, "*", "/")
  <2>1. PICK e \in Nat : e = Len(t) + 1 /\ e - 1 = Len(t) /\ e > Len(t)
    <3>1. Len(t) + 1 \in Nat /\ (Len(t) + 1) - 1 = Len(t) /\ Len(t) + 1 > Len(t)
      BY <1>1
    <3>. QED
      BY <3>1
  <2>2. e \in j..(Len(t) + 1)
    BY <1>1, <1>4, <2>1
  <2>3. \A k \in j..(e - 1) : ~Pair(t, k, "*", "/")
    BY <1>3, <1>6, <2>1
  <2>4. g[j] = g[e]
    BY <1>5, <2>2, <2>3
  <2>5. f[e]["block"] = 0 /\ f[e]["code"] = 0
    BY <1>1, <2>1, CountsEnd
  <2>. QED
    BY <1>2, <1>4, <1>6, <2>1, <2>4, <2>5
<1>7. CASE \E y \in (i + 2)..Len(t) :
              s = y + 2 /\ Pair(t, y, "*", "/")
              /\ \A k \in (i + 2)..Len(t) : k < y => ~Pair(t, k, "*", "/")
  <2>1. PICK y \in (i + 2)..Len(t) :
              s = y + 2 /\ Pair(t, y, "*", "/")
              /\ \A k \in (i + 2)..Len(t) : k < y => ~Pair(t, k, "*", "/")
    BY <1>7
  <2>2. y \in Nat /\ y \in 1..Len(t) /\ y \in j..(Len(t) + 1)
    BY <1>1, <1>3
  <2>3. \A k \in j..(y - 1) : ~Pair(t, k, "*", "/")
    <3>. TAKE k \in j..(y - 1)
    <3>1. k \in (i + 2)..Len(t) /\ k < y
      BY <1>1, <1>3, <2>2
    <3>. QED
      BY <2>1, <3>1
  <2>4. g[j] = g[y]
    BY <1>5, <2>2, <2>3
  <2>5. f[y]["block"] = f[y + 2]["code"]
    BY <2>1, <2>2, CountModes
  <2>. QED
    BY <1>2, <1>4, <2>1, <2>2, <2>4, <2>5
<1>. QED
  BY <1>6, <1>7 DEF BlockEnds

\* Where a quote may close, from position j on.
ClosingsFrom(t, q, j) == {k \in Visited(QuoteSteps(t, q))[j] : t[k] = q /\ ~Escapes(t, q, k)}

\* The positions go on after j with those from the next one, and begin with j
\* if the quote closes there.
LEMMA ClosingsStep ==
    ASSUME NEW t \in SQLTexts, NEW q, NEW j \in Nat
    PROVE  /\ j > Len(t) => ClosingsFrom(t, q, j) = {}
           /\ ClosingsFrom(t, q, j) \subseteq {k \in Nat : k >= j}
           /\ j \in 1..Len(t) /\ t[j] = q /\ ~Escapes(t, q, j) =>
                 j \in ClosingsFrom(t, q, j) /\ Min(ClosingsFrom(t, q, j)) = j
           /\ j \in 1..Len(t) /\ t[j] # q /\ ~Escapes(t, q, j) =>
                 ClosingsFrom(t, q, j) = ClosingsFrom(t, q, j + 1)
           /\ j \in 1..Len(t) /\ Escapes(t, q, j) =>
                 ClosingsFrom(t, q, j) = ClosingsFrom(t, q, j + 2)
<1>1. PICK n, next : n = Len(t) /\ next = QuoteSteps(t, q)
  OBVIOUS
<1>2. /\ Walk(n, next) /\ n \in Nat
      /\ \A i \in 1..n : next[i] = IF Escapes(t, q, i) THEN i + 2 ELSE i + 1
  BY <1>1, QuoteWalk, TextFacts
<1>. DEFINE V(i) == Visited(next)[i]
            C(i) == {k \in V(i) : t[k] = q /\ ~Escapes(t, q, k)}
<1>3. \A i : ClosingsFrom(t, q, i) = C(i)
  BY <1>1 DEF ClosingsFrom
<1>4. V(j) \subseteq {k \in 1..n : k >= j}
  BY <1>2, VisitedRange
<1>5. j \in 1..n => V(j) = {j} \cup V(next[j])
  BY <1>2, VisitedMore
<1>. HIDE DEF V
<1>6. C(j) \subseteq {k \in Nat : k >= j}
  BY <1>2, <1>4
<1>7. j > n => C(j) = {}
  BY <1>2, <1>4
<1>8. ASSUME j \in 1..n, t[j] = q, ~Escapes(t, q, j) PROVE j \in C(j) /\ Min(C(j)) = j
  <2>1. j \in C(j)
    BY <1>5, <1>8
  <2>2. C(j) \in SUBSET Nat /\ \A k \in C(j) : j <= k
    BY <1>6
  <2>. HIDE DEF C
  <2>. QED
    BY <2>1, <2>2, LeastIs
<1>9. ASSUME j \in 1..n, t[j] # q, ~Escapes(t, q, j) PROVE C(j) = C(j + 1)
  <2>1. V(j) = {j} \cup V(j + 1)
    BY <1>2, <1>5, <1>9
  <2>. QED
    BY <1>9, <2>1
<1>10. ASSUME j \in 1..n, Escapes(t, q, j) PROVE C(j) = C(j + 2)
  <2>1. V(j) = {j} \cup V(j + 2)
    BY <1>2, <1>5, <1>10
  <2>. QED
    BY <1>10, <2>1
<1>. HIDE DEF C
<1>. QED
  BY <1>1, <1>3, <1>6, <1>7, <1>8, <1>9, <1>10

\* In a quote the automaton counts what is after the end of it.
CountsFrom(t, f, q, j) ==
    f[j][q] = IF ClosingsFrom(t, q, j) = {} THEN 0 ELSE f[Min(ClosingsFrom(t, q, j)) + 1]["code"]

\* It does so.
LEMMA CountQuoted ==
    ASSUME NEW t \in SQLTexts, NEW f, CountsOf(t, f), NEW q \in Quotes, NEW i \in 1..(Len(t) + 1)
    PROVE  CountsFrom(t, f, q, i)
<1>. DEFINE T == {j \in Nat : j >= 1 => CountsFrom(t, f, q, j)}
<1>1. Len(t) \in Nat /\ q \in Modes /\ q \in {"'", "backtick"}
  BY TextFacts DEF Modes, Quotes
<1>2. ASSUME NEW j \in Nat, j > Len(t) PROVE CountsFrom(t, f, q, j)
  <2>1. ClosingsFrom(t, q, j) = {}
    BY <1>2, ClosingsStep
  <2>2. f[j][q] = 0
    BY <1>1, <1>2, CountsEnd
  <2>. QED
    BY <2>1, <2>2 DEF CountsFrom
<1>3. ASSUME NEW j \in 1..Len(t), CountsFrom(t, f, q, j + 1), CountsFrom(t, f, q, j + 2)
      PROVE  CountsFrom(t, f, q, j)
  <2>1. j \in Nat /\ j + 1 \in Nat /\ j + 2 \in Nat
    BY <1>1
  <2>2. CASE ~Escapes(t, q, j) /\ t[j] = q
    <3>1. f[j][q] = f[j + 1]["code"]
      <4>1. ~(t[j] = "\\" /\ q # "backtick")
        BY <1>1, <2>2
      <4>. QED
        BY <2>2, <4>1, CountModes
    <3>2. ClosingsFrom(t, q, j) # {} /\ Min(ClosingsFrom(t, q, j)) = j
      BY <2>1, <2>2, ClosingsStep
    <3>. QED
      BY <3>1, <3>2 DEF CountsFrom
  <2>3. CASE ~Escapes(t, q, j) /\ t[j] # q
    <3>1. ClosingsFrom(t, q, j) = ClosingsFrom(t, q, j + 1)
      BY <2>1, <2>3, ClosingsStep
    <3>2. CASE t[j] = "\\" /\ q # "backtick"
      <4>1. ~(j < Len(t))
        BY <2>3, <3>2 DEF Escapes
      <4>2. j + 1 > Len(t) /\ j + 2 > Len(t)
        BY <1>1, <2>1, <4>1
      <4>3. f[j][q] = f[j + 2][q] /\ f[j + 2][q] = 0
        BY <1>1, <2>1, <3>2, <4>2, CountModes, CountsEnd
      <4>4. ClosingsFrom(t, q, j + 1) = {}
        BY <2>1, <4>2, ClosingsStep
      <4>. QED
        BY <3>1, <4>3, <4>4 DEF CountsFrom
    <3>3. CASE ~(t[j] = "\\" /\ q # "backtick")
      <4>1. f[j][q] = f[j + 1][q]
        BY <2>3, <3>3, CountModes
      <4>. QED
        BY <1>3, <3>1, <4>1 DEF CountsFrom
    <3>. QED
      BY <3>2, <3>3
  <2>4. CASE Escapes(t, q, j)
    <3>1. ClosingsFrom(t, q, j) = ClosingsFrom(t, q, j + 2)
      BY <2>1, <2>4, ClosingsStep
    <3>2. f[j][q] = f[j + 2][q]
      <4>1. q # "backtick" /\ j < Len(t) /\ (t[j] = "\\" \/ (t[j] = q /\ t[j + 1] = q))
        BY <2>4 DEF Escapes
      <4>2. CASE t[j] = "\\"
        BY <4>1, <4>2, CountModes
      <4>3. CASE t[j] # "\\" /\ t[j] = q /\ t[j + 1] = q
        <5>1. f[j][q] = f[j + 1]["code"]
          BY <4>3, CountModes
        <5>2. PICK k \in 1..Len(t) : k = j + 1 /\ k + 1 = j + 2
          <6>1. j + 1 \in 1..Len(t) /\ (j + 1) + 1 = j + 2
            BY <1>1, <2>1, <4>1
          <6>. QED
            BY <6>1
        <5>3. t[k] = q
          BY <4>3, <5>2
        <5>4. f[k]["code"] = f[k + 1][q]
          BY <5>3, CountModes
        <5>. QED
          BY <5>1, <5>2, <5>4
      <4>. QED
        BY <4>1, <4>2, <4>3
    <3>. QED
      BY <1>3, <3>1, <3>2 DEF CountsFrom
  <2>. QED
    BY <2>2, <2>3, <2>4
<1>4. ASSUME NEW j \in Nat, \A k \in Nat : j < k /\ k <= Len(t) => k \in T, j <= Len(t) PROVE j \in T
  <2>1. SUFFICES ASSUME j >= 1 PROVE CountsFrom(t, f, q, j)
    BY DEF T
  <2>2. j \in 1..Len(t) /\ j + 1 \in Nat /\ j + 2 \in Nat
    BY <1>1, <1>4, <2>1
  <2>3. ASSUME NEW k \in Nat, j < k PROVE CountsFrom(t, f, q, k)
    <3>1. CASE k <= Len(t)
      BY <1>4, <2>1, <2>3, <3>1
    <3>2. CASE k > Len(t)
      BY <1>2, <3>2
    <3>. QED
      BY <1>1, <3>1, <3>2
  <2>4. CountsFrom(t, f, q, j + 1) /\ CountsFrom(t, f, q, j + 2)
    BY <2>2, <2>3
  <2>. QED
    BY <1>3, <2>2, <2>4
<1>. HIDE DEF T
<1>5. \A j \in 0..Len(t) : j \in T
  BY <1>1, <1>4, Downward
<1>6. CASE i \in 0..Len(t)
  BY <1>5, <1>6 DEF T
<1>7. CASE i > Len(t)
  BY <1>1, <1>2, <1>7
<1>. QED
  BY <1>1, <1>6, <1>7

\* A placeholder where the scan looks.
MarkAt(t, i) == IF Span(t, i) = i /\ t[i] = "?" THEN 1 ELSE 0

\* No carriage return in the line comment that opens at i, if one does.
CleanAt(t, i) == t[i] \in {"-", "#"} => \A j \in i..(Span(t, i) - 1) : t[j] # "\r"

\* From a position on, if it is not in a quote or comment, the automaton counts
\* what it counts after the span that begins there.
LEMMA CountAfter ==
    ASSUME NEW t \in SQLTexts, NEW f, CountsOf(t, f), NEW i \in 1..Len(t), CleanAt(t, i)
    PROVE  f[i]["code"] = f[After(t, i)]["code"] + MarkAt(t, i)
<1>1. Len(t) \in Nat /\ "code" \in Modes /\ i \in Nat
  BY TextFacts DEF Modes
<1>2. PICK s : s = Span(t, i)
  OBVIOUS
<1>3. \A k \in Nat : f[k]["code"] \in Nat
  BY <1>1 DEF CountsOf, Counts
<1>4. CASE t[i] \in Quotes
  <2>1. PICK q \in Quotes : q = t[i]
    BY <1>4
  <2>2. f[i]["code"] = f[i + 1][q]
    BY <1>4, <2>1, CountModes
  <2>3. i + 1 \in 1..(Len(t) + 1)
    BY <1>1
  <2>4. f[i + 1][q] = IF ClosingsFrom(t, q, i + 1) = {} THEN 0
                      ELSE f[Min(ClosingsFrom(t, q, i + 1)) + 1]["code"]
    BY <2>3, CountQuoted DEF CountsFrom
  <2>5. ClosingsFrom(t, q, i + 1) = Closings(t, i)
    BY <2>1 DEF ClosingsFrom, Closings
  <2>6. s = quotedSQLSpan(t, i) /\ s \in (i + 1)..(Len(t) + 1)
    BY <1>2, <1>4, QuoteRange DEF Span
  <2>7. s = IF Closings(t, i) = {} THEN Len(t) + 1 ELSE Min(Closings(t, i)) + 1
    BY <2>6, QuoteRange
  <2>8. f[Len(t) + 1]["code"] = 0
    <3>1. Len(t) + 1 \in Nat /\ Len(t) + 1 > Len(t)
      BY <1>1
    <3>. QED
      BY <1>1, <3>1, CountsEnd
  <2>9. f[i]["code"] = f[s]["code"]
    <3>1. CASE Closings(t, i) = {}
      BY <2>2, <2>4, <2>5, <2>7, <2>8, <3>1
    <3>2. CASE Closings(t, i) # {}
      BY <2>2, <2>4, <2>5, <2>7, <3>2
    <3>. QED
      BY <3>1, <3>2
  <2>10. s # i /\ s \in Nat
    BY <1>1, <2>6
  <2>11. After(t, i) = s /\ MarkAt(t, i) = 0
    BY <1>2, <2>10 DEF After, MarkAt
  <2>. QED
    BY <1>3, <2>9, <2>10, <2>11
<1>5. CASE t[i] \notin Quotes /\ (LineOpens(t, i) \/ BlockOpens(t, i))
  <2>1. s = sqlCommentSpan(t, i) /\ s \in i..(Len(t) + 1) /\ s > i
    BY <1>2, <1>5, CommentRange DEF Span
  <2>2. f[i]["code"] = f[s]["code"]
    <3>1. CASE LineOpens(t, i)
      <4>1. LineEnds(t, i, s)
        BY <2>1, <3>1, CommentShape
      <4>2. \A k \in i..(s - 1) : t[k] # "\r"
        <5>1. t[i] \in {"-", "#"}
          BY <3>1 DEF LineOpens, Pair
        <5>. QED
          BY <1>2, <5>1 DEF CleanAt
      <4>. QED
        BY <3>1, <4>1, <4>2, CountLine
    <3>2. CASE ~LineOpens(t, i) /\ BlockOpens(t, i)
      <4>1. BlockEnds(t, i, s)
        BY <2>1, <3>2, CommentShape
      <4>. QED
        BY <3>2, <4>1, CountBlock
    <3>. QED
      BY <1>5, <3>1, <3>2
  <2>3. s # i /\ s \in Nat
    BY <1>1, <2>1
  <2>4. After(t, i) = s /\ MarkAt(t, i) = 0
    BY <1>2, <2>3 DEF After, MarkAt
  <2>. QED
    BY <1>3, <2>2, <2>3, <2>4
<1>6. CASE t[i] \notin Quotes /\ ~LineOpens(t, i) /\ ~BlockOpens(t, i)
  <2>1. s = i
    BY <1>2, <1>6, CommentShape DEF Span
  <2>2. f[i]["code"] = f[i + 1]["code"] + (IF t[i] = "?" THEN 1 ELSE 0)
    BY <1>6, CountModes
  <2>3. After(t, i) = i + 1 /\ MarkAt(t, i) = IF t[i] = "?" THEN 1 ELSE 0
    BY <1>2, <2>1 DEF After, MarkAt
  <2>. QED
    BY <2>2, <2>3
<1>. QED
  BY <1>4, <1>5, <1>6

\* The placeholders that a scan from p sees.
Marks(t, p) == {i \in Code(t, p) : t[i] = "?"}

\* No carriage return in the line comments that it sees.
Clean(t, p) == \A i \in Stops(t, p) : CleanAt(t, i)

\* What countPlaceholders counts are the placeholders that a scan sees.
LEMMA CountIsMarks ==
    ASSUME NEW t \in SQLTexts, Clean(t, 1)
    PROVE  /\ countPlaceholders(t) = Cardinality(Marks(t, 1))
           /\ IsFiniteSet(Marks(t, 1))
<1>1. PICK n : n = Len(t) /\ n \in Nat
  BY TextFacts
<1>2. PICK f : CountsOf(t, f)
  BY CountsExist
<1>3. "code" \in Modes
  BY DEF Modes
<1>. DEFINE Right(i) == IsFiniteSet(Marks(t, i)) /\ f[i]["code"] = Cardinality(Marks(t, i))
            T == {i \in Nat : i \in 1..(n + 1) /\ Clean(t, i) => Right(i)}
<1>4. Right(n + 1)
  <2>1. n + 1 \in 1..(n + 1) /\ n + 1 \in Nat /\ n + 1 > n
    BY <1>1
  <2>2. Stops(t, n + 1) \subseteq (n + 1)..n
    BY <1>1, <2>1, StopsRange
  <2>3. Marks(t, n + 1) = {}
    <3>1. Stops(t, n + 1) = {}
      BY <1>1, <2>2
    <3>. QED
      BY <3>1 DEF Marks, Code
  <2>4. f[n + 1]["code"] = 0
    BY <1>1, <1>2, <1>3, <2>1, CountsEnd
  <2>. QED
    BY <2>3, <2>4, FS_EmptySet
<1>5. ASSUME NEW i \in 1..n, Clean(t, i), Clean(t, After(t, i)) => Right(After(t, i)) PROVE Right(i)
  <2>1. PICK a : a = After(t, i) /\ a \in (i + 1)..(n + 1) /\ a \in Nat
    BY <1>1, ScanWalk
  <2>2. Stops(t, i) = {i} \cup Stops(t, a)
    BY <1>1, <2>1, StopsAfter
  <2>3. Clean(t, a) /\ CleanAt(t, i)
    BY <1>5, <2>2 DEF Clean
  <2>4. f[i]["code"] = f[a]["code"] + MarkAt(t, i)
    BY <1>1, <1>2, <2>1, <2>3, CountAfter
  <2>5. IsFiniteSet(Marks(t, a)) /\ f[a]["code"] = Cardinality(Marks(t, a))
    BY <1>5, <2>1, <2>3
  <2>6. i \notin Marks(t, a)
    <3>1. Stops(t, a) \subseteq a..n
      BY <1>1, <2>1, StopsRange
    <3>. QED
      BY <1>1, <2>1, <3>1 DEF Marks, Code
  <2>7. Cardinality(Marks(t, a)) \in Nat
    BY <2>5, FS_CardinalityType
  <2>8. CASE Span(t, i) = i /\ t[i] = "?"
    <3>1. Marks(t, i) = Marks(t, a) \cup {i} /\ MarkAt(t, i) = 1
      BY <2>2, <2>8 DEF Marks, Code, MarkAt
    <3>2. /\ IsFiniteSet(Marks(t, a) \cup {i})
          /\ Cardinality(Marks(t, a) \cup {i}) = Cardinality(Marks(t, a)) + 1
      BY <2>5, <2>6, FS_AddElement
    <3>. QED
      BY <2>4, <2>5, <3>1, <3>2
  <2>9. CASE ~(Span(t, i) = i /\ t[i] = "?")
    <3>1. Marks(t, i) = Marks(t, a) /\ MarkAt(t, i) = 0
      BY <2>2, <2>9 DEF Marks, Code, MarkAt
    <3>. QED
      BY <2>4, <2>5, <2>7, <3>1
  <2>. QED
    BY <2>8, <2>9
<1>. HIDE DEF Right
<1>6. ASSUME NEW i \in Nat, \A j \in Nat : i < j /\ j <= n + 1 => j \in T, i <= n + 1 PROVE i \in T
  <2>1. SUFFICES ASSUME i \in 1..(n + 1), Clean(t, i) PROVE Right(i)
    OBVIOUS
  <2>2. CASE i = n + 1
    BY <1>4, <2>2
  <2>3. CASE i \in 1..n
    <3>1. PICK a : a = After(t, i) /\ a \in (i + 1)..(n + 1) /\ a \in Nat /\ i < a /\ a \in 1..(n + 1)
      BY <1>1, <2>3, ScanWalk
    <3>2. a \in T
      BY <1>1, <1>6, <3>1
    <3>. QED
      BY <1>5, <2>1, <2>3, <3>1, <3>2
  <2>. QED
    BY <1>1, <2>1, <2>2, <2>3
<1>. HIDE DEF T
<1>7. n + 1 \in Nat
  BY <1>1
<1>8. \A i \in 0..(n + 1) : i \in T
  BY <1>6, <1>7, Downward
<1>9. 1 \in 0..(n + 1) /\ 1 \in 1..(n + 1)
  BY <1>1
<1>10. Right(1)
  BY <1>8, <1>9 DEF T
<1>. QED
  BY <1>2, <1>10 DEF Right, CountsOf

-----------------------------------------------------------------------------
(* The placeholders of parts.                                              *)

\* Those that a scan from p sees at a + 1 .. e, and how many they are.
MarksIn(t, p, a, e) == {i \in Marks(t, p) : a < i /\ i <= e}
Held(t, p, a, e) == Cardinality(MarksIn(t, p, a, e))

\* They are finitely many positions of the text.
LEMMA HeldFacts ==
    ASSUME NEW t \in SQLTexts, NEW p \in 1..(Len(t) + 1), NEW a, NEW e
    PROVE  /\ MarksIn(t, p, a, e) \subseteq 1..Len(t)
           /\ IsFiniteSet(MarksIn(t, p, a, e)) /\ Held(t, p, a, e) \in Nat
<1>1. Len(t) \in Nat /\ Stops(t, p) \subseteq p..Len(t)
  BY TextFacts, StopsRange
<1>2. MarksIn(t, p, a, e) \subseteq 1..Len(t)
  BY <1>1 DEF MarksIn, Marks, Code
<1>3. IsFiniteSet(1..Len(t))
  BY <1>1, FS_Interval
<1>4. IsFiniteSet(MarksIn(t, p, a, e))
  BY <1>2, <1>3, FS_Subset
<1>. QED
  BY <1>2, <1>4, FS_CardinalityType DEF Held

\* They add up.
LEMMA HeldSplit ==
    ASSUME NEW t \in SQLTexts, NEW p \in 1..(Len(t) + 1), NEW a \in Nat, NEW b \in Nat, NEW e \in Nat,
           a <= b, b <= e
    PROVE  Held(t, p, a, e) = Held(t, p, a, b) + Held(t, p, b, e)
<1>1. PICK S, T, U : S = MarksIn(t, p, a, b) /\ T = MarksIn(t, p, b, e) /\ U = MarksIn(t, p, a, e)
  OBVIOUS
<1>2. /\ S \subseteq 1..Len(t) /\ T \subseteq 1..Len(t) /\ U \subseteq 1..Len(t)
      /\ IsFiniteSet(S) /\ IsFiniteSet(T)
      /\ Cardinality(S) \in Nat /\ Cardinality(T) \in Nat
  BY <1>1, HeldFacts DEF Held
<1>3. \A i \in 1..Len(t) : i \in U <=> i \in S \/ i \in T
  BY <1>1 DEF MarksIn
<1>4. U = S \cup T
  BY <1>2, <1>3
<1>5. \A i \in 1..Len(t) : ~(i \in S /\ i \in T)
  BY <1>1 DEF MarksIn
<1>6. S \cap T = {}
  BY <1>2, <1>5
<1>7. Cardinality(S \cup T) = Cardinality(S) + Cardinality(T) - Cardinality(S \cap T)
  BY <1>2, FS_Union
<1>8. Cardinality(U) = Cardinality(S) + Cardinality(T) - 0
  BY <1>4, <1>6, <1>7, FS_EmptySet
<1>. QED
  BY <1>1, <1>2, <1>8 DEF Held

\* There are none where no character is one.
LEMMA HeldNone ==
    ASSUME NEW t \in SQLTexts, NEW p \in 1..(Len(t) + 1), NEW a \in Nat, NEW e \in Nat,
           \A i \in (a + 1)..e : i <= Len(t) => t[i] # "?"
    PROVE  Held(t, p, a, e) = 0
<1>1. MarksIn(t, p, a, e) \subseteq 1..Len(t) /\ Len(t) \in Nat
  BY HeldFacts, TextFacts
<1>2. ASSUME NEW i \in MarksIn(t, p, a, e) PROVE FALSE
  <2>1. i \in 1..Len(t) /\ a < i /\ i <= e /\ t[i] = "?"
    BY <1>1 DEF MarksIn, Marks
  <2>2. i \in (a + 1)..e /\ i <= Len(t)
    BY <1>1, <2>1
  <2>. QED
    BY <2>1, <2>2
<1>3. MarksIn(t, p, a, e) = {}
  BY <1>2
<1>. QED
  BY <1>3, FS_EmptySet DEF Held

\* What a scan sees from a position that it comes to.
LEMMA HeldFrom ==
    ASSUME NEW t \in SQLTexts, NEW p \in 1..(Len(t) + 1), NEW i, Reaches(t, p, i),
           NEW a \in Nat, a + 1 >= i, NEW e
    PROVE  i \in 1..(Len(t) + 1) /\ Held(t, i, a, e) = Held(t, p, a, e)
<1>1. /\ i \in 1..(Len(t) + 1) /\ Len(t) \in Nat /\ i \in p..(Len(t) + 1)
      /\ Code(t, i) = {k \in Code(t, p) : k >= i}
  <2>1. Len(t) \in Nat /\ i \in p..(Len(t) + 1) /\ Code(t, i) = {k \in Code(t, p) : k >= i}
    BY ReachesRest, TextFacts
  <2>. QED
    BY <2>1
<1>2. MarksIn(t, i, a, e) \subseteq 1..Len(t) /\ MarksIn(t, p, a, e) \subseteq 1..Len(t)
  BY <1>1, HeldFacts
<1>3. ASSUME NEW k \in 1..Len(t) PROVE k \in MarksIn(t, i, a, e) <=> k \in MarksIn(t, p, a, e)
  <2>1. a < k => k >= i
    BY <1>1
  <2>. QED
    BY <1>1, <2>1 DEF MarksIn, Marks
<1>4. MarksIn(t, i, a, e) = MarksIn(t, p, a, e)
  BY <1>2, <1>3
<1>. QED
  BY <1>1, <1>4 DEF Held

\* A text of no carriage returns in line comments: all that countPlaceholders counts.
LEMMA CountIsHeld ==
    ASSUME NEW t \in SQLTexts, Clean(t, 1)
    PROVE  countPlaceholders(t) = Held(t, 1, 0, Len(t))
<1>1. Len(t) \in Nat /\ 1 \in 1..(Len(t) + 1) /\ Stops(t, 1) \subseteq 1..Len(t)
  <2>1. 1 \in 1..(Len(t) + 1) /\ Len(t) \in Nat
    BY ReachesFirst, TextFacts
  <2>. QED
    BY <2>1, StopsRange
<1>2. \A i \in Marks(t, 1) : 0 < i /\ i <= Len(t)
  BY <1>1 DEF Marks, Code
<1>3. MarksIn(t, 1, 0, Len(t)) = Marks(t, 1)
  BY <1>2 DEF MarksIn
<1>. QED
  BY <1>3, CountIsMarks DEF Held

\* A passage that ends with u: its comments are those of t, and so are its
\* placeholders.
LEMMA PassageCounts ==
    ASSUME NEW t, NEW p, NEW a, NEW u, NEW m, Passage(t, p, a, u, 0, m), Len(u) = m, Clean(t, p)
    PROVE  Clean(u, 1) /\ countPlaceholders(u) = Held(t, p, a, a + m)
<1>1. /\ t \in SQLTexts /\ u \in SQLTexts /\ a \in Nat /\ m \in Nat
      /\ a + m <= Len(t) /\ Len(t) \in Nat /\ p \in 1..(Len(t) + 1)
      /\ \A j \in 1..m : u[j + 0] = t[j + a]
  BY PassageFacts
<1>2. SeenAlike(t, p, a, u, 0, m)
  BY PassageAlike
<1>3. PICK z : z = 0 + 1 /\ z = 1
  OBVIOUS
<1>4. ASSUME NEW i \in 1..m
      PROVE  /\ u[i] = t[i + a]
             /\ i \in Stops(u, 1) <=> i + a \in Stops(t, p)
             /\ i \in Code(u, 1) <=> i + a \in Code(t, p)
             /\ i + a \in Stops(t, p) => Span(u, i) + a <= Span(t, i + a)
  <2>1. i + 0 = i
    OBVIOUS
  <2>2. /\ i + 0 \in Stops(u, z) <=> i + a \in Stops(t, p)
        /\ i + 0 \in Code(u, z) <=> i + a \in Code(t, p)
        /\ i + a \in Stops(t, p) => Span(u, i + 0) + a <= Span(t, i + a) + 0
    BY <1>2, <1>3 DEF SeenAlike
  <2>3. i + a \in 1..Len(t)
    BY <1>1
  <2>4. Span(t, i + a) + 0 = Span(t, i + a)
    <3>1. Span(t, i + a) \in Nat
      BY <1>1, <2>3, SpanRange
    <3>. QED
      BY <3>1
  <2>. QED
    BY <1>1, <1>3, <2>1, <2>2, <2>4
<1>5. Stops(u, 1) \subseteq 1..m
  <2>1. 1 \in 1..(Len(u) + 1)
    BY <1>1, ReachesFirst
  <2>. QED
    BY <1>1, <2>1, StopsRange
<1>6. Clean(u, 1)
  <2>1. ASSUME NEW i \in Stops(u, 1), u[i] \in {"-", "#"}, NEW j \in i..(Span(u, i) - 1)
        PROVE  u[j] # "\r"
    <3>1. PICK k \in 1..Len(t) : k = i + a /\ i \in 1..m
      <4>1. i + a \in 1..Len(t) /\ i \in 1..m
        BY <1>1, <1>5
      <4>. QED
        BY <4>1
    <3>2. k \in Stops(t, p) /\ t[k] \in {"-", "#"} /\ Span(u, i) + a <= Span(t, k)
      BY <1>4, <2>1, <3>1
    <3>3. Span(u, i) \in i..(m + 1) /\ Span(t, k) \in Nat
      BY <1>1, <3>1, SpanRange
    <3>4. j \in 1..m /\ j + a \in k..(Span(t, k) - 1)
      <4>1. j \in Nat /\ j >= i /\ j <= Span(u, i) - 1 /\ Span(u, i) \in Nat /\ Span(u, i) <= m + 1
        BY <1>5, <2>1, <3>1, <3>3
      <4>2. j \in 1..m
        BY <1>1, <3>1, <4>1
      <4>3. j + a >= k /\ j + a <= Span(t, k) - 1
        BY <1>1, <3>1, <3>2, <3>3, <4>1
      <4>. QED
        BY <1>1, <3>3, <4>2, <4>3
    <3>5. t[j + a] # "\r"
      BY <3>2, <3>4 DEF Clean, CleanAt
    <3>. QED
      BY <1>4, <3>4, <3>5
  <2>. QED
    BY <2>1 DEF Clean, CleanAt
<1>7. PICK S, T : S = Marks(u, 1) /\ T = MarksIn(t, p, a, a + m)
  OBVIOUS
<1>8. /\ S \subseteq 1..m /\ \A i \in 1..m : i \in S <=> i + a \in T
      /\ T \subseteq (a + 1)..(a + m)
  <2>1. S \subseteq 1..m
    BY <1>5, <1>7 DEF Marks, Code
  <2>2. ASSUME NEW i \in 1..m PROVE i \in S <=> i + a \in T
    <3>1. a < i + a /\ i + a <= a + m
      BY <1>1
    <3>. QED
      BY <1>4, <1>7, <3>1 DEF Marks, MarksIn
  <2>3. T \subseteq 1..Len(t) /\ \A i \in T : a < i /\ i <= a + m
    BY <1>1, <1>7, HeldFacts DEF MarksIn
  <2>4. T \subseteq (a + 1)..(a + m)
    BY <1>1, <2>3
  <2>. QED
    BY <2>1, <2>2, <2>4
<1>9. ExistsBijection(S, T)
  <2>. DEFINE g == [i \in S |-> i + a]
  <2>1. g \in [S -> T]
    BY <1>8
  <2>2. \A i \in S, j \in S : g[i] = g[j] => i = j
    BY <1>1, <1>8
  <2>3. ASSUME NEW k \in T PROVE \E i \in S : g[i] = k
    <3>1. k - a \in 1..m /\ (k - a) + a = k
      BY <1>1, <1>8
    <3>2. k - a \in S
      BY <1>8, <3>1
    <3>. QED
      BY <3>1, <3>2
  <2>. HIDE DEF g
  <2>4. g \in Bijection(S, T)
    BY <2>1, <2>2, <2>3 DEF Bijection, Injection, IsInjective, Surjection
  <2>. QED
    BY <2>4 DEF ExistsBijection
<1>10. countPlaceholders(u) = Cardinality(S) /\ IsFiniteSet(S)
  BY <1>1, <1>6, <1>7, CountIsMarks
<1>11. Cardinality(T) = Cardinality(S)
  BY <1>9, <1>10, FS_Bijection
<1>. QED
  BY <1>6, <1>7, <1>10, <1>11 DEF Held

-----------------------------------------------------------------------------
(* Sums.                                                                   *)

\* A function that adds up numbers.
AddsUp(numbers, g) ==
    /\ g[0] = 0
    /\ \A n \in 1..Len(numbers) : g[n] = g[n - 1] + numbers[n]

\* There is one.
LEMMA SumExists ==
    ASSUME NEW numbers \in Seq(Nat)
    PROVE  \E g \in [0..Len(numbers) -> Nat] : AddsUp(numbers, g)
<1>1. PICK l \in Nat, V \in {Nat}, basis \in {0} : l = Len(numbers)
  BY LenProperties
<1>2. \A n \in 1..l : numbers[n] \in Nat
  BY <1>1, ElementOfSeq
<1>. DEFINE G == [x \in (1..l) \X V |-> x[2] + numbers[x[1]]]
<1>3. G \in [(1..l) \X V -> V] /\ basis \in V
  BY <1>1, <1>2
<1>4. \A n \in 1..l, k \in V : G[<<n, k>>] = k + numbers[n]
  OBVIOUS
<1>. HIDE DEF G
<1>5. PICK f \in [0..l -> V] : IsForward(f, l, basis, G)
  BY <1>3, ForwardExists
<1>6. ASSUME NEW n \in 1..l PROVE f[n] = f[n - 1] + numbers[n]
  <2>1. n \in 0..l /\ n # 0 /\ f[n - 1] \in V
    BY <1>6
  <2>2. f[n] = G[<<n, f[n - 1]>>]
    BY <1>5, <2>1 DEF IsForward
  <2>. QED
    BY <1>4, <2>1, <2>2
<1>7. f[0] = 0
  <2>1. 0 \in 0..l
    OBVIOUS
  <2>. QED
    BY <1>1, <1>5, <2>1 DEF IsForward
<1>. QED
  BY <1>1, <1>6, <1>7 DEF AddsUp

\* Their sum is what such a function has at the end.
LEMMA SumIs ==
    ASSUME NEW numbers \in Seq(Nat), NEW g, AddsUp(numbers, g)
    PROVE  SumOf(numbers) = g[Len(numbers)] /\ SumOf(numbers) \in Nat
<1>1. PICK l \in Nat : l = Len(numbers)
  BY LenProperties
<1>2. \A n \in 1..l : numbers[n] \in Nat
  BY <1>1, ElementOfSeq
<1>3. PICK f \in [0..l -> Nat] : AddsUp(numbers, f)
  BY <1>1, SumExists
<1>4. ASSUME NEW n \in 0..l PROVE f[n] = IF n = 0 THEN 0 ELSE f[n - 1] + numbers[n]
  BY <1>1, <1>3 DEF AddsUp
<1>7. f = [n \in 0..l |-> IF n = 0 THEN 0 ELSE f[n - 1] + numbers[n]]
  BY <1>4
<1>. DEFINE F(h) == [n \in 0..Len(numbers) |-> IF n = 0 THEN 0 ELSE h[n - 1] + numbers[n]]
<1>8. f = F(f)
  BY <1>1, <1>7
<1>9. SumOf(numbers) = (CHOOSE h : h = F(h))[Len(numbers)]
  BY DEF SumOf
<1>10. PICK h : h = F(h) /\ SumOf(numbers) = h[Len(numbers)]
  <2>1. \E h : h = F(h)
    BY <1>8
  <2>. HIDE DEF F
  <2>. QED
    BY <1>9, <2>1
<1>11. \A n \in 0..l : h[n] = IF n = 0 THEN 0 ELSE h[n - 1] + numbers[n]
  BY <1>1, <1>10
<1>. DEFINE T == {n \in Nat : n <= l => h[n] \in Nat /\ h[n] = g[n]}
<1>12. ASSUME NEW n \in Nat, \A j \in Nat : j < n => j \in T PROVE n \in T
  <2>1. CASE n = 0
    BY <1>11, <2>1 DEF AddsUp
  <2>2. ASSUME n # 0, n <= l PROVE h[n] \in Nat /\ h[n] = g[n]
    <3>1. n - 1 \in Nat /\ n - 1 < n /\ n - 1 <= l /\ n \in 1..l /\ n \in 0..l
      BY <2>2
    <3>2. n - 1 \in T
      BY <1>12, <3>1
    <3>3. h[n - 1] \in Nat /\ h[n - 1] = g[n - 1]
      BY <3>1, <3>2
    <3>4. h[n] = h[n - 1] + numbers[n] /\ g[n] = g[n - 1] + numbers[n]
      BY <1>1, <1>11, <2>2, <3>1 DEF AddsUp
    <3>. QED
      BY <1>2, <3>1, <3>3, <3>4
  <2>. QED
    BY <2>1, <2>2
<1>. HIDE DEF T
<1>13. l \in T
  <2>1. \A n \in Nat : n \in T
    BY <1>12, Upward
  <2>. QED
    BY <2>1
<1>. QED
  BY <1>1, <1>10, <1>13 DEF T

\* countPlaceholders is a number, and so are the sums.
LEMMA CountType ==
    ASSUME NEW t \in SQLTexts
    PROVE  countPlaceholders(t) \in Nat
<1>1. PICK f : CountsOf(t, f)
  BY CountsExist
<1>2. f[1] \in Counts /\ "code" \in Modes
  BY <1>1 DEF CountsOf, Modes
<1>. QED
  BY <1>1, <1>2 DEF CountsOf, Counts

\* As is what it counts in several texts.
LEMMA CountAllType ==
    ASSUME NEW parts \in Seq(SQLTexts)
    PROVE  /\ [n \in 1..Len(parts) |-> countPlaceholders(parts[n])] \in Seq(Nat)
           /\ Len([n \in 1..Len(parts) |-> countPlaceholders(parts[n])]) = Len(parts)
           /\ CountAll(parts) \in Nat
<1>1. Len(parts) \in Nat /\ \A n \in 1..Len(parts) : parts[n] \in SQLTexts
  BY LenProperties, ElementOfSeq
<1>2. \A n \in 1..Len(parts) : countPlaceholders(parts[n]) \in Nat
  BY <1>1, CountType
<1>3. PICK numbers : numbers = [n \in 1..Len(parts) |-> countPlaceholders(parts[n])]
  OBVIOUS
<1>4. numbers \in Seq(Nat) /\ Len(numbers) = Len(parts)
  BY <1>1, <1>2, <1>3
<1>5. SumOf(numbers) \in Nat
  <2>1. PICK g : AddsUp(numbers, g)
    BY <1>4, SumExists
  <2>. QED
    BY <1>4, <2>1, SumIs
<1>. QED
  BY <1>3, <1>4, <1>5 DEF CountAll

\* What the rows of VALUES take.
RowsCount(rows) == SumOf([n \in 1..Len(rows) |-> CountAll(rows[n])])

\* It is a number.
LEMMA RowsCountType ==
    ASSUME NEW rows \in Seq(Seq(SQLTexts))
    PROVE  /\ [n \in 1..Len(rows) |-> CountAll(rows[n])] \in Seq(Nat)
           /\ Len([n \in 1..Len(rows) |-> CountAll(rows[n])]) = Len(rows)
           /\ RowsCount(rows) \in Nat
<1>1. Len(rows) \in Nat /\ \A n \in 1..Len(rows) : rows[n] \in Seq(SQLTexts)
  BY LenProperties, ElementOfSeq
<1>2. \A n \in 1..Len(rows) : CountAll(rows[n]) \in Nat
  BY <1>1, CountAllType
<1>3. PICK numbers : numbers = [n \in 1..Len(rows) |-> CountAll(rows[n])]
  OBVIOUS
<1>4. numbers \in Seq(Nat) /\ Len(numbers) = Len(rows)
  BY <1>1, <1>2, <1>3
<1>5. SumOf(numbers) \in Nat
  <2>1. PICK g : AddsUp(numbers, g)
    BY <1>4, SumExists
  <2>. QED
    BY <1>4, <2>1, SumIs
<1>. QED
  BY <1>3, <1>4, <1>5 DEF RowsCount

\* One row, and one before others.
LEMMA RowsCountMore ==
    ASSUME NEW row \in Seq(SQLTexts), NEW others \in Seq(Seq(SQLTexts))
    PROVE  /\ <<row>> \o others \in Seq(Seq(SQLTexts))
           /\ RowsCount(<<row>> \o others) = CountAll(row) + RowsCount(others)
<1>1. PICK rows, l, one : rows = one \o others /\ l = Len(others) /\ one = <<row>>
  OBVIOUS
<1>2. l \in Nat /\ one \in Seq(Seq(SQLTexts)) /\ Len(one) = 1 /\ one[1] = row
  BY <1>1, LenProperties
<1>3. /\ rows \in Seq(Seq(SQLTexts)) /\ Len(rows) = 1 + l
      /\ \A i \in 1..(1 + l) : rows[i] = IF i <= 1 THEN one[i] ELSE others[i - 1]
  BY <1>1, <1>2, ConcatProperties
<1>4. PICK numbers, numbers2 : /\ numbers = [n \in 1..Len(rows) |-> CountAll(rows[n])]
                               /\ numbers2 = [n \in 1..Len(others) |-> CountAll(others[n])]
  OBVIOUS
<1>5. /\ numbers \in Seq(Nat) /\ Len(numbers) = 1 + l /\ numbers2 \in Seq(Nat) /\ Len(numbers2) = l
      /\ RowsCount(rows) = SumOf(numbers) /\ RowsCount(others) = SumOf(numbers2)
  BY <1>1, <1>3, <1>4, RowsCountType DEF RowsCount
<1>6. PICK c \in Nat : c = CountAll(row)
  BY CountAllType
<1>7. PICK g : AddsUp(numbers2, g) /\ \A n \in 0..l : g[n] \in Nat
  <2>1. PICK g \in [0..l -> Nat] : AddsUp(numbers2, g)
    BY <1>5, SumExists
  <2>. QED
    BY <2>1
<1>. DEFINE h == [n \in 0..(1 + l) |-> IF n = 0 THEN 0 ELSE c + g[n - 1]]
<1>8. \A n \in 1..(1 + l) : h[n] = c + g[n - 1]
  BY <1>2
<1>9. h[0] = 0
  BY <1>2
<1>. HIDE DEF h
<1>10. AddsUp(numbers, h)
  <2>1. ASSUME NEW n \in 1..(1 + l) PROVE h[n] = h[n - 1] + numbers[n]
    <3>1. numbers[n] = CountAll(rows[n])
      BY <1>3, <1>4, <2>1
    <3>2. CASE n = 1
      <4>1. rows[n] = row
        <5>1. rows[n] = one[n]
          BY <1>3, <2>1, <3>2
        <5>. QED
          BY <1>2, <3>2, <5>1
      <4>2. h[n] = c + g[0] /\ h[n - 1] = 0 /\ g[0] = 0
        BY <1>7, <1>8, <1>9, <3>2 DEF AddsUp
      <4>. QED
        BY <1>6, <3>1, <4>1, <4>2
    <3>3. CASE n # 1
      <4>1. PICK k \in 1..l : k = n - 1 /\ k \in 1..(1 + l)
        <5>1. n - 1 \in 1..l /\ n - 1 \in 1..(1 + l)
          BY <1>2, <3>3
        <5>. QED
          BY <5>1
      <4>2. ~(n <= 1)
        BY <1>2, <3>3
      <4>3. rows[n] = others[k]
        BY <1>3, <4>1, <4>2
      <4>4. numbers2[k] = CountAll(others[k])
        BY <1>1, <1>4, <4>1
      <4>5. g[k] = g[k - 1] + numbers2[k]
        BY <1>5, <1>7, <4>1 DEF AddsUp
      <4>6. h[n] = c + g[k] /\ h[k] = c + g[k - 1]
        BY <1>8, <4>1
      <4>7. g[k] \in Nat /\ g[k - 1] \in Nat /\ numbers2[k] \in Nat
        <5>1. k \in 0..l /\ k - 1 \in 0..l
          BY <1>2
        <5>2. numbers2[k] \in Nat
          BY <1>5, ElementOfSeq
        <5>. QED
          BY <1>7, <5>1, <5>2
      <4>8. h[n] = h[k] + numbers2[k]
        BY <1>6, <4>5, <4>6, <4>7
      <4>. QED
        BY <3>1, <4>1, <4>3, <4>4, <4>8
    <3>. QED
      BY <3>2, <3>3
  <2>. QED
    BY <1>5, <1>9, <2>1 DEF AddsUp
<1>11. SumOf(numbers) = h[1 + l] /\ SumOf(numbers2) = g[l]
  BY <1>5, <1>7, <1>10, SumIs
<1>12. h[1 + l] = c + g[l]
  <2>1. 1 + l \in 1..(1 + l) /\ (1 + l) - 1 = l
    BY <1>2
  <2>. QED
    BY <1>8, <2>1
<1>. QED
  BY <1>1, <1>3, <1>5, <1>6, <1>11, <1>12

\* No rows take nothing.
LEMMA RowsCountNone == RowsCount(<<>>) = 0
<1>1. PICK numbers : numbers = [n \in 1..Len(<<>>) |-> CountAll(<<>>[n])]
  OBVIOUS
<1>2. numbers = <<>> /\ numbers \in Seq(Nat) /\ Len(numbers) = 0
  BY <1>1
<1>3. PICK g : g = [n \in {0} |-> 0]
  OBVIOUS
<1>4. AddsUp(numbers, g)
  BY <1>2, <1>3 DEF AddsUp
<1>5. SumOf(numbers) = g[0]
  BY <1>2, <1>4, SumIs
<1>. QED
  BY <1>1, <1>3, <1>5 DEF RowsCount

\* What countPlaceholders counts in the parts of a text is what it counts in the
\* text, if what separates them is no placeholder.
LEMMA PartsCount ==
    ASSUME NEW t \in SQLTexts, Clean(t, 1), NEW ch \in Characters \ {"?"}
    PROVE  /\ CutAt(t, TopLevel(t, ch)) \in Seq(SQLTexts)
           /\ CountAll(CutAt(t, TopLevel(t, ch))) = Held(t, 1, 0, Len(t))
<1>1. PICK parts, N, E : /\ parts = CutAt(t, TopLevel(t, ch)) /\ N = Cardinality(TopLevel(t, ch))
                         /\ E = Ends(t, TopLevel(t, ch))
  OBVIOUS
<1>2. parts \in Seq(SQLTexts) /\ N \in Nat /\ Len(parts) = N + 1
  BY <1>1, CutType
<1>3. EndsAre(t, TopLevel(t, ch), N, E)
  <2>1. TopLevel(t, ch) \in SUBSET (1..Len(t))
    BY TopLevelRange
  <2>. QED
    BY <1>1, <2>1, EndsFacts
<1>4. Len(t) \in Nat /\ 1 \in 1..(Len(t) + 1)
  BY TextFacts, ReachesFirst
<1>5. E \in [0..(N + 1) -> 0..(Len(t) + 1)] /\ E[0] = 0 /\ E[N + 1] = Len(t) + 1
  BY <1>3 DEF EndsAre
<1>6. PICK numbers : numbers = [n \in 1..Len(parts) |-> countPlaceholders(parts[n])]
  OBVIOUS
<1>7. numbers \in Seq(Nat) /\ Len(numbers) = N + 1 /\ CountAll(parts) = SumOf(numbers)
  BY <1>2, <1>6, CountAllType DEF CountAll
<1>8. ASSUME NEW n \in 1..(N + 1)
      PROVE  Held(t, 1, 0, E[n]) = Held(t, 1, 0, E[n - 1]) + countPlaceholders(parts[n])
  <2>1. PICK a, e : PartAt(t, ch, n, a, e)
    BY <1>1, PartExists
  <2>2. /\ a \in Nat /\ e \in Nat /\ a <= e /\ e <= Len(t)
        /\ a = E[n - 1] /\ e + 1 = E[n] /\ parts[n] = SubSeq(t, a + 1, e)
        /\ e = Len(t) \/ e + 1 \in TopLevel(t, ch)
    BY <1>1, <2>1 DEF PartAt
  <2>3. PICK s \in SQLTexts : s = parts[n] /\ Len(s) = e - a
    BY <2>2, SubText
  <2>4. Within(SubSeq(t, a + 1, e), 0, s)
    BY <2>2, <2>3, AllWithin
  <2>5. Passage(t, 1, a + 0, s, 0, Len(s))
    BY <2>1, <2>4, PartAlike
  <2>6. PICK m \in Nat : m = Len(s) /\ a + m = e /\ a + 0 = a
    <3>1. e - a \in Nat /\ a + (e - a) = e /\ a + 0 = a
      BY <2>2
    <3>. QED
      BY <2>3, <3>1
  <2>7. Passage(t, 1, a, s, 0, m)
    BY <2>5, <2>6
  <2>8. countPlaceholders(s) = Held(t, 1, a, e)
    BY <2>6, <2>7, PassageCounts
  <2>9. Held(t, 1, e, e + 1) = 0
    <3>1. ASSUME NEW i \in (e + 1)..(e + 1), i <= Len(t) PROVE t[i] # "?"
      <4>1. i = e + 1 /\ i \in TopLevel(t, ch)
        BY <1>4, <2>2, <3>1
      <4>2. t[i] = ch
        BY <4>1, TopLevelRange
      <4>. QED
        BY <4>2
    <3>2. e + 1 \in Nat
      BY <2>2
    <3>. QED
      BY <1>4, <2>2, <3>1, <3>2, HeldNone
  <2>10. /\ Held(t, 1, 0, e) = Held(t, 1, 0, a) + Held(t, 1, a, e)
         /\ Held(t, 1, 0, e + 1) = Held(t, 1, 0, e) + Held(t, 1, e, e + 1)
    <3>1. 0 \in Nat /\ 0 <= a /\ 0 <= e /\ e + 1 \in Nat /\ e <= e + 1
      BY <2>2
    <3>. QED
      BY <1>4, <2>2, <3>1, HeldSplit
  <2>11. Held(t, 1, 0, e) \in Nat
    BY <1>4, HeldFacts
  <2>12. Held(t, 1, 0, e + 1) = Held(t, 1, 0, e)
    BY <2>9, <2>10, <2>11
  <2>. QED
    BY <2>2, <2>3, <2>8, <2>10, <2>12
<1>. DEFINE g == [n \in 0..(N + 1) |-> Held(t, 1, 0, E[n])]
<1>9. \A n \in 0..(N + 1) : g[n] = Held(t, 1, 0, E[n])
  OBVIOUS
<1>. HIDE DEF g
<1>10. AddsUp(numbers, g)
  <2>1. g[0] = 0
    <3>1. Held(t, 1, 0, 0) = 0
      <4>1. \A i \in (0 + 1)..0 : i <= Len(t) => t[i] # "?"
        OBVIOUS
      <4>. QED
        BY <1>4, <4>1, HeldNone
    <3>2. 0 \in 0..(N + 1)
      BY <1>2
    <3>. QED
      BY <1>5, <1>9, <3>1, <3>2
  <2>2. ASSUME NEW n \in 1..(N + 1) PROVE g[n] = g[n - 1] + numbers[n]
    <3>1. n \in 0..(N + 1) /\ n - 1 \in 0..(N + 1) /\ n \in 1..Len(parts)
      BY <1>2
    <3>2. numbers[n] = countPlaceholders(parts[n])
      BY <1>6, <3>1
    <3>. QED
      BY <1>8, <1>9, <3>1, <3>2
  <2>. QED
    BY <1>7, <2>1, <2>2 DEF AddsUp
<1>11. SumOf(numbers) = g[N + 1]
  BY <1>7, <1>10, SumIs
<1>12. g[N + 1] = Held(t, 1, 0, Len(t) + 1)
  <2>1. N + 1 \in 0..(N + 1)
    BY <1>2
  <2>. QED
    BY <1>5, <1>9, <2>1
<1>13. Held(t, 1, 0, Len(t) + 1) = Held(t, 1, 0, Len(t))
  <2>1. 0 <= Len(t) /\ Len(t) + 1 \in Nat /\ Len(t) <= Len(t) + 1
    BY <1>4
  <2>2. Held(t, 1, Len(t), Len(t) + 1) = 0
    <3>1. \A i \in (Len(t) + 1)..(Len(t) + 1) : i <= Len(t) => t[i] # "?"
      BY <1>4
    <3>. QED
      BY <1>4, <2>1, <3>1, HeldNone
  <2>3. Held(t, 1, 0, Len(t) + 1) = Held(t, 1, 0, Len(t)) + Held(t, 1, Len(t), Len(t) + 1)
    BY <1>4, <2>1, HeldSplit
  <2>4. Held(t, 1, 0, Len(t)) \in Nat
    BY <1>4, HeldFacts
  <2>. QED
    BY <2>2, <2>3, <2>4
<1>. QED
  BY <1>1, <1>2, <1>7, <1>11, <1>12, <1>13

-----------------------------------------------------------------------------
(* The rows of VALUES.                                                     *)

\* Where white space from p on ends.
LEMMA SkipFacts ==
    ASSUME NEW t \in SQLTexts, NEW p \in 1..(Len(t) + 1)
    PROVE  /\ skipSQLSpaces(t, p) \in p..(Len(t) + 1)
           /\ \A k \in p..(skipSQLSpaces(t, p) - 1) : t[k] \in Spaces
<1>1. PICK S, s : /\ S = {i \in p..Len(t) : t[i] \notin Spaces} /\ s = FirstOf(t, S)
                  /\ s = skipSQLSpaces(t, p)
  BY DEF skipSQLSpaces
<1>2. Len(t) \in Nat /\ p \in Nat /\ p >= 1
  BY TextFacts
<1>3. S \in SUBSET (1..Len(t)) /\ s = FirstOf(t, S)
  BY <1>1, <1>2
<1>4. /\ s \in 1..(Len(t) + 1) /\ \A x \in S : s <= x
      /\ s \in S \/ s = Len(t) + 1
  BY <1>3, FirstFacts
<1>5. s \in p..(Len(t) + 1)
  BY <1>1, <1>2, <1>4
<1>6. ASSUME NEW k \in p..(s - 1), t[k] \notin Spaces PROVE FALSE
  <2>1. k \in p..Len(t)
    BY <1>2, <1>5
  <2>2. k \in S
    BY <1>1, <1>6, <2>1
  <2>. QED
    BY <1>2, <1>4, <1>5, <2>2
<1>. QED
  BY <1>1, <1>5, <1>6

\* A row at i: its parenthesis opens behind white space and closes at c, the next
\* text is at next.
RowAt(t, i, open, c, next) ==
    /\ open \in i..Len(t) /\ \A k \in i..(open - 1) : t[k] \in Spaces
    /\ Closes(t, open, c)
    /\ next \in (c + 1)..(Len(t) + 1) /\ \A k \in (c + 1)..(next - 1) : t[k] \in Spaces

\* Its expressions.
Expressions(t, open, c) == splitSQLTopLevelList(SubSeq(t, open + 1, c - 1))

\* What the rows from i on are, from the rows further on.
RowsNext(t, i, f) ==
    LET open == skipSQLSpaces(t, i)
        end == parenthesizedSQLSpan(t, open)
        next == skipSQLSpaces(t, end)
        row == <<splitSQLTopLevelList(SubSeq(t, open + 1, end - 2))>>
    IN IF open > Len(t) THEN {<<>>}
       ELSE IF end = 0 THEN {}
       ELSE IF next > Len(t) THEN {row}
       ELSE IF t[next] # "," THEN {}
       ELSE {row \o others : others \in f[next + 1]}

\* There are none, or a row at i and those behind it.
NoneFrom(t, i) ==
    \E open \in i..(Len(t) + 1) :
        open = Len(t) + 1 /\ \A k \in i..(open - 1) : t[k] \in Spaces
LastRow(row) == {<<row>>}
RowsBehind(row, rest) == {<<row>> \o others : others \in rest}

\* They are one of these.
LEMMA RowsNextShape ==
    ASSUME NEW t \in SQLTexts, NEW i \in 1..(Len(t) + 1)
    PROVE  \/ NoneFrom(t, i) /\ \A f : RowsNext(t, i, f) = {<<>>}
           \/ \A f : RowsNext(t, i, f) = {}
           \/ \E open, c, next :
                 /\ RowAt(t, i, open, c, next)
                 /\ \/ next = Len(t) + 1 /\ \A f : RowsNext(t, i, f) = LastRow(Expressions(t, open, c))
                    \/ /\ next <= Len(t) /\ t[next] = ","
                       /\ \A f : RowsNext(t, i, f) = RowsBehind(Expressions(t, open, c), f[next + 1])
<1>1. PICK open, end, next, row :
          /\ open = skipSQLSpaces(t, i) /\ end = parenthesizedSQLSpan(t, open)
          /\ next = skipSQLSpaces(t, end)
          /\ row = splitSQLTopLevelList(SubSeq(t, open + 1, end - 2))
  OBVIOUS
<1>2. \A f : RowsNext(t, i, f) =
                 IF open > Len(t) THEN {<<>>}
                 ELSE IF end = 0 THEN {}
                 ELSE IF next > Len(t) THEN LastRow(row)
                 ELSE IF t[next] # "," THEN {}
                 ELSE RowsBehind(row, f[next + 1])
  BY <1>1 DEF RowsNext, LastRow, RowsBehind
<1>3. Len(t) \in Nat /\ open \in i..(Len(t) + 1) /\ \A k \in i..(open - 1) : t[k] \in Spaces
  BY <1>1, SkipFacts, TextFacts
<1>4. CASE open > Len(t)
  <2>1. open = Len(t) + 1
    BY <1>3, <1>4
  <2>2. NoneFrom(t, i)
    BY <1>3, <2>1 DEF NoneFrom
  <2>. QED
    BY <1>2, <1>4, <2>2
<1>5. CASE open <= Len(t) /\ end # 0
  <2>1. open \in 1..(Len(t) + 1) /\ open \in i..Len(t)
    BY <1>3, <1>5
  <2>2. PICK c \in Nat : Closes(t, open, c) /\ end = c + 1
    BY <1>1, <1>5, <2>1, ParenthesisCloses
  <2>3. c \in (open + 1)..Len(t)
    BY <2>2 DEF Closes
  <2>4. end \in 1..(Len(t) + 1)
    BY <1>3, <2>2, <2>3
  <2>5. next \in (c + 1)..(Len(t) + 1) /\ \A k \in (c + 1)..(next - 1) : t[k] \in Spaces
    BY <1>1, <2>2, <2>4, SkipFacts
  <2>6. RowAt(t, i, open, c, next)
    BY <1>3, <2>1, <2>2, <2>5 DEF RowAt
  <2>7. row = Expressions(t, open, c)
    <3>1. end - 2 = c - 1
      BY <2>2
    <3>. QED
      BY <1>1, <3>1 DEF Expressions
  <2>8. ~(open > Len(t))
    BY <1>3, <1>5
  <2>9. CASE next > Len(t)
    <3>1. next = Len(t) + 1
      BY <1>3, <2>5, <2>9
    <3>2. \A f : RowsNext(t, i, f) = LastRow(Expressions(t, open, c))
      BY <1>2, <1>5, <2>7, <2>8, <2>9
    <3>. QED
      BY <2>6, <3>1, <3>2
  <2>10. CASE ~(next > Len(t))
    <3>1. next <= Len(t)
      BY <1>3, <2>5, <2>10
    <3>2. CASE t[next] # ","
      BY <1>2, <1>5, <2>8, <2>10, <3>2
    <3>3. CASE t[next] = ","
      <4>1. \A f : RowsNext(t, i, f) = RowsBehind(Expressions(t, open, c), f[next + 1])
        BY <1>2, <1>5, <2>7, <2>8, <2>10, <3>3
      <4>. QED
        BY <2>6, <3>1, <3>3, <4>1
    <3>. QED
      BY <3>2, <3>3
  <2>. QED
    BY <2>9, <2>10
<1>6. CASE open <= Len(t) /\ end = 0
  <2>1. ~(open > Len(t))
    BY <1>3, <1>6
  <2>. QED
    BY <1>2, <1>6, <2>1
<1>7. open > Len(t) \/ (open <= Len(t) /\ end # 0) \/ (open <= Len(t) /\ end = 0)
  BY <1>3
<1>. QED
  BY <1>4, <1>5, <1>6, <1>7

\* The expressions of a row are texts.
LEMMA ExpressionsType ==
    ASSUME NEW t \in SQLTexts, NEW open, NEW c, Closes(t, open, c)
    PROVE  Expressions(t, open, c) \in Seq(SQLTexts)
<1>1. PICK w : w = SubSeq(t, open + 1, c - 1) /\ BodyAt(t, open, c, w)
  BY BodyAlike
<1>2. w \in SQLTexts
  BY <1>1 DEF BodyAt
<1>. QED
  BY <1>1, <1>2, CutType DEF Expressions, splitSQLTopLevelList

\* Rows, each of expressions.
Rows == Seq(Seq(SQLTexts))

\* No rows, one row and one before others are rows.
LEMMA RowSetsType ==
    ASSUME NEW row \in Seq(SQLTexts)
    PROVE  /\ <<>> \in Rows /\ <<row>> \in Rows
           /\ \A others \in Rows : <<row>> \o others \in Rows
<1>1. \A others \in Rows : <<row>> \o others \in Rows
  BY RowsCountMore DEF Rows
<1>2. <<>> \in Rows
  BY DEF Rows
<1>3. <<row>> \in Rows
  BY DEF Rows
<1>. QED
  BY <1>1, <1>2, <1>3

\* What they are depends on nothing but the rows further on.
LEMMA RowsNextType ==
    ASSUME NEW t \in SQLTexts, NEW i \in 1..(Len(t) + 1), NEW f,
           \A k \in (i + 1)..(Len(t) + 1) : f[k] \in SUBSET Rows
    PROVE  RowsNext(t, i, f) \in SUBSET Rows
<1>1. CASE RowsNext(t, i, f) = {<<>>}
  BY <1>1 DEF Rows
<1>2. CASE RowsNext(t, i, f) = {}
  BY <1>2
<1>3. ASSUME NEW open, NEW c, NEW next, RowAt(t, i, open, c, next),
             \/ RowsNext(t, i, f) = LastRow(Expressions(t, open, c))
             \/ next <= Len(t) /\ RowsNext(t, i, f) = RowsBehind(Expressions(t, open, c), f[next + 1])
      PROVE  RowsNext(t, i, f) \in SUBSET Rows
  <2>1. PICK row : row = Expressions(t, open, c)
    OBVIOUS
  <2>2. row \in Seq(SQLTexts)
    BY <1>3, <2>1, ExpressionsType DEF RowAt
  <2>3. <<row>> \in Rows /\ \A others \in Rows : <<row>> \o others \in Rows
    BY <2>2, RowSetsType
  <2>4. CASE RowsNext(t, i, f) = LastRow(row)
    BY <2>3, <2>4 DEF LastRow
  <2>5. CASE next <= Len(t) /\ RowsNext(t, i, f) = RowsBehind(row, f[next + 1])
    <3>1. next + 1 \in (i + 1)..(Len(t) + 1)
      <4>1. Len(t) \in Nat /\ open \in i..Len(t) /\ c \in (open + 1)..Len(t) /\ next \in (c + 1)..(Len(t) + 1)
        BY <1>3, TextFacts DEF RowAt, Closes
      <4>. QED
        BY <2>5, <4>1
    <3>2. PICK rest \in SUBSET Rows : rest = f[next + 1]
      BY <3>1
    <3>3. \A others \in rest : <<row>> \o others \in Rows
      BY <2>3, <3>2
    <3>. QED
      BY <2>5, <3>2, <3>3 DEF RowsBehind
  <2>. QED
    BY <1>3, <2>1, <2>4, <2>5
<1>. QED
  BY <1>1, <1>2, <1>3, RowsNextShape

\* Functions that agree there give the same.
LEMMA RowsNextAlike ==
    ASSUME NEW t \in SQLTexts, NEW i \in 1..(Len(t) + 1), NEW f, NEW g,
           \A k \in (i + 1)..(Len(t) + 1) : f[k] = g[k]
    PROVE  RowsNext(t, i, f) = RowsNext(t, i, g)
<1>1. ASSUME NEW open, NEW c, NEW next, RowAt(t, i, open, c, next), next <= Len(t)
      PROVE  f[next + 1] = g[next + 1]
  <2>1. Len(t) \in Nat /\ open \in i..Len(t) /\ c \in (open + 1)..Len(t) /\ next \in (c + 1)..(Len(t) + 1)
    BY <1>1, TextFacts DEF RowAt, Closes
  <2>2. next + 1 \in (i + 1)..(Len(t) + 1)
    BY <1>1, <2>1
  <2>. QED
    BY <2>2
<1>2. ASSUME NEW open, NEW c, NEW next, RowAt(t, i, open, c, next),
             \/ \A h : RowsNext(t, i, h) = LastRow(Expressions(t, open, c))
             \/ /\ next <= Len(t)
                /\ \A h : RowsNext(t, i, h) = RowsBehind(Expressions(t, open, c), h[next + 1])
      PROVE  RowsNext(t, i, f) = RowsNext(t, i, g)
  BY <1>1, <1>2
<1>3. CASE \A h : RowsNext(t, i, h) = {<<>>}
  BY <1>3
<1>4. CASE \A h : RowsNext(t, i, h) = {}
  BY <1>4
<1>. QED
  BY <1>2, <1>3, <1>4, RowsNextShape

\* RowsFrom is what its recursive definition says.
RowsOf(t, f) == \A i \in 1..(Len(t) + 1) : f[i] = RowsNext(t, i, f) /\ RowsFrom(t, i) = f[i]

\* There is such a function.
LEMMA RowsExist ==
    ASSUME NEW t \in SQLTexts
    PROVE  \E f : RowsOf(t, f)
<1>1. PICK n \in Nat, V \in {SUBSET Rows}, basis \in {{}} : n = Len(t) + 1 /\ basis \in V
  <2>1. Len(t) + 1 \in Nat /\ {} \in SUBSET Rows
    BY TextFacts
  <2>. QED
    BY <2>1
<1>. DEFINE G == [x \in (1..n) \X [Nat -> V] |-> RowsNext(t, x[1], x[2])]
<1>2. \A i \in 1..n, f \in [Nat -> V] : G[<<i, f>>] = RowsNext(t, i, f)
  OBVIOUS
<1>3. \A i \in 1..n, f \in [Nat -> V] : RowsNext(t, i, f) \in V
  <2>. TAKE i \in 1..n, f \in [Nat -> V]
  <2>1. i \in 1..(Len(t) + 1) /\ \A k \in (i + 1)..(Len(t) + 1) : f[k] \in SUBSET Rows
    BY <1>1
  <2>2. RowsNext(t, i, f) \in SUBSET Rows
    BY <2>1, RowsNextType
  <2>. QED
    BY <1>1, <2>2
<1>4. G \in [(1..n) \X [Nat -> V] -> V]
  BY <1>3
<1>. HIDE DEF G
<1>5. LooksAhead(n, V, G)
  <2>1. ASSUME NEW i \in 1..n, NEW f \in [Nat -> V], NEW g \in [Nat -> V],
               \A j \in Nat : j > i => f[j] = g[j]
        PROVE  G[<<i, f>>] = G[<<i, g>>]
    <3>1. i \in 1..(Len(t) + 1) /\ \A k \in (i + 1)..(Len(t) + 1) : f[k] = g[k]
      <4>1. \A k \in (i + 1)..n : k \in Nat /\ k > i
        OBVIOUS
      <4>. QED
        BY <1>1, <2>1, <4>1
    <3>2. RowsNext(t, i, f) = RowsNext(t, i, g)
      BY <3>1, RowsNextAlike
    <3>. QED
      BY <1>2, <3>2
  <2>. QED
    BY <1>4, <2>1 DEF LooksAhead
<1>6. PICK f \in [Nat -> V] : IsBackward(f, n, basis, G)
  BY <1>5, BackwardExists
<1>7. ASSUME NEW i \in 1..n PROVE i \in Nat /\ f[i] = RowsNext(t, i, f)
  <2>1. i \in Nat
    OBVIOUS
  <2>2. f[i] = G[<<i, f>>]
    BY <1>6, <2>1 DEF IsBackward
  <2>3. G[<<i, f>>] = RowsNext(t, i, f)
    BY <1>2
  <2>. QED
    BY <2>1, <2>2, <2>3
<1>. DEFINE Alike(h) == h = [i \in 1..(Len(t) + 1) |-> RowsNext(t, i, h)]
            g == [i \in 1..n |-> f[i]]
<1>8. \A i \in 1..n : g[i] = f[i]
  OBVIOUS
<1>9. ASSUME NEW i \in 1..n PROVE f[i] = RowsNext(t, i, g)
  <2>1. i \in 1..(Len(t) + 1) /\ \A k \in (i + 1)..(Len(t) + 1) : f[k] = g[k]
    <3>1. \A k \in (i + 1)..n : k \in 1..n
      OBVIOUS
    <3>2. \A k \in (i + 1)..n : f[k] = g[k]
      BY <1>8, <3>1
    <3>. QED
      BY <1>1, <3>2
  <2>. HIDE DEF g
  <2>2. RowsNext(t, i, f) = RowsNext(t, i, g)
    BY <2>1, RowsNextAlike
  <2>. QED
    BY <1>7, <2>2
<1>10. Alike(g)
  <2>1. g = [i \in 1..n |-> RowsNext(t, i, g)]
    <3>1. PICK h : h = g /\ h = [i \in 1..n |-> f[i]]
      OBVIOUS
    <3>2. \A i \in 1..n : f[i] = RowsNext(t, i, h)
      BY <1>9, <3>1
    <3>3. h = [i \in 1..n |-> RowsNext(t, i, h)]
      BY <3>1, <3>2
    <3>. QED
      BY <3>1, <3>3
  <2>. QED
    BY <1>1, <2>1
<1>. HIDE DEF g
<1>11. PICK h : h = CHOOSE r : Alike(r)
  OBVIOUS
<1>12. Alike(h)
  BY <1>10, <1>11
<1>13. \A i : RowsFrom(t, i) = h[i]
  BY <1>11 DEF RowsFrom, RowsNext
<1>14. \A i \in 1..(Len(t) + 1) : h[i] = RowsNext(t, i, h)
  BY <1>12
<1>. QED
  BY <1>13, <1>14 DEF RowsOf

\* A row takes the placeholders of its stretch of the text, and a scan comes to
\* what is behind it.
LEMMA RowTakes ==
    ASSUME NEW t \in SQLTexts, Clean(t, 1), NEW i \in 1..(Len(t) + 1), Reaches(t, 1, i),
           NEW open, NEW c, NEW next, RowAt(t, i, open, c, next)
    PROVE  /\ Expressions(t, open, c) \in Seq(SQLTexts)
           /\ CountAll(Expressions(t, open, c)) = Held(t, 1, i - 1, next - 1)
           /\ Reaches(t, 1, next)
<1>1. /\ Len(t) \in Nat /\ open \in i..Len(t) /\ \A k \in i..(open - 1) : t[k] \in Spaces
      /\ Closes(t, open, c) /\ t[open] = "(" /\ c \in (open + 1)..Len(t) /\ t[c] = ")"
      /\ c \in Code(t, open)
      /\ next \in (c + 1)..(Len(t) + 1) /\ \A k \in (c + 1)..(next - 1) : t[k] \in Spaces
  BY TextFacts DEF RowAt, Closes
<1>2. i \in Nat /\ i >= 1 /\ open \in Nat /\ open >= i /\ c \in Nat /\ c > open /\ next \in Nat /\ next > c
  BY <1>1
<1>3. 1 \in 1..(Len(t) + 1) /\ open \in 1..(Len(t) + 1) /\ open \in i..(Len(t) + 1)
  BY <1>1, <1>2
<1>4. Reaches(t, 1, open)
  BY <1>1, <1>2, <1>3, ReachesOverSpaces
<1>5. /\ Stops(t, open) = {k \in Stops(t, 1) : k >= open}
      /\ \A k : k >= open => (Reaches(t, open, k) <=> Reaches(t, 1, k))
  BY <1>3, <1>4, ReachesRest
<1>6. Clean(t, open)
  BY <1>5 DEF Clean
<1>7. PICK w : w = SubSeq(t, open + 1, c - 1) /\ BodyAt(t, open, c, w)
  BY <1>1, BodyAlike
<1>8. PICK m \in Nat, e \in Nat : m = Len(w) /\ e = c - 1 /\ open + m = e /\ w \in SQLTexts
  <2>1. w \in SQLTexts /\ Len(w) = c - open - 1
    BY <1>7 DEF BodyAt
  <2>2. c - open - 1 \in Nat /\ c - 1 \in Nat /\ open + (c - open - 1) = c - 1
    BY <1>2
  <2>. QED
    BY <2>1, <2>2
<1>9. Clean(w, 1) /\ countPlaceholders(w) = Held(t, open, open, e)
  <2>1. Passage(t, open, open, w, 0, m)
    BY <1>7, <1>8 DEF BodyAt
  <2>. QED
    BY <1>6, <1>8, <2>1, PassageCounts
<1>10. PICK row : row = Expressions(t, open, c) /\ row = CutAt(w, TopLevel(w, ","))
  BY <1>7 DEF Expressions, splitSQLTopLevelList
<1>11. row \in Seq(SQLTexts) /\ CountAll(row) = Held(t, open, open, e)
  <2>1. "," \in Characters \ {"?"}
    BY DEF Characters
  <2>2. row \in Seq(SQLTexts) /\ CountAll(row) = Held(w, 1, 0, Len(w))
    BY <1>8, <1>9, <1>10, <2>1, PartsCount
  <2>. QED
    BY <1>8, <1>9, <2>2, CountIsHeld
<1>12. Held(t, open, open, e) = Held(t, 1, open, e)
  <2>1. open + 1 >= open
    BY <1>2
  <2>. QED
    BY <1>2, <1>3, <1>4, <2>1, HeldFrom
<1>13. PICK a \in Nat, z \in Nat : a = i - 1 /\ z = next - 1 /\ a + 1 = i /\ e + 1 = c
                                  /\ a <= open /\ open <= e /\ e <= z
  <2>1. i - 1 \in Nat /\ next - 1 \in Nat /\ (i - 1) + 1 = i /\ e + 1 = c
        /\ i - 1 <= open /\ open <= e /\ e <= next - 1
    BY <1>2, <1>8
  <2>. QED
    BY <2>1
<1>14. Held(t, 1, a, open) = 0
  <2>1. ASSUME NEW k \in (a + 1)..open PROVE t[k] # "?"
    <3>1. k = open \/ k \in i..(open - 1)
      BY <1>2, <1>13
    <3>. QED
      BY <1>1, <3>1 DEF Spaces
  <2>. QED
    BY <1>2, <1>3, <2>1, HeldNone
<1>15. Held(t, 1, e, z) = 0
  <2>1. ASSUME NEW k \in (e + 1)..z PROVE t[k] # "?"
    <3>1. k = c \/ k \in (c + 1)..(next - 1)
      BY <1>2, <1>13
    <3>. QED
      BY <1>1, <3>1 DEF Spaces
  <2>. QED
    BY <1>3, <2>1, HeldNone
<1>16. Held(t, 1, a, z) = Held(t, 1, open, e)
  <2>1. Held(t, 1, a, z) = Held(t, 1, a, open) + Held(t, 1, open, z)
    <3>1. open <= z
      BY <1>2, <1>13
    <3>. QED
      BY <1>2, <1>3, <1>13, <3>1, HeldSplit
  <2>2. Held(t, 1, open, z) = Held(t, 1, open, e) + Held(t, 1, e, z)
    BY <1>2, <1>3, <1>13, HeldSplit
  <2>3. Held(t, 1, open, e) \in Nat
    BY <1>3, HeldFacts
  <2>. QED
    BY <1>14, <1>15, <2>1, <2>2, <2>3
<1>17. Reaches(t, 1, next)
  <2>1. Reaches(t, open, c + 1)
    BY <1>1, <1>3, ReachesCode
  <2>2. PICK x \in Nat : x = c + 1
    BY <1>2
  <2>3. next \in x..(Len(t) + 1) /\ \A k \in x..(next - 1) : t[k] \in Spaces
    BY <1>1, <2>2
  <2>4. Reaches(t, open, x)
    BY <2>1, <2>2
  <2>5. Reaches(t, open, next)
    BY <1>3, <2>3, <2>4, ReachesOverSpaces
  <2>6. next >= open
    BY <1>2
  <2>. QED
    BY <1>5, <2>5, <2>6
<1>. QED
  BY <1>10, <1>11, <1>12, <1>13, <1>16, <1>17

\* The rows from a position on take the placeholders from there to the end.
LEMMA RowsTake ==
    ASSUME NEW t \in SQLTexts, Clean(t, 1)
    PROVE  \A rows \in RowsFrom(t, 1) : RowsCount(rows) = countPlaceholders(t)
<1>1. PICK n \in Nat : n = Len(t) + 1 /\ Len(t) \in Nat /\ 1 \in 1..(Len(t) + 1) /\ Reaches(t, 1, 1)
  <2>1. Len(t) \in Nat /\ 1 \in 1..(Len(t) + 1) /\ Reaches(t, 1, 1)
    BY TextFacts, ReachesFirst
  <2>. QED
    BY <2>1
<1>2. PICK f : RowsOf(t, f)
  BY RowsExist
<1>. DEFINE Right(i) == \A rows \in f[i] : rows \in Rows /\ RowsCount(rows) = Held(t, 1, i - 1, Len(t))
            T == {i \in Nat : i \in 1..n /\ Reaches(t, 1, i) => Right(i)}
<1>3. ASSUME NEW i \in Nat, \A j \in Nat : i < j /\ j <= n => j \in T, i <= n PROVE i \in T
  <2>1. SUFFICES ASSUME i \in 1..n, Reaches(t, 1, i) PROVE Right(i)
    OBVIOUS
  <2>2. i \in 1..(Len(t) + 1) /\ f[i] = RowsNext(t, i, f)
    BY <1>1, <1>2, <2>1 DEF RowsOf
  <2>3. CASE f[i] = {}
    BY <2>3
  <2>4. CASE NoneFrom(t, i) /\ f[i] = {<<>>}
    <3>1. Held(t, 1, i - 1, Len(t)) = 0
      <4>1. \A k \in i..Len(t) : t[k] \in Spaces
        BY <1>1, <2>1, <2>4 DEF NoneFrom
      <4>2. PICK a \in Nat : a = i - 1 /\ a + 1 = i
        <5>1. i - 1 \in Nat /\ (i - 1) + 1 = i
          BY <2>1
        <5>. QED
          BY <5>1
      <4>3. \A k \in (a + 1)..Len(t) : t[k] # "?"
        BY <4>1, <4>2 DEF Spaces
      <4>4. Held(t, 1, a, Len(t)) = 0
        BY <1>1, <4>3, HeldNone
      <4>. QED
        BY <4>2, <4>4
    <3>2. <<>> \in Rows
      BY DEF Rows
    <3>. QED
      BY <2>4, <3>1, <3>2, RowsCountNone
  <2>5. ASSUME NEW open, NEW c, NEW next, RowAt(t, i, open, c, next), next = Len(t) + 1,
               f[i] = LastRow(Expressions(t, open, c))
        PROVE  Right(i)
    <3>1. PICK row : row = Expressions(t, open, c)
      OBVIOUS
    <3>2. row \in Seq(SQLTexts) /\ CountAll(row) = Held(t, 1, i - 1, next - 1)
      BY <2>1, <2>2, <2>5, <3>1, RowTakes
    <3>3. next - 1 = Len(t)
      BY <1>1, <2>5
    <3>4. <<row>> \o <<>> = <<row>> /\ <<row>> \in Rows
      BY <3>2, RowSetsType
    <3>5. RowsCount(<<row>>) = CountAll(row)
      <4>1. RowsCount(<<row>> \o <<>>) = CountAll(row) + RowsCount(<<>>)
        <5>1. <<>> \in Seq(Seq(SQLTexts))
          OBVIOUS
        <5>. QED
          BY <3>2, <5>1, RowsCountMore
      <4>2. CountAll(row) \in Nat
        BY <3>2, CountAllType
      <4>. QED
        BY <3>4, <4>1, <4>2, RowsCountNone
    <3>6. f[i] = {<<row>>}
      BY <2>5, <3>1 DEF LastRow
    <3>. QED
      BY <3>2, <3>3, <3>4, <3>5, <3>6
  <2>6. ASSUME NEW open, NEW c, NEW next, RowAt(t, i, open, c, next), next <= Len(t), t[next] = ",",
               f[i] = RowsBehind(Expressions(t, open, c), f[next + 1])
        PROVE  Right(i)
    <3>1. PICK row : row = Expressions(t, open, c)
      OBVIOUS
    <3>2. row \in Seq(SQLTexts) /\ CountAll(row) = Held(t, 1, i - 1, next - 1) /\ Reaches(t, 1, next)
      BY <2>1, <2>2, <2>6, <3>1, RowTakes
    <3>3. next \in 1..Len(t) /\ next > i
      <4>1. open \in i..Len(t) /\ c \in (open + 1)..Len(t) /\ next \in (c + 1)..(Len(t) + 1)
        BY <2>6 DEF RowAt, Closes
      <4>2. next <= Len(t)
        BY <2>6
      <4>. QED
        BY <1>1, <2>1, <4>1, <4>2
    <3>4. next \in Code(t, 1)
      <4>1. next \in Stops(t, 1)
        BY <1>1, <3>2, <3>3 DEF Reaches
      <4>2. Span(t, next) = next
        <5>1. t[next] \notin Quotes \cup {"-", "#", "/"}
          BY <2>6 DEF Quotes
        <5>. QED
          BY <3>3, <5>1, PlainSpan
      <4>. QED
        BY <4>1, <4>2 DEF Code
    <3>5. Reaches(t, 1, next + 1)
      BY <1>1, <3>4, ReachesCode
    <3>6. Right(next + 1)
      <4>1. next + 1 \in Nat /\ i < next + 1 /\ next + 1 <= n /\ next + 1 \in 1..n
        BY <1>1, <2>1, <3>3
      <4>2. next + 1 \in T
        BY <1>3, <4>1
      <4>. QED
        BY <3>5, <4>1, <4>2
    <3>7. (next + 1) - 1 = next
      BY <3>3
    <3>8. Held(t, 1, i - 1, Len(t)) = Held(t, 1, i - 1, next - 1) + Held(t, 1, next, Len(t))
      <4>1. PICK a \in Nat, b \in Nat : a = i - 1 /\ b = next - 1 /\ b + 1 = next /\ a <= b
        <5>1. i - 1 \in Nat /\ next - 1 \in Nat /\ (next - 1) + 1 = next /\ i - 1 <= next - 1
          BY <2>1, <3>3
        <5>. QED
          BY <5>1
      <4>2. next \in Nat /\ b <= next /\ a <= next /\ next <= Len(t)
        BY <3>3, <4>1
      <4>3. Held(t, 1, b, next) = 0
        <5>1. t[next] # "?"
          BY <2>6
        <5>2. \A k \in (b + 1)..next : k = next
          BY <4>1, <4>2
        <5>3. \A k \in (b + 1)..next : t[k] # "?"
          BY <5>1, <5>2
        <5>. QED
          BY <1>1, <4>2, <5>3, HeldNone
      <4>4. Held(t, 1, a, next) = Held(t, 1, a, b) + Held(t, 1, b, next)
        BY <1>1, <4>1, <4>2, HeldSplit
      <4>5. Held(t, 1, a, Len(t)) = Held(t, 1, a, next) + Held(t, 1, next, Len(t))
        BY <1>1, <4>1, <4>2, HeldSplit
      <4>6. Held(t, 1, a, b) \in Nat
        BY <1>1, HeldFacts
      <4>7. Held(t, 1, a, Len(t)) = Held(t, 1, a, b) + Held(t, 1, next, Len(t))
        BY <4>3, <4>4, <4>5, <4>6
      <4>. QED
        BY <4>1, <4>7
    <3>9. ASSUME NEW rows \in f[i]
          PROVE  rows \in Rows /\ RowsCount(rows) = Held(t, 1, i - 1, Len(t))
      <4>1. PICK others \in f[next + 1] : rows = <<row>> \o others
        BY <2>6, <3>1, <3>9 DEF RowsBehind
      <4>2. others \in Rows /\ RowsCount(others) = Held(t, 1, next, Len(t))
        BY <3>6, <3>7, <4>1
      <4>3. rows \in Rows /\ RowsCount(rows) = CountAll(row) + RowsCount(others)
        BY <3>2, <4>1, <4>2, RowsCountMore DEF Rows
      <4>. QED
        BY <3>2, <3>8, <4>2, <4>3
    <3>. QED
      BY <3>9
  <2>. HIDE DEF Right
  <2>7. ASSUME NEW open, NEW c, NEW next, RowAt(t, i, open, c, next),
               \/ next = Len(t) + 1 /\ \A h : RowsNext(t, i, h) = LastRow(Expressions(t, open, c))
               \/ /\ next <= Len(t) /\ t[next] = ","
                  /\ \A h : RowsNext(t, i, h) = RowsBehind(Expressions(t, open, c), h[next + 1])
        PROVE  Right(i)
    <3>1. CASE next = Len(t) + 1 /\ \A h : RowsNext(t, i, h) = LastRow(Expressions(t, open, c))
      BY <2>2, <2>5, <2>7, <3>1
    <3>2. CASE /\ next <= Len(t) /\ t[next] = ","
               /\ \A h : RowsNext(t, i, h) = RowsBehind(Expressions(t, open, c), h[next + 1])
      <4>1. f[i] = RowsBehind(Expressions(t, open, c), f[next + 1])
        BY <2>2, <3>2
      <4>. QED
        BY <2>6, <2>7, <3>2, <4>1
    <3>. QED
      BY <2>7, <3>1, <3>2
  <2>8. CASE NoneFrom(t, i) /\ \A h : RowsNext(t, i, h) = {<<>>}
    BY <2>2, <2>4, <2>8
  <2>9. CASE \A h : RowsNext(t, i, h) = {}
    BY <2>2, <2>3, <2>9
  <2>. QED
    BY <2>2, <2>7, <2>8, <2>9, RowsNextShape
<1>. HIDE DEF T
<1>4. \A i \in 0..n : i \in T
  BY <1>3, Downward
<1>5. Right(1)
  <2>1. 1 \in 0..n /\ 1 \in 1..n
    BY <1>1
  <2>2. 1 \in T
    BY <1>4, <2>1
  <2>. QED
    BY <1>1, <2>1, <2>2 DEF T
<1>6. RowsFrom(t, 1) = f[1] /\ 1 - 1 = 0
  BY <1>1, <1>2 DEF RowsOf
<1>. QED
  BY <1>5, <1>6, CountIsHeld

-----------------------------------------------------------------------------
(* Rows and update.                                                        *)

\* A part between two positions where a scan comes by, when trimmed, has the
\* placeholders that are there.
LEMMA TrimmedCounts ==
    ASSUME NEW t \in SQLTexts, Clean(t, 1), NEW a \in Nat, NEW e \in Nat, a <= e, e <= Len(t),
           Reaches(t, 1, a + 1), Reaches(t, 1, e + 1)
    PROVE  /\ Trim(SubSeq(t, a + 1, e)) \in SQLTexts /\ Clean(Trim(SubSeq(t, a + 1, e)), 1)
           /\ countPlaceholders(Trim(SubSeq(t, a + 1, e))) = Held(t, 1, a, e)
<1>1. PICK w : w = SubSeq(t, a + 1, e) /\ w \in SQLTexts
  BY SubText
<1>2. PICK o \in Nat, s \in {Trim(w)} : Within(w, o, s)
  BY <1>1, TrimWithin
<1>3. 1 \in 1..(Len(t) + 1) /\ Len(t) \in Nat /\ 1 <= a + 1
  BY ReachesFirst, TextFacts
<1>4. /\ Passage(t, 1, a + o, s, 0, Len(s)) /\ a + o + Len(s) <= e /\ s \in SQLTexts
      /\ \A k \in (a + 1)..(a + o) : t[k] \in Spaces
      /\ \A k \in (a + o + Len(s) + 1)..e : t[k] \in Spaces
  BY <1>1, <1>2, <1>3, PartPassage
<1>5. PICK b \in Nat, m \in Nat, c \in Nat :
          b = a + o /\ m = Len(s) /\ c = b + m /\ a <= b /\ b <= c /\ c <= e
  <2>1. Len(s) \in Nat
    BY <1>4, TextFacts
  <2>2. a + o \in Nat /\ a <= a + o /\ (a + o) + Len(s) \in Nat /\ a + o <= (a + o) + Len(s)
    BY <2>1
  <2>. QED
    BY <1>4, <2>1, <2>2
<1>6. Clean(s, 1) /\ countPlaceholders(s) = Held(t, 1, b, c)
  <2>1. Passage(t, 1, b, s, 0, m)
    BY <1>4, <1>5
  <2>. QED
    BY <1>5, <2>1, PassageCounts
<1>7. Held(t, 1, a, b) = 0
  <2>1. \A k \in (a + 1)..b : t[k] # "?"
    BY <1>4, <1>5 DEF Spaces
  <2>. QED
    BY <1>3, <2>1, HeldNone
<1>8. Held(t, 1, c, e) = 0
  <2>1. \A k \in (c + 1)..e : t[k] # "?"
    BY <1>4, <1>5 DEF Spaces
  <2>. QED
    BY <1>3, <2>1, HeldNone
<1>9. Held(t, 1, a, e) = Held(t, 1, b, c)
  <2>1. Held(t, 1, a, e) = Held(t, 1, a, b) + Held(t, 1, b, e)
    <3>1. b <= e
      BY <1>5
    <3>. QED
      BY <1>3, <1>5, <3>1, HeldSplit
  <2>2. Held(t, 1, b, e) = Held(t, 1, b, c) + Held(t, 1, c, e)
    BY <1>3, <1>5, HeldSplit
  <2>3. Held(t, 1, b, c) \in Nat
    BY <1>3, HeldFacts
  <2>. QED
    BY <1>7, <1>8, <2>1, <2>2, <2>3
<1>. QED
  BY <1>1, <1>2, <1>4, <1>6, <1>9

\* The rows and the update take what countPlaceholders counts in all.
LEMMA RowsAndUpdate ==
    ASSUME NEW t \in SQLTexts, Keyword(t) # {}, ~InLineComments(t, "\r"),
           NEW rows \in RowsFrom(InsertPart(t), 1)
    PROVE  countPlaceholders(t) = Taken(t, rows)
<1>1. Len(t) \in Nat /\ 1 \in 1..(Len(t) + 1) /\ Reaches(t, 1, 1)
  BY ReachesFirst, TextFacts
<1>2. Clean(t, 1)
  BY DEF InLineComments, Clean, CleanAt
<1>3. PICK k \in 1..Len(t) : k = Min(Keyword(t)) /\ k \in Code(t, 1) /\ t[k] = "k"
  <2>1. PICK S : S = Keyword(t) /\ S \in SUBSET (1..Len(t)) /\ \A i \in S : i \in Code(t, 1) /\ t[i] = "k"
    BY TopLevelRange DEF Keyword
  <2>2. PICK k \in S : k = Min(S)
    <3>1. S \in SUBSET Nat /\ S # {}
      BY <1>1, <2>1
    <3>. QED
      BY <3>1, LeastOf
  <2>. QED
    BY <2>1, <2>2
<1>4. Reaches(t, 1, k) /\ Reaches(t, 1, k + 1) /\ Reaches(t, 1, Len(t) + 1)
  <2>1. Reaches(t, 1, k + 1)
    BY <1>1, <1>3, ReachesCode
  <2>. QED
    BY <1>3, <2>1 DEF Reaches, Code
<1>5. PICK a \in Nat : a = k - 1 /\ a + 1 = k /\ a <= k /\ a <= Len(t) /\ k \in Nat /\ k <= Len(t)
  <2>1. k - 1 \in Nat /\ (k - 1) + 1 = k /\ k - 1 <= k /\ k - 1 <= Len(t) /\ k \in Nat /\ k <= Len(t)
    BY <1>1, <1>3
  <2>. QED
    BY <2>1
<1>6. PICK insert \in SQLTexts : /\ insert = InsertPart(t) /\ Clean(insert, 1)
                                 /\ countPlaceholders(insert) = Held(t, 1, 0, a)
  <2>1. PICK z \in Nat : z = 0 /\ z + 1 = 1 /\ z <= a
    BY <1>5
  <2>2. InsertPart(t) = Trim(SubSeq(t, z + 1, a))
    BY <1>3, <1>5, <2>1 DEF InsertPart
  <2>3. Reaches(t, 1, z + 1) /\ Reaches(t, 1, a + 1)
    BY <1>1, <1>4, <1>5, <2>1
  <2>4. /\ Trim(SubSeq(t, z + 1, a)) \in SQLTexts /\ Clean(Trim(SubSeq(t, z + 1, a)), 1)
        /\ countPlaceholders(Trim(SubSeq(t, z + 1, a))) = Held(t, 1, z, a)
    BY <1>2, <1>5, <2>1, <2>3, TrimmedCounts
  <2>. QED
    BY <2>1, <2>2, <2>4
<1>7. countPlaceholders(UpdatePart(t)) = Held(t, 1, k, Len(t))
  <2>1. UpdatePart(t) = Trim(SubSeq(t, k + 1, Len(t)))
    BY <1>3 DEF UpdatePart
  <2>2. countPlaceholders(Trim(SubSeq(t, k + 1, Len(t)))) = Held(t, 1, k, Len(t))
    BY <1>1, <1>2, <1>4, <1>5, TrimmedCounts
  <2>. QED
    BY <2>1, <2>2
<1>8. RowsCount(rows) = Held(t, 1, 0, a)
  <2>1. rows \in RowsFrom(insert, 1)
    BY <1>6
  <2>. QED
    BY <1>6, <2>1, RowsTake
<1>9. Held(t, 1, 0, Len(t)) = Held(t, 1, 0, a) + Held(t, 1, k, Len(t))
  <2>1. Held(t, 1, a, k) = 0
    <3>1. \A i \in (a + 1)..k : i = k
      BY <1>5
    <3>2. t[k] # "?"
      BY <1>3
    <3>3. \A i \in (a + 1)..k : t[i] # "?"
      BY <3>1, <3>2
    <3>. QED
      BY <1>1, <1>5, <3>3, HeldNone
  <2>2. /\ Held(t, 1, 0, k) = Held(t, 1, 0, a) + Held(t, 1, a, k)
        /\ Held(t, 1, 0, Len(t)) = Held(t, 1, 0, k) + Held(t, 1, k, Len(t))
    <3>1. 0 \in Nat /\ 0 <= a /\ 0 <= k
      BY <1>5
    <3>. QED
      BY <1>1, <1>5, <3>1, HeldSplit
  <2>3. Held(t, 1, 0, a) \in Nat
    BY <1>1, HeldFacts
  <2>. QED
    BY <2>1, <2>2, <2>3
<1>10. countPlaceholders(t) = Held(t, 1, 0, Len(t))
  BY <1>2, CountIsHeld
<1>11. Taken(t, rows) = RowsCount(rows) + countPlaceholders(UpdatePart(t))
  BY DEF Taken, RowsCount
<1>. QED
  BY <1>7, <1>8, <1>9, <1>10, <1>11

-----------------------------------------------------------------------------
(* The properties.                                                         *)

\* The text is one.
TextTyped == text \in SQLTexts

\* The text has its type.
LEMMA TextTypedInvariant == ScannerSpec => []TextTyped
<1>1. ScannerInit => TextTyped
  BY ScannerAssumption DEF ScannerInit, TextTyped, SQLTexts
<1>2. TextTyped /\ [Grow]_<<text, grown>> => TextTyped'
  <2>1. ASSUME TextTyped, Grow PROVE TextTyped'
    <3>1. PICK piece \in Pieces : text' = text \o piece
      BY <2>1 DEF Grow
    <3>2. piece \in Seq(Characters) /\ text \in Seq(Characters)
      BY <2>1, ScannerAssumption DEF TextTyped, SQLTexts
    <3>. QED
      BY <3>1, <3>2, ConcatProperties DEF TextTyped, SQLTexts
  <2>2. ASSUME TextTyped, UNCHANGED <<text, grown>> PROVE TextTyped'
    BY <2>2 DEF TextTyped
  <2>. QED
    BY <2>1, <2>2
<1>. QED
  BY <1>1, <1>2, PTL DEF ScannerSpec

\* For every text that beginnings and pieces make, however long: a part that the
\* scanners cut from it and scan again, alone, is what it was.  A statement is
\* one statement, an item of the body of CREATE TABLE closes what it opens.
THEOREM PartsAlone == ScannerSpec => []PartsStandAlone
<1>1. TextTyped => PartsStandAlone
  <2>1. SUFFICES ASSUME text \in SQLTexts PROVE PartsStandAlone
    BY DEF TextTyped
  <2>2. \A n \in 1..Len(splitSQLStatements(text)) :
           splitSQLStatements(splitSQLStatements(text)[n]) = <<splitSQLStatements(text)[n]>>
    BY <2>1, StatementsAlone
  <2>3. parenthesizedSQLSpan(text, 1) # 0 =>
           \A n \in 1..Len(BodyItems(text)) :
               parenthesizedSQLSpan(<<"(">> \o BodyItems(text)[n] \o <<")">>, 1)
                   = Len(BodyItems(text)[n]) + 3
    BY <2>1, ItemsAlone
  <2>. QED
    BY <2>2, <2>3 DEF PartsStandAlone
<1>. QED
  BY <1>1, TextTypedInvariant, PTL

\* For every text that beginnings and pieces make, however long: the arguments
\* of a prepared INSERT ... ON DUPLICATE KEY UPDATE are as many as its rows and
\* its update are handed, if no line comment holds a carriage return.
THEOREM ArgumentsReach == ScannerSpec => []ArgumentsReachTheirRows
<1>1. TextTyped => ArgumentsReachTheirRows
  <2>1. SUFFICES ASSUME text \in SQLTexts, Keyword(text) # {}, ~InLineComments(text, "\r"),
                        NEW rows \in RowsFrom(InsertPart(text), 1)
                 PROVE  countPlaceholders(text) = Taken(text, rows)
    BY DEF TextTyped, ArgumentsReachTheirRows
  <2>. QED
    BY <2>1, RowsAndUpdate
<1>. QED
  BY <1>1, TextTypedInvariant, PTL
=============================================================================
