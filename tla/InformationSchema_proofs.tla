---------------------- MODULE InformationSchema_proofs ----------------------
(***************************************************************************)
(* The answers of information_schema, for any number of sessions, tables,  *)
(* queries and resets: proofs of the invariants of InformationSchema.      *)
(*                                                                         *)
(* A mark or a stored result is either of an earlier schema version, which *)
(* no later query can have, or true of the schema as it is.  What makes    *)
(* that hold through a Reset is the order of its last steps: the version   *)
(* is bumped when the schema is whole again, so what was computed while it *)
(* was not carries the old version.  A change that bumps no version, by a  *)
(* client or by a Reset that fails, breaks it, until a Reset bumps the     *)
(* version.                                                                *)
(***************************************************************************)
EXTENDS InformationSchema, TLAPS

-----------------------------------------------------------------------------
(* Types and versions.                                                     *)

Places == {"idle", "lookup", "prepare", "refresh", "locked", "read", "store"}
Asks == [query : Kinds, calm : BOOLEAN, version : Versions,
         refreshVersion : Versions, got : Answers]
MarkSets == [full : Marks, list : Marks, schemata : Marks, table : [Tables -> Marks]]
Entries == [version : Marks, answer : Answers]

\* A Reset under way has yet to bump the version.
ResetTyped ==
    /\ schema \in SUBSET Tables
    /\ reset \in {"idle", "dropped", "applied", "bumped"}
    /\ resets \in 0..MaxResets /\ version \in Versions
    /\ version <= resets /\ (reset \in {"dropped", "applied"} => version < resets)
    /\ changed \in BOOLEAN

DatabaseTyped ==
    /\ rows \in Contents /\ undo \in Contents
    /\ writer \in Sessions \cup {NoSession} /\ readers \in SUBSET Sessions

\* No mark and no stored result is ahead of the version.
CacheTyped ==
    /\ marks \in MarkSets /\ results \in [Dbs \X Kinds -> Entries]
    /\ marks.full <= version /\ marks.list <= version /\ marks.schemata <= version
    /\ \A t \in Tables : marks.table[t] <= version
    /\ \A e \in Dbs \X Kinds : results[e].version <= version

\* Of the two versions a query reads, the second is no earlier.
AskBehind(k) ==
    /\ ask[k].version <= version /\ ask[k].refreshVersion <= version
    /\ pc[k] \in {"refresh", "locked"} => ask[k].version <= ask[k].refreshVersion

SessionsTyped ==
    /\ pc \in [Sessions -> Places] /\ ask \in [Sessions -> Asks]
    /\ \A k \in Sessions : AskBehind(k)

RestTyped ==
    /\ mutex \in Sessions \cup {NoSession} /\ inTx \in [Sessions -> BOOLEAN]
    /\ sent \in 0..MaxStatements /\ begun \in 0..MaxTransactions
    /\ misled \in BOOLEAN /\ undone \in BOOLEAN

TypeInv ==
    ResetTyped /\ DatabaseTyped /\ CacheTyped /\ SessionsTyped /\ RestTyped

LEMMA ConstantsOf ==
    /\ MaxResets \in Nat /\ MaxStatements \in Nat /\ MaxTransactions \in Nat
    /\ NotLoaded \in Int /\ NotLoaded < 0 /\ NotLoaded \in Marks
    /\ Versions \subseteq Nat /\ Marks \subseteq Int /\ 0 \in Versions
    /\ \A v \in Versions : v \in Marks
<1>1. MaxResets \in Nat /\ MaxStatements \in Nat /\ MaxTransactions \in Nat
  BY InformationSchemaAssumption
<1>. QED
  BY <1>1 DEF Versions, Marks, NotLoaded

LEMMA KindsOf ==
    /\ {"list", "all", "schemata"} \subseteq Kinds /\ Tables \subseteq Kinds
    /\ \A q \in Kinds : q \in Tables \/ q \in {"list", "all", "schemata"}
    /\ \A q \in Tables : q \notin {"list", "all", "schemata"}
    /\ Queries \subseteq Kinds /\ DbOf \in [Sessions -> Dbs]
BY InformationSchemaAssumption DEF Kinds

LEMMA NothingType ==
    /\ Nothing \in MarkSets /\ NoResults \in [Dbs \X Kinds -> Entries]
    /\ Nothing.full = NotLoaded /\ Nothing.list = NotLoaded /\ Nothing.schemata = NotLoaded
    /\ \A t \in Tables : Nothing.table[t] = NotLoaded
    /\ \A e \in Dbs \X Kinds : NoResults[e].version = NotLoaded
<1>1. NotLoaded \in Marks
  BY ConstantsOf
<1>2. [t \in Tables |-> NotLoaded] \in [Tables -> Marks]
  BY <1>1
<1>3. [version |-> NotLoaded, answer |-> {}] \in Entries
  BY <1>1 DEF Entries, Answers
<1>. QED
  BY <1>1, <1>2, <1>3 DEF Nothing, MarkSets, NoResults

LEMMA NoQueryType == NoQuery \in Asks /\ NoQuery.calm = FALSE
                     /\ NoQuery.version = 0 /\ NoQuery.refreshVersion = 0
BY KindsOf, ConstantsOf DEF NoQuery, Asks, Answers

LEMMA InitTypeInv == Init => TypeInv
<1>. SUFFICES ASSUME Init PROVE TypeInv
  OBVIOUS
<1>. USE DEF Init
<1>1. ResetTyped
  <2>1. 0 \in 0..MaxResets /\ 0 \in Versions
    BY ConstantsOf DEF Versions
  <2>2. schema = Tables /\ version = 0 /\ resets = 0 /\ reset = "idle" /\ changed = FALSE
    OBVIOUS
  <2>. HIDE DEF Init
  <2>3. version <= resets /\ schema \in SUBSET Tables
    BY <2>2
  <2>4. changed \in BOOLEAN /\ reset \notin {"dropped", "applied"}
    BY <2>2
  <2>. QED
    BY <2>1, <2>2, <2>3, <2>4 DEF ResetTyped
<1>2. Empty \in Contents
  BY DEF Empty, Contents
<1>3. DatabaseTyped
  BY <1>2 DEF DatabaseTyped
<1>4. version = 0 /\ NotLoaded <= 0
  BY ConstantsOf
<1>5. CacheTyped
  BY <1>4, NothingType DEF CacheTyped
<1>6. SessionsTyped
  <2>1. pc \in [Sessions -> Places] /\ ask \in [Sessions -> Asks]
    BY NoQueryType DEF Places
  <2>2. ASSUME NEW k \in Sessions PROVE AskBehind(k)
    <3>1. ask[k] = NoQuery /\ pc[k] = "idle" /\ version = 0
      OBVIOUS
    <3>2. ask[k].version = 0 /\ ask[k].refreshVersion = 0
      BY <3>1, NoQueryType
    <3>. QED
      BY <3>1, <3>2 DEF AskBehind
  <2>. QED
    BY <2>1, <2>2 DEF SessionsTyped
<1>7. RestTyped
  <2>1. sent \in 0..MaxStatements /\ begun \in 0..MaxTransactions
    BY ConstantsOf
  <2>2. mutex \in Sessions \cup {NoSession} /\ inTx \in [Sessions -> BOOLEAN]
        /\ misled \in BOOLEAN /\ undone \in BOOLEAN
    OBVIOUS
  <2>. QED
    BY <2>1, <2>2 DEF RestTyped
<1>. QED
  BY <1>1, <1>3, <1>5, <1>6, <1>7 DEF TypeInv

-----------------------------------------------------------------------------
(* What a refresh writes, and what a query finds.                          *)

LEMMA RefreshedType ==
    ASSUME ResetTyped, DatabaseTyped, NEW query \in Kinds, NEW db \in Dbs
    PROVE  Refreshed(query, db) \in Contents
<1>1. PICK r \in Contents : r = rows
  BY DEF DatabaseTyped
<1>. DEFINE own == {db} \X schema
<1>2. own \in SUBSET (Dbs \X Tables)
  BY DEF ResetTyped
<1>3. r.tables \in SUBSET (Dbs \X Tables) /\ r.columns \in SUBSET (Dbs \X Tables)
      /\ db \in Dbs \cup {NoDb}
  BY DEF Contents
<1>4. /\ (r.tables \ {<<db, query>>}) \cup (own \cap {<<db, query>>}) \in SUBSET (Dbs \X Tables)
      /\ (r.columns \ {<<db, query>>}) \cup (own \cap {<<db, query>>}) \in SUBSET (Dbs \X Tables)
  BY <1>2, <1>3
<1>. HIDE DEF own
<1>5. CASE query = "schemata"
  <2>1. Refreshed(query, db) = [r EXCEPT !.schemata = db]
    BY <1>1, <1>5 DEF Refreshed
  <2>. QED
    BY <1>3, <2>1 DEF Contents
<1>6. CASE query = "list"
  <2>1. Refreshed(query, db) = [r EXCEPT !.schemata = db, !.tables = own]
    BY <1>1, <1>6 DEF Refreshed, own
  <2>. QED
    BY <1>2, <1>3, <2>1 DEF Contents
<1>7. CASE query = "all"
  <2>1. Refreshed(query, db) = [schemata |-> db, tables |-> own, columns |-> own]
    BY <1>7 DEF Refreshed, own
  <2>. QED
    BY <1>2, <1>3, <2>1 DEF Contents
<1>8. CASE query \notin {"schemata", "list", "all"}
  <2>1. Refreshed(query, db) =
           [schemata |-> db,
            tables  |-> (r.tables \ {<<db, query>>}) \cup (own \cap {<<db, query>>}),
            columns |-> (r.columns \ {<<db, query>>}) \cup (own \cap {<<db, query>>})]
    BY <1>1, <1>8 DEF Refreshed, own
  <2>. QED
    BY <1>3, <1>4, <2>1 DEF Contents
<1>. QED
  BY <1>5, <1>6, <1>7, <1>8

LEMMA FoundType ==
    ASSUME NEW query \in Kinds, NEW db \in Dbs, NEW r
    PROVE  Found(query, db, r) \in Answers
<1>1. CASE query \in {"list", "all", "schemata"}
  BY <1>1 DEF Found, Answers
<1>2. CASE query \in Tables
  BY <1>2, KindsOf DEF Found, Answers
<1>. QED
  BY <1>1, <1>2, KindsOf

\* The marks after a refresh are no later than the version it read, and vouch
\* for nothing new but what the refresh has written.
LEMMA MarkedAtType ==
    ASSUME marks \in MarkSets, NEW query \in Kinds, NEW v \in Versions
    PROVE  /\ MarkedAt(query, v) \in MarkSets
           /\ MarkedAt(query, v).full \in {v, marks.full}
           /\ MarkedAt(query, v).list \in {v, marks.list}
           /\ MarkedAt(query, v).schemata \in {v, marks.schemata}
           /\ \A t \in Tables : MarkedAt(query, v).table[t] \in {v, marks.table[t], NotLoaded}
           /\ query # "all" => MarkedAt(query, v).full = marks.full
           /\ query # "list" => MarkedAt(query, v).list = marks.list
           /\ query \notin {"list", "schemata"} => MarkedAt(query, v).schemata = marks.schemata
           /\ \A t \in Tables : t # query =>
                 MarkedAt(query, v).table[t] \in {marks.table[t], NotLoaded}
<1>1. PICK m \in MarkSets : m = marks
  OBVIOUS
<1>2. v \in Marks /\ NotLoaded \in Marks
  BY ConstantsOf
<1>3. CASE query = "schemata"
  <2>1. MarkedAt(query, v) = [m EXCEPT !.schemata = v]
    BY <1>1, <1>3 DEF MarkedAt
  <2>. QED
    BY <1>1, <1>2, <1>3, <2>1 DEF MarkSets
<1>4. CASE query = "list"
  <2>1. MarkedAt(query, v) = [m EXCEPT !.schemata = v, !.list = v]
    BY <1>1, <1>4 DEF MarkedAt
  <2>. QED
    BY <1>1, <1>2, <1>4, <2>1 DEF MarkSets
<1>5. CASE query = "all"
  <2>. DEFINE none == [t \in Tables |-> NotLoaded]
  <2>1. MarkedAt(query, v) = [m EXCEPT !.full = v, !.table = none]
    BY <1>1, <1>5 DEF MarkedAt
  <2>2. none \in [Tables -> Marks] /\ \A t \in Tables : none[t] = NotLoaded
    BY <1>2
  <2>. HIDE DEF none
  <2>. QED
    BY <1>1, <1>2, <1>5, <2>1, <2>2 DEF MarkSets
<1>6. CASE query \in Tables
  <2>1. PICK table \in [Tables -> Marks] : table = m.table
    BY DEF MarkSets
  <2>. DEFINE new == [table EXCEPT ![query] = v]
  <2>2. MarkedAt(query, v) = [m EXCEPT !.table = new]
    BY <1>1, <1>6, <2>1, KindsOf DEF MarkedAt
  <2>3. /\ new \in [Tables -> Marks]
        /\ \A t \in Tables : new[t] \in {v, table[t]} /\ (t # query => new[t] = table[t])
    BY <1>2
  <2>. HIDE DEF new
  <2>4. query \notin {"list", "all", "schemata"}
    BY <1>6, KindsOf
  <2>. QED
    BY <1>1, <1>2, <2>1, <2>2, <2>3, <2>4 DEF MarkSets
<1>. QED
  BY <1>3, <1>4, <1>5, <1>6, KindsOf

-----------------------------------------------------------------------------
(* The steps keep the types and the order of the versions.                 *)

LEMMA UnchangedTyped ==
    ASSUME TypeInv
    PROVE  /\ UNCHANGED resetVars => ResetTyped' /\ version' = version
           /\ UNCHANGED database => DatabaseTyped'
           /\ UNCHANGED <<resetVars, cache>> => CacheTyped'
           /\ UNCHANGED <<mutex, inTx, sent, begun, misled, undone>> => RestTyped'
<1>1. UNCHANGED resetVars => ResetTyped' /\ version' = version
  BY DEF TypeInv, ResetTyped, resetVars
<1>2. UNCHANGED database => DatabaseTyped'
  BY DEF TypeInv, DatabaseTyped, database
<1>3. UNCHANGED <<resetVars, cache>> => CacheTyped'
  BY DEF TypeInv, CacheTyped, resetVars, cache
<1>4. UNCHANGED <<mutex, inTx, sent, begun, misled, undone>> => RestTyped'
  BY DEF TypeInv, RestTyped
<1>. QED
  BY <1>1, <1>2, <1>3, <1>4

LEMMA VersionOf ==
    ASSUME TypeInv
    PROVE  /\ version \in Versions /\ version \in Nat /\ 0 <= version
           /\ version <= version /\ NotLoaded <= version
BY ConstantsOf DEF TypeInv, ResetTyped

\* The query of one session goes on under the same schema version.
LEMMA SessionMoves ==
    ASSUME TypeInv, NEW k \in Sessions, NEW q \in Asks, NEW place \in Places,
           ask' = [ask EXCEPT ![k] = q], pc' = [pc EXCEPT ![k] = place],
           version' = version, q.version <= version, q.refreshVersion <= version,
           place \in {"refresh", "locked"} => q.version <= q.refreshVersion
    PROVE  /\ SessionsTyped'
           /\ ask'[k] = q /\ pc'[k] = place
           /\ \A j \in Sessions \ {k} : ask'[j] = ask[j] /\ pc'[j] = pc[j]
<1>1. /\ pc' \in [Sessions -> Places] /\ ask' \in [Sessions -> Asks]
      /\ ask'[k] = q /\ pc'[k] = place
      /\ \A j \in Sessions \ {k} : ask'[j] = ask[j] /\ pc'[j] = pc[j]
  BY DEF TypeInv, SessionsTyped
<1>2. ASSUME NEW j \in Sessions PROVE AskBehind(j)'
  <2>1. CASE j = k
    BY <1>1, <2>1 DEF AskBehind
  <2>2. CASE j # k
    BY <1>1, <2>2 DEF AskBehind, TypeInv, SessionsTyped
  <2>. QED
    BY <2>1, <2>2
<1>. QED
  BY <1>1, <1>2 DEF SessionsTyped

\* The queries stand still while the version moves on.
LEMMA SessionsWait ==
    ASSUME TypeInv, UNCHANGED <<pc, ask>>, version' \in Versions, version <= version'
    PROVE  SessionsTyped'
<1>1. version \in Nat /\ version' \in Nat
  BY ConstantsOf DEF TypeInv, ResetTyped
<1>2. \A k \in Sessions : ask[k].version \in Nat /\ ask[k].refreshVersion \in Nat
  BY ConstantsOf DEF TypeInv, SessionsTyped, Asks
<1>3. ASSUME NEW k \in Sessions PROVE AskBehind(k)'
  <2>1. AskBehind(k)
    BY DEF TypeInv, SessionsTyped
  <2>. QED
    BY <1>1, <1>2, <2>1 DEF AskBehind
<1>. QED
  BY <1>3 DEF TypeInv, SessionsTyped

LEMMA AnswerTyped ==
    ASSUME TypeInv, NEW k \in Sessions, NEW got, Answer(k, got), version' = version
    PROVE  SessionsTyped' /\ misled' \in BOOLEAN
<1>1. NoQuery \in Asks /\ NoQuery.version = 0 /\ NoQuery.refreshVersion = 0
      /\ 0 <= version
  BY NoQueryType, ConstantsOf DEF TypeInv, ResetTyped
<1>2. ask' = [ask EXCEPT ![k] = NoQuery] /\ pc' = [pc EXCEPT ![k] = "idle"]
      /\ "idle" \in Places
  BY DEF Answer, Goto, Places
<1>3. SessionsTyped'
  BY <1>1, <1>2, SessionMoves
<1>4. misled' \in BOOLEAN
  BY Zenon DEF Answer
<1>. QED
  BY <1>3, <1>4

LEMMA AskTypeInv == ASSUME TypeInv, NEW k \in Sessions, Ask(k) PROVE TypeInv'
<1>1. PICK query \in Queries :
        /\ ask' = [ask EXCEPT ![k] = [NoQuery EXCEPT !.query = query,
                                        !.calm = (reset = "idle"), !.version = version]]
        /\ Goto(k, IF query \in Cacheable THEN "lookup" ELSE "prepare")
  BY DEF Ask
<1>2. PICK calm \in BOOLEAN : calm = (reset = "idle")
  OBVIOUS
<1>. DEFINE q == [NoQuery EXCEPT !.query = query, !.calm = calm, !.version = version]
            place == IF query \in Cacheable THEN "lookup" ELSE "prepare"
<1>3. version \in Versions /\ 0 <= version /\ version <= version /\ query \in Kinds
  BY KindsOf, VersionOf
<1>4. q \in Asks /\ q.version <= version /\ q.refreshVersion <= version
  <2>1. q \in Asks /\ q.version = version /\ q.refreshVersion = 0
    BY <1>3, NoQueryType DEF Asks
  <2>. QED
    BY <1>3, <2>1
<1>5. place \in Places /\ place \notin {"refresh", "locked"}
  BY DEF Places
<1>6. ask' = [ask EXCEPT ![k] = q] /\ pc' = [pc EXCEPT ![k] = place]
  BY <1>1, <1>2 DEF Goto
<1>7. /\ UNCHANGED resetVars /\ UNCHANGED database /\ UNCHANGED <<resetVars, cache>>
      /\ UNCHANGED <<mutex, inTx, begun, misled, undone>>
      /\ sent < MaxStatements /\ sent' = sent + 1
  BY DEF Ask
<1>. HIDE DEF q, place
<1>8. ResetTyped' /\ version' = version /\ DatabaseTyped' /\ CacheTyped'
  BY <1>7, UnchangedTyped
<1>9. SessionsTyped'
  BY <1>4, <1>5, <1>6, <1>8, SessionMoves
<1>10. RestTyped'
  <2>1. sent' \in 0..MaxStatements
    BY <1>7, ConstantsOf DEF TypeInv, RestTyped
  <2>. QED
    BY <1>7, <2>1 DEF TypeInv, RestTyped
<1>. QED
  BY <1>8, <1>9, <1>10 DEF TypeInv

\* The query of session k, as its record.
LEMMA AskOf ==
    ASSUME TypeInv, NEW k \in Sessions
    PROVE  /\ ask[k] \in Asks /\ pc[k] \in Places /\ DbOf[k] \in Dbs
           /\ ask[k].query \in Kinds /\ ask[k].version \in Versions
           /\ ask[k].refreshVersion \in Versions /\ ask[k].got \in Answers
           /\ version \in Versions /\ AskBehind(k)
BY KindsOf DEF TypeInv, SessionsTyped, ResetTyped, Asks

LEMMA LookupTypeInv == ASSUME TypeInv, NEW k \in Sessions, Lookup(k) PROVE TypeInv'
<1>1. /\ UNCHANGED resetVars /\ UNCHANGED database /\ UNCHANGED <<resetVars, cache>>
      /\ UNCHANGED <<mutex, inTx, sent, begun, undone>>
  BY DEF Lookup, counters
<1>2. ResetTyped' /\ version' = version /\ DatabaseTyped' /\ CacheTyped'
  BY <1>1, UnchangedTyped
<1>. DEFINE entry == results[<<DbOf[k], ask[k].query>>]
<1>3. CASE entry.version = ask[k].version
  <2>1. Answer(k, entry.answer)
    BY <1>3 DEF Lookup
  <2>. HIDE DEF entry
  <2>2. SessionsTyped' /\ misled' \in BOOLEAN
    BY <1>2, <2>1, AnswerTyped
  <2>3. RestTyped'
    BY <1>1, <2>2 DEF TypeInv, RestTyped
  <2>. QED
    BY <1>2, <2>2, <2>3 DEF TypeInv
<1>4. CASE entry.version # ask[k].version
  <2>1. Goto(k, "prepare") /\ UNCHANGED <<ask, misled>>
    BY <1>4 DEF Lookup
  <2>2. PICK q \in Asks : q = ask[k] /\ q.version <= version /\ q.refreshVersion <= version
    BY AskOf DEF AskBehind
  <2>3. ask' = [ask EXCEPT ![k] = q] /\ pc' = [pc EXCEPT ![k] = "prepare"]
        /\ "prepare" \in Places
    BY <2>1, <2>2 DEF Goto, Places, TypeInv, SessionsTyped
  <2>4. SessionsTyped'
    BY <1>2, <2>2, <2>3, SessionMoves
  <2>5. RestTyped'
    BY <1>1, <2>1, UnchangedTyped
  <2>. QED
    BY <1>2, <2>4, <2>5 DEF TypeInv
<1>. QED
  BY <1>3, <1>4

LEMMA PrepareTypeInv == ASSUME TypeInv, NEW k \in Sessions, Prepare(k) PROVE TypeInv'
<1>1. /\ UNCHANGED resetVars /\ UNCHANGED database /\ UNCHANGED <<resetVars, cache>>
      /\ UNCHANGED <<mutex, inTx, sent, begun, misled, undone>>
  BY DEF Prepare, counters
<1>2. PICK q \in Asks : q = ask[k] /\ q.version <= version
  BY AskOf DEF AskBehind
<1>. DEFINE j == [q EXCEPT !.refreshVersion = version]
<1>3. version \in Versions /\ version <= version
  BY VersionOf
<1>4. j \in Asks /\ j.version = q.version /\ j.refreshVersion = version
  BY <1>3 DEF Asks
<1>5. ask' = [ask EXCEPT ![k] = j] /\ pc' = [pc EXCEPT ![k] = "refresh"]
      /\ "refresh" \in Places
  BY <1>2 DEF Prepare, Goto, Places, TypeInv, SessionsTyped
<1>. HIDE DEF j
<1>6. ResetTyped' /\ version' = version /\ DatabaseTyped' /\ CacheTyped' /\ RestTyped'
  BY <1>1, UnchangedTyped
<1>7. SessionsTyped'
  BY <1>2, <1>3, <1>4, <1>5, <1>6, SessionMoves
<1>. QED
  BY <1>6, <1>7 DEF TypeInv

LEMMA LockTypeInv == ASSUME TypeInv, NEW k \in Sessions, Lock(k) PROVE TypeInv'
<1>1. /\ UNCHANGED resetVars /\ UNCHANGED database /\ UNCHANGED <<resetVars, cache>>
      /\ UNCHANGED <<inTx, sent, begun, misled, undone>> /\ mutex' = k
  BY DEF Lock, counters
<1>2. PICK q \in Asks : /\ q = ask[k] /\ q.version <= version /\ q.refreshVersion <= version
                        /\ q.version <= q.refreshVersion
  BY AskOf DEF AskBehind, Lock
<1>3. ask' = [ask EXCEPT ![k] = q] /\ pc' = [pc EXCEPT ![k] = "locked"]
      /\ "locked" \in Places
  BY <1>2 DEF Lock, Goto, Places, TypeInv, SessionsTyped
<1>4. ResetTyped' /\ version' = version /\ DatabaseTyped' /\ CacheTyped'
  BY <1>1, UnchangedTyped
<1>5. SessionsTyped'
  BY <1>2, <1>3, <1>4, SessionMoves
<1>6. RestTyped'
  BY <1>1 DEF TypeInv, RestTyped
<1>. QED
  BY <1>4, <1>5, <1>6 DEF TypeInv

LEMMA RefreshTypeInv == ASSUME TypeInv, NEW k \in Sessions, Refresh(k) PROVE TypeInv'
<1>1. /\ UNCHANGED resetVars /\ results' = results
      /\ UNCHANGED <<inTx, sent, begun, misled, undone>> /\ mutex' = NoSession
  BY DEF Refresh, Unlock, counters
<1>2. PICK q \in Asks : q = ask[k] /\ q.version <= version /\ q.refreshVersion <= version
  BY AskOf DEF AskBehind
<1>. DEFINE j == [q EXCEPT !.refreshVersion = 0]
<1>3. ResetTyped' /\ version' = version /\ 0 <= version
  BY <1>1, UnchangedTyped, VersionOf
<1>4. j \in Asks /\ j.version = q.version /\ j.refreshVersion = 0
  BY ConstantsOf DEF Asks
<1>5. ask' = [ask EXCEPT ![k] = j] /\ pc' = [pc EXCEPT ![k] = "read"] /\ "read" \in Places
  BY <1>2 DEF Refresh, Goto, Places, TypeInv, SessionsTyped
<1>. HIDE DEF j
<1>6. SessionsTyped'
  BY <1>2, <1>3, <1>4, <1>5, SessionMoves
<1>7. RestTyped'
  BY <1>1 DEF TypeInv, RestTyped
<1>8. PICK query \in Kinds, v \in Versions :
        query = ask[k].query /\ v = ask[k].refreshVersion /\ v <= version
  BY AskOf DEF AskBehind
<1>9. CASE Loaded(query, v)
  <2>1. UNCHANGED <<rows, undo, writer, marks>> /\ (KeepsReadLock(k) \/ UNCHANGED readers)
    BY <1>8, <1>9 DEF Refresh
  <2>2. DatabaseTyped'
    BY <2>1 DEF TypeInv, DatabaseTyped, KeepsReadLock
  <2>3. CacheTyped'
    BY <1>1, <2>1, UnchangedTyped DEF cache
  <2>. QED
    BY <1>3, <1>6, <1>7, <2>2, <2>3 DEF TypeInv
<1>10. CASE ~Loaded(query, v)
  <2>1. /\ rows' = Refreshed(query, DbOf[k]) /\ marks' = MarkedAt(query, v)
        /\ writer' = IF inTx[k] THEN k ELSE writer
        /\ undo' = IF inTx[k] /\ writer # k THEN rows ELSE undo
        /\ UNCHANGED readers
    BY <1>8, <1>10 DEF Refresh
  <2>2. Refreshed(query, DbOf[k]) \in Contents
    BY AskOf, RefreshedType DEF TypeInv
  <2>3. DatabaseTyped'
    BY <2>1, <2>2 DEF TypeInv, DatabaseTyped
  <2>4. PICK m \in MarkSets :
           /\ m = MarkedAt(query, v)
           /\ m.full \in {v, marks.full} /\ m.list \in {v, marks.list}
           /\ m.schemata \in {v, marks.schemata}
           /\ \A t \in Tables : m.table[t] \in {v, marks.table[t], NotLoaded}
    BY MarkedAtType DEF TypeInv, CacheTyped
  <2>5. NotLoaded <= version
    BY VersionOf
  <2>6. /\ m.full <= version /\ m.list <= version /\ m.schemata <= version
        /\ \A t \in Tables : m.table[t] <= version
    BY <1>8, <2>4, <2>5 DEF TypeInv, CacheTyped
  <2>7. CacheTyped'
    BY <1>1, <1>3, <2>1, <2>4, <2>6 DEF TypeInv, CacheTyped
  <2>. QED
    BY <1>3, <1>6, <1>7, <2>3, <2>7 DEF TypeInv
<1>. QED
  BY <1>9, <1>10


LEMMA ReadTypeInv == ASSUME TypeInv, NEW k \in Sessions, Read(k) PROVE TypeInv'
<1>1. /\ UNCHANGED resetVars /\ UNCHANGED <<rows, undo, writer>> /\ UNCHANGED <<resetVars, cache>>
      /\ UNCHANGED <<mutex, inTx, sent, begun, undone>> /\ KeepsReadLock(k)
  BY DEF Read, counters
<1>2. ResetTyped' /\ version' = version /\ CacheTyped'
  BY <1>1, UnchangedTyped
<1>3. DatabaseTyped'
  BY <1>1 DEF TypeInv, DatabaseTyped, KeepsReadLock
<1>4. PICK got \in Answers : got = Found(ask[k].query, DbOf[k], rows)
  BY AskOf, FoundType
<1>5. CASE ask[k].query \in Cacheable
  <2>1. ask' = [ask EXCEPT ![k].got = got] /\ Goto(k, "store") /\ UNCHANGED misled
    BY <1>4, <1>5 DEF Read
  <2>2. PICK q \in Asks : q = ask[k] /\ q.version <= version /\ q.refreshVersion <= version
    BY AskOf DEF AskBehind
  <2>. DEFINE j == [q EXCEPT !.got = got]
  <2>3. j \in Asks /\ j.version = q.version /\ j.refreshVersion = q.refreshVersion
    BY DEF Asks
  <2>4. ask' = [ask EXCEPT ![k] = j] /\ pc' = [pc EXCEPT ![k] = "store"]
        /\ "store" \in Places
    BY <2>1, <2>2 DEF Goto, Places, TypeInv, SessionsTyped
  <2>. HIDE DEF j
  <2>5. SessionsTyped'
    BY <1>2, <2>2, <2>3, <2>4, SessionMoves
  <2>6. RestTyped'
    BY <1>1, <2>1, UnchangedTyped
  <2>. QED
    BY <1>2, <1>3, <2>5, <2>6 DEF TypeInv
<1>6. CASE ask[k].query \notin Cacheable
  <2>1. Answer(k, got)
    BY <1>4, <1>6 DEF Read
  <2>2. SessionsTyped' /\ misled' \in BOOLEAN
    BY <1>2, <2>1, AnswerTyped
  <2>3. RestTyped'
    BY <1>1, <2>2 DEF TypeInv, RestTyped
  <2>. QED
    BY <1>2, <1>3, <2>2, <2>3 DEF TypeInv
<1>. QED
  BY <1>5, <1>6

LEMMA StoreTypeInv == ASSUME TypeInv, NEW k \in Sessions, Store(k) PROVE TypeInv'
<1>1. /\ UNCHANGED resetVars /\ UNCHANGED database /\ marks' = marks
      /\ UNCHANGED <<mutex, inTx, sent, begun, undone>>
      /\ Answer(k, ask[k].got)
  BY DEF Store, counters
<1>2. ResetTyped' /\ version' = version /\ DatabaseTyped'
  BY <1>1, UnchangedTyped
<1>3. SessionsTyped' /\ misled' \in BOOLEAN
  BY <1>1, <1>2, AnswerTyped
<1>4. RestTyped'
  BY <1>1, <1>3 DEF TypeInv, RestTyped
<1>5. PICK entry \in Entries :
        entry = [version |-> ask[k].version, answer |-> ask[k].got] /\ entry.version <= version
  <2>1. ask[k].version \in Marks /\ ask[k].got \in Answers /\ ask[k].version <= version
    BY AskOf, ConstantsOf DEF AskBehind
  <2>2. [version |-> ask[k].version, answer |-> ask[k].got] \in Entries
    BY <2>1 DEF Entries
  <2>3. [version |-> ask[k].version, answer |-> ask[k].got].version <= version
    BY <2>1
  <2>. QED
    BY <2>2, <2>3, Zenon
<1>6. PICK at \in Dbs \X Kinds : at = <<DbOf[k], ask[k].query>>
  BY AskOf
<1>7. results' = [results EXCEPT ![at] = entry]
  BY <1>5, <1>6 DEF Store
<1>8. CacheTyped'
  <2>1. /\ results' \in [Dbs \X Kinds -> Entries]
        /\ \A e \in Dbs \X Kinds : results'[e] = IF e = at THEN entry ELSE results[e]
    BY <1>7 DEF TypeInv, CacheTyped
  <2>2. \A e \in Dbs \X Kinds : results'[e].version <= version
    BY <1>5, <2>1 DEF TypeInv, CacheTyped
  <2>. QED
    BY <1>1, <1>2, <2>1, <2>2 DEF TypeInv, CacheTyped
<1>. QED
  BY <1>2, <1>3, <1>4, <1>8 DEF TypeInv

LEMMA TransactionTypeInv ==
    ASSUME TypeInv, NEW k \in Sessions, Begin(k) \/ Commit(k) \/ Rollback(k)
    PROVE  TypeInv'
<1>1. /\ UNCHANGED resetVars /\ UNCHANGED <<resetVars, cache>>
      /\ UNCHANGED <<mutex, pc, ask, sent, misled>>
  BY DEF Begin, Commit, Rollback, EndTransaction, counters
<1>2. ResetTyped' /\ version' = version /\ CacheTyped'
  BY <1>1, UnchangedTyped
<1>3. SessionsTyped'
  BY <1>1, <1>2 DEF TypeInv, SessionsTyped, AskBehind
<1>4. Empty \in Contents
  BY DEF Empty, Contents
<1>5. DatabaseTyped'
  <2>1. CASE Begin(k)
    BY <2>1, UnchangedTyped DEF Begin
  <2>2. CASE Commit(k) \/ Rollback(k)
    <3>1. rows' \in {rows, undo} /\ undo' \in {undo, Empty}
      BY <2>2 DEF Commit, Rollback, EndTransaction
    <3>2. writer' \in Sessions \cup {NoSession} /\ readers' \in SUBSET Sessions
      BY <2>2 DEF Commit, Rollback, EndTransaction, TypeInv, DatabaseTyped
    <3>. QED
      BY <1>4, <3>1, <3>2 DEF TypeInv, DatabaseTyped
  <2>. QED
    BY <2>1, <2>2
<1>6. RestTyped'
  <2>1. inTx' \in [Sessions -> BOOLEAN]
    BY DEF Begin, Commit, Rollback, EndTransaction, TypeInv, RestTyped
  <2>2. begun' \in 0..MaxTransactions
    <3>1. begun \in 0..MaxTransactions /\ MaxTransactions \in Nat
      BY ConstantsOf DEF TypeInv, RestTyped
    <3>2. begun' = begun \/ (begun < MaxTransactions /\ begun' = begun + 1)
      BY DEF Begin, Commit, Rollback, EndTransaction, counters
    <3>. QED
      BY <3>1, <3>2
  <2>3. undone' \in BOOLEAN
    BY Zenon DEF Begin, Commit, Rollback, EndTransaction, TypeInv, RestTyped
  <2>. QED
    BY <1>1, <2>1, <2>2, <2>3 DEF TypeInv, RestTyped
<1>. QED
  BY <1>2, <1>3, <1>5, <1>6 DEF TypeInv

LEMMA ResetDropTypeInv == ASSUME TypeInv, ResetDrop PROVE TypeInv'
<1>1. DatabaseTyped' /\ version' = version
  BY UnchangedTyped DEF ResetDrop
<1>2. ResetTyped'
  <2>1. resets \in 0..MaxResets /\ MaxResets \in Nat /\ resets < MaxResets
        /\ version \in Nat /\ version <= resets /\ resets' = resets + 1
        /\ reset' = "dropped" /\ changed' = changed
    BY VersionOf, ConstantsOf DEF ResetDrop, TypeInv, ResetTyped
  <2>2. resets' \in 0..MaxResets /\ version' < resets' /\ version' <= resets'
    BY <1>1, <2>1
  <2>. QED
    BY <1>1, <2>1, <2>2 DEF ResetDrop, TypeInv, ResetTyped
<1>3. CacheTyped'
  BY <1>1 DEF ResetDrop, cache, TypeInv, CacheTyped
<1>4. SessionsTyped'
  <2>1. ask' = [k \in Sessions |-> [ask[k] EXCEPT !.calm = FALSE]] /\ UNCHANGED pc
    BY DEF ResetDrop
  <2>2. ASSUME NEW k \in Sessions
        PROVE  [ask[k] EXCEPT !.calm = FALSE] \in Asks /\ AskBehind(k)'
    <3>1. PICK q \in Asks : q = ask[k] /\ AskBehind(k)
      BY AskOf
    <3>. DEFINE j == [q EXCEPT !.calm = FALSE]
    <3>2. j \in Asks /\ j.version = q.version /\ j.refreshVersion = q.refreshVersion
      BY DEF Asks
    <3>3. ask'[k] = j
      BY <2>1, <3>1
    <3>. HIDE DEF j
    <3>. QED
      BY <1>1, <2>1, <3>1, <3>2, <3>3 DEF AskBehind, j
  <2>. QED
    BY <2>1, <2>2 DEF TypeInv, SessionsTyped
<1>5. RestTyped'
  BY DEF ResetDrop, counters, TypeInv, RestTyped
<1>. QED
  BY <1>1, <1>2, <1>3, <1>4, <1>5 DEF TypeInv

LEMMA ResetApplyTypeInv == ASSUME TypeInv, ResetApply PROVE TypeInv'
<1>1. DatabaseTyped' /\ RestTyped' /\ version' = version /\ UNCHANGED <<pc, ask, resets>>
  BY UnchangedTyped DEF ResetApply, counters
<1>2. ResetTyped'
  BY <1>1 DEF ResetApply, TypeInv, ResetTyped
<1>3. CacheTyped'
  BY <1>1 DEF ResetApply, cache, TypeInv, CacheTyped
<1>4. SessionsTyped'
  BY <1>1 DEF TypeInv, SessionsTyped, AskBehind
<1>. QED
  BY <1>1, <1>2, <1>3, <1>4 DEF TypeInv

\* Everything was at most of the old version, so it is at most of the new one.
LEMMA ResetBumpTypeInv == ASSUME TypeInv, ResetBump PROVE TypeInv'
<1>1. DatabaseTyped' /\ RestTyped'
  BY UnchangedTyped DEF ResetBump, counters
<1>2. /\ version' = version + 1 /\ version < resets /\ reset' = "bumped"
      /\ changed' = FALSE
      /\ UNCHANGED <<schema, resets, pc, ask, marks, results>>
      /\ resets \in 0..MaxResets /\ MaxResets \in Nat /\ version \in Nat
  BY VersionOf, ConstantsOf DEF ResetBump, cache, TypeInv, ResetTyped
<1>3. version' \in Versions /\ version' <= resets /\ version <= version'
  BY <1>2 DEF Versions
<1>4. ResetTyped'
  BY <1>2, <1>3 DEF TypeInv, ResetTyped
<1>5. SessionsTyped'
  BY <1>2, <1>3, SessionsWait
<1>6. CacheTyped'
  <2>1. /\ marks.full \in Int /\ marks.list \in Int /\ marks.schemata \in Int
        /\ \A t \in Tables : marks.table[t] \in Int
        /\ \A e \in Dbs \X Kinds : results[e].version \in Int
    BY ConstantsOf DEF TypeInv, CacheTyped, MarkSets, Entries
  <2>2. /\ marks.full <= version' /\ marks.list <= version' /\ marks.schemata <= version'
        /\ \A t \in Tables : marks.table[t] <= version'
        /\ \A e \in Dbs \X Kinds : results[e].version <= version'
    BY <1>2, <2>1 DEF TypeInv, CacheTyped
  <2>. QED
    BY <1>2, <2>2 DEF TypeInv, CacheTyped
<1>. QED
  BY <1>1, <1>4, <1>5, <1>6 DEF TypeInv

LEMMA ResetClearTypeInv == ASSUME TypeInv, ResetClear PROVE TypeInv'
<1>1. DatabaseTyped' /\ version' = version /\ UNCHANGED <<schema, resets, pc, ask>>
  BY UnchangedTyped DEF ResetClear
<1>2. ResetTyped'
  BY <1>1 DEF ResetClear, TypeInv, ResetTyped
<1>3. marks' = Nothing /\ results' = NoResults
  BY DEF ResetClear
<1>4. CacheTyped'
  BY <1>1, <1>3, NothingType, VersionOf DEF CacheTyped
<1>5. SessionsTyped'
  BY <1>1 DEF TypeInv, SessionsTyped, AskBehind
<1>6. undone' \in BOOLEAN
  BY Zenon DEF ResetClear
<1>7. RestTyped'
  BY <1>6 DEF ResetClear, counters, TypeInv, RestTyped
<1>. QED
  BY <1>1, <1>2, <1>4, <1>5, <1>7 DEF TypeInv

\* A schema change that bumps no version: by a Reset that fails, or a client.
LEMMA ResetFailsTypeInv == ASSUME TypeInv, ResetFails PROVE TypeInv'
<1>1. DatabaseTyped' /\ RestTyped' /\ version' = version /\ UNCHANGED <<pc, ask>>
  BY UnchangedTyped DEF ResetFails, counters
<1>2. ResetTyped'
  BY <1>1 DEF ResetFails, TypeInv, ResetTyped
<1>3. CacheTyped'
  BY <1>1 DEF ResetFails, cache, TypeInv, CacheTyped
<1>4. SessionsTyped'
  BY <1>1 DEF TypeInv, SessionsTyped, AskBehind
<1>. QED
  BY <1>1, <1>2, <1>3, <1>4 DEF TypeInv

LEMMA RuntimeDDLTypeInv == ASSUME TypeInv, NEW k \in Sessions, RuntimeDDL(k) PROVE TypeInv'
<1>1. /\ DatabaseTyped' /\ UNCHANGED <<version, reset, resets, marks, results, pc, ask>>
      /\ UNCHANGED <<mutex, inTx, begun, misled, undone>>
      /\ changed' = TRUE /\ sent < MaxStatements /\ sent' = sent + 1
  BY UnchangedTyped DEF RuntimeDDL, cache
<1>2. schema' \in SUBSET Tables
  BY DEF RuntimeDDL, TypeInv, ResetTyped
<1>3. ResetTyped'
  BY <1>1, <1>2 DEF TypeInv, ResetTyped
<1>4. CacheTyped'
  BY <1>1 DEF TypeInv, CacheTyped
<1>5. SessionsTyped'
  BY <1>1 DEF TypeInv, SessionsTyped, AskBehind
<1>6. sent' \in 0..MaxStatements
  BY <1>1, ConstantsOf DEF TypeInv, RestTyped
<1>7. RestTyped'
  BY <1>1, <1>6 DEF TypeInv, RestTyped
<1>. QED
  BY <1>1, <1>3, <1>4, <1>5, <1>7 DEF TypeInv

LEMMA NextTypeInv == TypeInv /\ [Next]_vars => TypeInv'
<1>. SUFFICES ASSUME TypeInv, [Next]_vars PROVE TypeInv'
  OBVIOUS
<1>1. CASE UNCHANGED vars
  <2>1. UNCHANGED <<pc, ask>> /\ UNCHANGED resetVars /\ UNCHANGED database
        /\ UNCHANGED <<resetVars, cache>>
        /\ UNCHANGED <<mutex, inTx, sent, begun, misled, undone>>
    BY <1>1 DEF vars, counters
  <2>2. SessionsTyped'
    BY <2>1, UnchangedTyped DEF TypeInv, SessionsTyped, AskBehind
  <2>. QED
    BY <2>1, <2>2, UnchangedTyped DEF TypeInv
<1>2. ASSUME NEW k \in Sessions, Ask(k) \/ QueryStep(k) PROVE TypeInv'
  BY <1>2, AskTypeInv, LookupTypeInv, PrepareTypeInv, LockTypeInv, RefreshTypeInv,
     ReadTypeInv, StoreTypeInv DEF QueryStep
<1>3. ASSUME NEW k \in Sessions, Begin(k) \/ Commit(k) \/ Rollback(k) PROVE TypeInv'
  BY <1>3, TransactionTypeInv
<1>4. CASE Reset
  BY <1>4, ResetDropTypeInv, ResetApplyTypeInv, ResetFailsTypeInv, ResetBumpTypeInv,
     ResetClearTypeInv DEF Reset
<1>5. ASSUME NEW k \in Sessions, RuntimeDDL(k) PROVE TypeInv'
  BY <1>5, RuntimeDDLTypeInv
<1>. QED
  BY <1>1, <1>2, <1>3, <1>4, <1>5 DEF Next

LEMMA TypeInvariance == Spec => []TypeInv
BY InitTypeInv, NextTypeInv, PTL DEF Spec

\* Every variable keeps its type: the schema version is one of those that the
\* Resets so far account for (bumpSchemaVersion), and marks and results name
\* such versions.
THEOREM VariablesHaveTheirTypes == Spec => []TypeOK
<1>1. TypeInv => TypeOK
  BY DEF TypeInv, TypeOK, ResetTyped, DatabaseTyped, CacheTyped, SessionsTyped, RestTyped,
         Places, Asks, MarkSets, Entries
<1>. QED
  BY <1>1, TypeInvariance, PTL


-----------------------------------------------------------------------------
(* The answers, for sessions connected to databases of one name.           *)

OneDb == \A j, k \in Sessions : DbOf[j] = DbOf[k]

\* A query would find in the tables what the schema says.
Right(query, k) == Found(query, DbOf[k], rows) = Derived(query, DbOf[k])

MarksTrue == \A k \in Sessions, query \in Kinds : Loaded(query, version) => Right(query, k)

ResultsTrue ==
    \A k \in Sessions, query \in Kinds :
        results[<<DbOf[k], query>>].version = version =>
            results[<<DbOf[k], query>>].answer = Derived(query, DbOf[k])

\* What a query of the current version finds or has found.
ReadTrue(k) ==
    ask[k].version = version =>
        /\ pc[k] = "read" => Right(ask[k].query, k)
        /\ pc[k] = "store" => ask[k].got = Derived(ask[k].query, DbOf[k])

\* The schema is whole, and has not changed since the version was bumped.
Settled == reset \in {"idle", "bumped"} /\ ~undone /\ ~changed

AnswersTrue == MarksTrue /\ ResultsTrue /\ \A k \in Sessions : ReadTrue(k)

TruthInv ==
    /\ reset # "idle" => ~misled /\ \A k \in Sessions : ~ask[k].calm
    /\ \A k \in Sessions : ask[k].calm => ask[k].version = version
    /\ misled => undone \/ changed
    /\ Settled => AnswersTrue

LEMMA InitTruthInv == Init => TruthInv
<1>. SUFFICES ASSUME Init PROVE TruthInv
  OBVIOUS
<1>. USE DEF Init
<1>1. \A k \in Sessions : ~ask[k].calm /\ ReadTrue(k)
  BY NoQueryType DEF ReadTrue
<1>2. version = 0 /\ version # NotLoaded
  BY ConstantsOf
<1>3. \A query : ~Loaded(query, version)
  BY <1>2, NothingType DEF Loaded
<1>4. ResultsTrue
  BY <1>2, NothingType, KindsOf DEF ResultsTrue
<1>. QED
  BY <1>1, <1>3, <1>4 DEF TruthInv, AnswersTrue, MarksTrue

\* What it takes for a query to find what schema sch says.
Expected(query, db, sch) ==
    CASE query = "schemata"        -> {db}
      [] query \in {"list", "all"} -> sch
      [] OTHER                     -> sch \cap {query}

Agrees(query, db, r, sch) ==
    CASE query = "schemata" -> r.schemata = db
      [] query = "list"     -> \A t \in Tables : <<db, t>> \in r.tables <=> t \in sch
      [] query = "all"      -> \A t \in Tables : <<db, t>> \in r.columns <=> t \in sch
      [] OTHER              -> <<db, query>> \in r.columns <=> query \in sch

LEMMA FoundAgrees ==
    ASSUME NEW query \in Kinds, NEW db, NEW r, NEW sch \in SUBSET Tables
    PROVE  Found(query, db, r) = Expected(query, db, sch) <=> Agrees(query, db, r, sch)
<1>1. CASE query = "schemata"
  BY <1>1 DEF Found, Expected, Agrees
<1>2. CASE query = "list"
  BY <1>2 DEF Found, Expected, Agrees
<1>3. CASE query = "all"
  BY <1>3 DEF Found, Expected, Agrees
<1>4. CASE query \in Tables
  BY <1>4, KindsOf DEF Found, Expected, Agrees
<1>. QED
  BY <1>1, <1>2, <1>3, <1>4, KindsOf

\* A refresh makes right what it serves and leaves right what was right.
LEMMA RefreshAgrees ==
    ASSUME NEW query \in Kinds, NEW other \in Kinds, NEW db \in Dbs,
           NEW r \in Contents, r = rows, NEW sch \in SUBSET Tables, sch = schema,
           \/ Agrees(other, db, r, sch) \/ other = query \/ query = "all"
           \/ query = "list" /\ other = "schemata"
    PROVE  Agrees(other, db, Refreshed(query, db), sch)
<1>. DEFINE own == {db} \X sch
            new == Refreshed(query, db)
<1>1. \A t \in Tables : <<db, t>> \in own <=> t \in sch
  OBVIOUS
<1>. HIDE DEF own
<1>2. CASE query = "schemata"
  <2>1. new = [r EXCEPT !.schemata = db]
    BY <1>2 DEF Refreshed
  <2>2. new.schemata = db /\ new.tables = r.tables /\ new.columns = r.columns
    BY <2>1 DEF Contents
  <2>. HIDE DEF new
  <2>. QED
    BY <1>2, <2>2 DEF Agrees, new
<1>3. CASE query = "list"
  <2>1. new = [r EXCEPT !.schemata = db, !.tables = own]
    BY <1>3 DEF Refreshed, own
  <2>2. new.schemata = db /\ new.tables = own /\ new.columns = r.columns
    BY <2>1 DEF Contents
  <2>. HIDE DEF new
  <2>. QED
    BY <1>1, <1>3, <2>2 DEF Agrees, new
<1>4. CASE query = "all"
  <2>1. new = [schemata |-> db, tables |-> own, columns |-> own]
    BY <1>4 DEF Refreshed, own
  <2>2. new.schemata = db /\ new.tables = own /\ new.columns = own
    BY <2>1
  <2>. HIDE DEF new
  <2>. QED
    BY <1>1, <1>4, <2>2, KindsOf DEF Agrees, new
<1>5. CASE query \in Tables
  <2>1. query \notin {"schemata", "list", "all"}
    BY <1>5, KindsOf
  <2>2. new = [schemata |-> db,
               tables  |-> (r.tables \ {<<db, query>>}) \cup (own \cap {<<db, query>>}),
               columns |-> (r.columns \ {<<db, query>>}) \cup (own \cap {<<db, query>>})]
    BY <2>1 DEF Refreshed, own
  <2>3. /\ new.schemata = db
        /\ new.tables = (r.tables \ {<<db, query>>}) \cup (own \cap {<<db, query>>})
        /\ new.columns = (r.columns \ {<<db, query>>}) \cup (own \cap {<<db, query>>})
    BY <2>2
  <2>. HIDE DEF new
  <2>4. \A t \in Tables :
           /\ <<db, t>> \in new.tables <=> IF t = query THEN t \in sch ELSE <<db, t>> \in r.tables
           /\ <<db, t>> \in new.columns <=> IF t = query THEN t \in sch ELSE <<db, t>> \in r.columns
    BY <1>1, <2>3
  <2>5. CASE other = "schemata"
    BY <2>3, <2>5 DEF Agrees, new
  <2>6. CASE other \in {"list", "all"}
    BY <2>1, <2>4, <2>6 DEF Agrees, new
  <2>7. CASE other \in Tables
    <3>1. other \notin {"schemata", "list", "all"}
      BY <2>7, KindsOf
    <3>. QED
      BY <2>1, <2>4, <2>7, <3>1 DEF Agrees, new
  <2>. QED
    BY <2>5, <2>6, <2>7, KindsOf
<1>. QED
  BY <1>2, <1>3, <1>4, <1>5, KindsOf


\* What a query finds is right, before and after a refresh.
LEMMA RefreshRight ==
    ASSUME TypeInv, OneDb, NEW j \in Sessions, NEW k \in Sessions,
           NEW query \in Kinds, NEW other \in Kinds, schema' = schema,
           rows' = Refreshed(query, DbOf[k]),
           \/ Right(other, j) \/ other = query \/ query = "all"
           \/ query = "list" /\ other = "schemata"
    PROVE  Right(other, j)'
<1>1. PICK db \in Dbs : db = DbOf[j] /\ db = DbOf[k]
  BY KindsOf DEF OneDb
<1>2. PICK r \in Contents, sch \in SUBSET Tables : r = rows /\ sch = schema
  BY DEF TypeInv, DatabaseTyped, ResetTyped
<1>3. Right(other, j) <=> Found(other, db, r) = Expected(other, db, sch)
  BY <1>1, <1>2 DEF Right, Derived, Expected
<1>4. Right(other, j)' <=> Found(other, db, Refreshed(query, db)) = Expected(other, db, sch)
  BY <1>1, <1>2 DEF Right, Derived, Expected
<1>5. Right(other, j) => Agrees(other, db, r, sch)
  BY <1>3, FoundAgrees
<1>6. Agrees(other, db, Refreshed(query, db), sch)
  BY <1>2, <1>5, RefreshAgrees
<1>. QED
  BY <1>4, <1>6, FoundAgrees

\* A query's or a transaction's step: schema and version stand still, and it
\* remains to be shown that what the step leaves is true of them.
LEMMA StepTruth ==
    ASSUME TruthInv, UNCHANGED <<schema, version, reset, changed>>, undone => undone',
           \A k \in Sessions : ask'[k].calm => ask[k].calm
                                   \/ (reset = "idle" /\ ask'[k].version = version),
           \A k \in Sessions : ask'[k].calm => ask'[k].version = version,
           misled' => misled \/ (reset = "idle" /\ (undone' \/ changed)),
           Settled' => AnswersTrue'
    PROVE  TruthInv'
BY DEF TruthInv

LEMMA MarksKept ==
    ASSUME UNCHANGED <<schema, version, marks, rows>>, MarksTrue PROVE MarksTrue'
<1>1. \A query \in Kinds : Loaded(query, version)' <=> Loaded(query, version)
  BY DEF Loaded
<1>2. \A query, db : Derived(query, db)' = Derived(query, db)
  BY DEF Derived
<1>3. \A k \in Sessions, query \in Kinds : Right(query, k)' <=> Right(query, k)
  BY <1>2 DEF Right, Found
<1>. QED
  BY <1>1, <1>3 DEF MarksTrue

LEMMA ResultsKept ==
    ASSUME UNCHANGED <<schema, version, results>>, ResultsTrue PROVE ResultsTrue'
BY DEF ResultsTrue, Derived

LEMMA ReadKept ==
    ASSUME NEW k \in Sessions, UNCHANGED <<schema, version, rows>>,
           ask'[k] = ask[k], pc'[k] = pc[k], ReadTrue(k)
    PROVE  ReadTrue(k)'
BY DEF ReadTrue, Right, Derived, Found

\* A step of k's query that leaves the tables, the marks and the stored
\* results, and tells its client nothing.
LEMMA QuietQueryTruth ==
    ASSUME TypeInv, TruthInv, NEW k \in Sessions, NEW q \in Asks, NEW place \in Places,
           UNCHANGED <<schema, version, reset, changed, undone, marks, results, rows, misled>>,
           ask' = [ask EXCEPT ![k] = q], pc' = [pc EXCEPT ![k] = place],
           q.calm => (ask[k].calm \/ reset = "idle") /\ q.version = version,
           Settled => ReadTrue(k)'
    PROVE  TruthInv'
<1>1. /\ ask'[k] = q
      /\ \A j \in Sessions \ {k} : ask'[j] = ask[j] /\ pc'[j] = pc[j]
  BY DEF TypeInv, SessionsTyped
<1>2. ASSUME Settled PROVE AnswersTrue'
  <2>1. AnswersTrue
    BY <1>2 DEF TruthInv
  <2>2. MarksTrue' /\ ResultsTrue'
    BY <2>1, MarksKept, ResultsKept DEF AnswersTrue
  <2>3. ASSUME NEW j \in Sessions PROVE ReadTrue(j)'
    <3>1. CASE j = k
      BY <1>2, <3>1
    <3>2. CASE j # k
      BY <1>1, <2>1, <3>2, ReadKept DEF AnswersTrue
    <3>. QED
      BY <3>1, <3>2
  <2>. QED
    BY <2>2, <2>3 DEF AnswersTrue
<1>3. Settled' => AnswersTrue'
  BY <1>2 DEF Settled
<1>4. ASSUME NEW j \in Sessions, ask'[j].calm
      PROVE  /\ ask[j].calm \/ (reset = "idle" /\ ask'[j].version = version)
             /\ ask'[j].version = version
  BY <1>1, <1>4 DEF TruthInv
<1>. QED
  BY <1>3, <1>4, StepTruth

\* The answer to k's query, which has to be right if no Reset overlapped.
LEMMA AnswerTruth ==
    ASSUME TypeInv, TruthInv, NEW k \in Sessions, NEW got, Answer(k, got),
           UNCHANGED <<schema, version, reset, changed, undone, rows, marks>>,
           Settled /\ ask[k].version = version => got = Derived(ask[k].query, DbOf[k]),
           Settled => ResultsTrue'
    PROVE  TruthInv'
<1>1. /\ ask' = [ask EXCEPT ![k] = NoQuery] /\ pc' = [pc EXCEPT ![k] = "idle"]
      /\ misled' = (misled \/ (ask[k].calm /\ got # Derived(ask[k].query, DbOf[k])))
  BY DEF Answer, Goto
<1>2. /\ ask'[k] = NoQuery /\ pc'[k] = "idle"
      /\ \A j \in Sessions \ {k} : ask'[j] = ask[j] /\ pc'[j] = pc[j]
  BY <1>1 DEF TypeInv, SessionsTyped
<1>3. ASSUME Settled PROVE AnswersTrue'
  <2>1. AnswersTrue
    BY <1>3 DEF TruthInv
  <2>2. MarksTrue' /\ ResultsTrue'
    BY <1>3, <2>1, MarksKept DEF AnswersTrue
  <2>3. ASSUME NEW j \in Sessions PROVE ReadTrue(j)'
    <3>1. CASE j = k
      BY <1>2, <3>1 DEF ReadTrue
    <3>2. CASE j # k
      BY <1>2, <2>1, <3>2, ReadKept DEF AnswersTrue
    <3>. QED
      BY <3>1, <3>2
  <2>. QED
    BY <2>2, <2>3 DEF AnswersTrue
<1>4. Settled' => AnswersTrue'
  BY <1>3 DEF Settled
<1>5. ASSUME NEW j \in Sessions, ask'[j].calm
      PROVE  ask[j].calm /\ ask'[j].version = version
  BY <1>2, <1>5, NoQueryType DEF TruthInv
<1>6. misled' => misled \/ (reset = "idle" /\ (undone' \/ changed))
  <2>1. CASE ask[k].calm
    <3>1. reset = "idle" /\ ask[k].version = version
      BY <2>1 DEF TruthInv
    <3>. QED
      BY <1>1, <2>1, <3>1 DEF Settled
  <2>2. CASE ~ask[k].calm
    BY <1>1, <2>2
  <2>. QED
    BY <2>1, <2>2
<1>. QED
  BY <1>4, <1>5, <1>6, StepTruth

LEMMA AskTruth == ASSUME TypeInv, TruthInv, NEW k \in Sessions, Ask(k) PROVE TruthInv'
<1>1. PICK query \in Queries :
        /\ ask' = [ask EXCEPT ![k] = [NoQuery EXCEPT !.query = query,
                                        !.calm = (reset = "idle"), !.version = version]]
        /\ Goto(k, IF query \in Cacheable THEN "lookup" ELSE "prepare")
  BY DEF Ask
<1>2. PICK calm \in BOOLEAN : calm = (reset = "idle")
  OBVIOUS
<1>. DEFINE q == [NoQuery EXCEPT !.query = query, !.calm = calm, !.version = version]
            place == IF query \in Cacheable THEN "lookup" ELSE "prepare"
<1>3. q \in Asks /\ q.version = version /\ q.calm = calm
  BY KindsOf, VersionOf, NoQueryType DEF Asks
<1>4. place \in Places /\ place \notin {"read", "store"}
  BY DEF Places
<1>5. ask' = [ask EXCEPT ![k] = q] /\ pc' = [pc EXCEPT ![k] = place]
  BY <1>1, <1>2 DEF Goto
<1>. HIDE DEF q, place
<1>6. UNCHANGED <<schema, version, reset, changed, undone, marks, results, rows, misled>>
  BY DEF Ask, resetVars, database, cache
<1>7. ReadTrue(k)'
  BY <1>4, <1>5 DEF ReadTrue, TypeInv, SessionsTyped
<1>8. q.calm => (ask[k].calm \/ reset = "idle") /\ q.version = version
  BY <1>2, <1>3
<1>. QED
  BY <1>3, <1>4, <1>5, <1>6, <1>7, <1>8, QuietQueryTruth

LEMMA LookupTruth == ASSUME TypeInv, TruthInv, NEW k \in Sessions, Lookup(k) PROVE TruthInv'
<1>1. UNCHANGED <<schema, version, reset, changed, undone, marks, results, rows>>
  BY DEF Lookup, resetVars, database, cache
<1>. DEFINE entry == results[<<DbOf[k], ask[k].query>>]
<1>2. CASE entry.version = ask[k].version
  <2>1. Answer(k, entry.answer)
    BY <1>2 DEF Lookup
  <2>2. Settled /\ ask[k].version = version => entry.answer = Derived(ask[k].query, DbOf[k])
    BY <1>2, AskOf DEF TruthInv, AnswersTrue, ResultsTrue
  <2>3. Settled => ResultsTrue'
    BY <1>1, ResultsKept DEF TruthInv, AnswersTrue
  <2>. HIDE DEF entry
  <2>. QED
    BY <1>1, <2>1, <2>2, <2>3, AnswerTruth
<1>3. CASE entry.version # ask[k].version
  <2>1. Goto(k, "prepare") /\ UNCHANGED <<ask, misled>>
    BY <1>3 DEF Lookup
  <2>2. PICK q \in Asks : q = ask[k]
    BY AskOf
  <2>3. ask' = [ask EXCEPT ![k] = q] /\ pc' = [pc EXCEPT ![k] = "prepare"]
        /\ "prepare" \in Places
    BY <2>1, <2>2 DEF Goto, Places, TypeInv, SessionsTyped
  <2>4. ReadTrue(k)'
    BY <2>3 DEF ReadTrue, TypeInv, SessionsTyped
  <2>5. q.calm => (ask[k].calm \/ reset = "idle") /\ q.version = version
    BY <2>2 DEF TruthInv
  <2>. QED
    BY <1>1, <2>1, <2>2, <2>3, <2>4, <2>5, QuietQueryTruth
<1>. QED
  BY <1>2, <1>3

LEMMA PrepareLockTruth ==
    ASSUME TypeInv, TruthInv, NEW k \in Sessions, Prepare(k) \/ Lock(k) PROVE TruthInv'
<1>1. UNCHANGED <<schema, version, reset, changed, undone, marks, results, rows, misled>>
  BY DEF Prepare, Lock, resetVars, database, cache
<1>2. PICK q \in Asks : q = ask[k]
  BY AskOf
<1>3. PICK j \in Asks, place \in Places :
        /\ ask' = [ask EXCEPT ![k] = j] /\ pc' = [pc EXCEPT ![k] = place]
        /\ j.calm = q.calm /\ j.version = q.version /\ place \notin {"read", "store"}
  <2>1. CASE Prepare(k)
    <3>. DEFINE j == [q EXCEPT !.refreshVersion = version]
    <3>1. j \in Asks /\ j.calm = q.calm /\ j.version = q.version
      BY VersionOf DEF Asks
    <3>2. ask' = [ask EXCEPT ![k] = j] /\ pc' = [pc EXCEPT ![k] = "refresh"]
          /\ "refresh" \in Places
      BY <1>2, <2>1 DEF Prepare, Goto, Places, TypeInv, SessionsTyped
    <3>. HIDE DEF j
    <3>. QED
      BY <3>1, <3>2
  <2>2. CASE Lock(k)
    <3>1. ask' = [ask EXCEPT ![k] = q] /\ pc' = [pc EXCEPT ![k] = "locked"]
          /\ "locked" \in Places
      BY <1>2, <2>2 DEF Lock, Goto, Places, TypeInv, SessionsTyped
    <3>. QED
      BY <3>1
  <2>. QED
    BY <2>1, <2>2
<1>4. ReadTrue(k)'
  BY <1>3 DEF ReadTrue, TypeInv, SessionsTyped
<1>5. j.calm => (ask[k].calm \/ reset = "idle") /\ j.version = version
  BY <1>2, <1>3 DEF TruthInv
<1>. QED
  BY <1>1, <1>3, <1>4, <1>5, QuietQueryTruth


\* The refresh: what its marks vouch for is what it has written, and what it
\* writes agrees with what other marks vouch for and other queries await.
LEMMA RefreshTruth ==
    ASSUME TypeInv, TruthInv, OneDb, NEW k \in Sessions, Refresh(k) PROVE TruthInv'
<1>1. /\ UNCHANGED <<schema, version, reset, changed, undone, results, misled>>
      /\ pc[k] = "locked"
  BY DEF Refresh, resetVars
<1>2. PICK q \in Asks : q = ask[k] /\ q.version <= q.refreshVersion /\ q.refreshVersion <= version
  BY <1>1, AskOf DEF AskBehind
<1>3. PICK query \in Kinds, v \in Versions : query = q.query /\ v = q.refreshVersion
  BY DEF Asks
<1>. DEFINE j == [q EXCEPT !.refreshVersion = 0]
<1>4. j \in Asks /\ j.version = q.version /\ j.calm = q.calm /\ j.query = query
  BY <1>3, ConstantsOf DEF Asks
<1>5. ask' = [ask EXCEPT ![k] = j] /\ pc' = [pc EXCEPT ![k] = "read"]
  BY <1>2 DEF Refresh, Goto, TypeInv, SessionsTyped
<1>. HIDE DEF j
<1>6. /\ ask'[k] = j /\ pc'[k] = "read"
      /\ \A i \in Sessions \ {k} : ask'[i] = ask[i] /\ pc'[i] = pc[i]
  BY <1>5 DEF TypeInv, SessionsTyped
<1>7. q.version = version => v = version
  <2>1. version \in Nat /\ v \in Nat /\ q.version \in Nat
    BY <1>3, VersionOf, ConstantsOf DEF Asks
  <2>. QED
    BY <1>2, <1>3, <2>1
<1>8. \/ UNCHANGED <<rows, marks>> /\ Loaded(query, v)
      \/ rows' = Refreshed(query, DbOf[k]) /\ marks' = MarkedAt(query, v)
  BY <1>2, <1>3 DEF Refresh
<1>9. ASSUME Settled PROVE AnswersTrue'
  <2>1. AnswersTrue /\ ResultsTrue'
    BY <1>1, <1>9, ResultsKept DEF TruthInv, AnswersTrue
  <2>2. CASE UNCHANGED <<rows, marks>> /\ Loaded(query, v)
    <3>1. MarksTrue'
      BY <1>1, <2>1, <2>2, MarksKept DEF AnswersTrue
    <3>2. q.version = version => Right(query, k)
      BY <1>7, <2>1, <2>2 DEF AnswersTrue, MarksTrue
    <3>3. q.version = version => Right(query, k)'
      BY <1>1, <2>2, <3>2 DEF Right, Found, Derived
    <3>4. ReadTrue(k)'
      BY <1>1, <1>4, <1>6, <3>3 DEF ReadTrue, Right
    <3>5. \A i \in Sessions \ {k} : ReadTrue(i)'
      BY <1>1, <1>6, <2>1, <2>2, ReadKept DEF AnswersTrue
    <3>. QED
      BY <2>1, <3>1, <3>4, <3>5 DEF AnswersTrue
  <2>3. CASE rows' = Refreshed(query, DbOf[k]) /\ marks' = MarkedAt(query, v)
    <3>1. ASSUME NEW i \in Sessions, NEW other \in Kinds, Loaded(other, version)'
          PROVE  Right(other, i)'
      <4>1. /\ marks'.full \in {v, marks.full}
            /\ marks'.list \in {v, marks.list}
            /\ marks'.schemata \in {v, marks.schemata}
            /\ query # "all" => marks'.full = marks.full
            /\ query # "list" => marks'.list = marks.list
            /\ query \notin {"list", "schemata"} => marks'.schemata = marks.schemata
            /\ \A t \in Tables : t # query => marks'.table[t] \in {marks.table[t], NotLoaded}
        BY <2>3, MarkedAtType DEF TypeInv, CacheTyped
      <4>2. version # NotLoaded
        BY VersionOf, ConstantsOf
      <4>3. \/ Loaded(other, version) \/ other = query \/ query = "all"
            \/ query = "list" /\ other = "schemata"
        BY <1>1, <3>1, <4>1, <4>2 DEF Loaded
      <4>4. \/ Right(other, i) \/ other = query \/ query = "all"
            \/ query = "list" /\ other = "schemata"
        BY <2>1, <4>3 DEF AnswersTrue, MarksTrue
      <4>. QED
        BY <1>1, <2>3, <4>4, RefreshRight
    <3>2. MarksTrue'
      BY <3>1 DEF MarksTrue
    <3>3. Right(query, k)'
      BY <1>1, <2>3, RefreshRight
    <3>4. ReadTrue(k)'
      BY <1>4, <1>6, <3>3 DEF ReadTrue, Right
    <3>5. ASSUME NEW i \in Sessions \ {k} PROVE ReadTrue(i)'
      <4>1. ask'[i] = ask[i] /\ pc'[i] = pc[i] /\ ReadTrue(i) /\ ask[i].query \in Kinds
        BY <1>6, <2>1, AskOf DEF AnswersTrue
      <4>2. Right(ask[i].query, i) => Right(ask[i].query, i)'
        <5>1. PICK other \in Kinds : other = ask[i].query
          BY <4>1
        <5>2. Right(other, i) => Right(other, i)'
          BY <1>1, <2>3, RefreshRight
        <5>. QED
          BY <4>1, <5>1, <5>2 DEF Right
      <4>. QED
        BY <1>1, <4>1, <4>2 DEF ReadTrue, Derived
    <3>. QED
      BY <2>1, <3>2, <3>4, <3>5 DEF AnswersTrue
  <2>. QED
    BY <1>8, <2>2, <2>3
<1>10. Settled' => AnswersTrue'
  BY <1>1, <1>9 DEF Settled
<1>11. ASSUME NEW i \in Sessions, ask'[i].calm
       PROVE  ask[i].calm /\ ask'[i].version = version
  BY <1>2, <1>4, <1>6, <1>11 DEF TruthInv
<1>. QED
  BY <1>1, <1>10, <1>11, StepTruth

LEMMA ReadTruth == ASSUME TypeInv, TruthInv, NEW k \in Sessions, Read(k) PROVE TruthInv'
<1>1. UNCHANGED <<schema, version, reset, changed, undone, marks, results, rows>> /\ pc[k] = "read"
  BY DEF Read, resetVars, cache
<1>2. PICK got \in Answers : got = Found(ask[k].query, DbOf[k], rows)
  BY AskOf, FoundType
<1>3. Settled /\ ask[k].version = version => got = Derived(ask[k].query, DbOf[k])
  BY <1>1, <1>2 DEF TruthInv, AnswersTrue, ReadTrue, Right
<1>4. CASE ask[k].query \in Cacheable
  <2>1. ask' = [ask EXCEPT ![k].got = got] /\ Goto(k, "store") /\ UNCHANGED misled
    BY <1>2, <1>4 DEF Read
  <2>2. PICK q \in Asks : q = ask[k]
    BY AskOf
  <2>. DEFINE j == [q EXCEPT !.got = got]
  <2>3. /\ j \in Asks /\ j.version = q.version /\ j.calm = q.calm
        /\ j.query = q.query /\ j.got = got
    BY DEF Asks
  <2>4. ask' = [ask EXCEPT ![k] = j] /\ pc' = [pc EXCEPT ![k] = "store"]
        /\ "store" \in Places
    BY <2>1, <2>2 DEF Goto, Places, TypeInv, SessionsTyped
  <2>. HIDE DEF j
  <2>5. ask'[k] = j /\ pc'[k] = "store"
    BY <2>4 DEF TypeInv, SessionsTyped
  <2>6. Settled => ReadTrue(k)'
    BY <1>1, <1>3, <2>2, <2>3, <2>5 DEF ReadTrue, Derived
  <2>7. j.calm => (ask[k].calm \/ reset = "idle") /\ j.version = version
    BY <2>2, <2>3 DEF TruthInv
  <2>. QED
    BY <1>1, <2>1, <2>3, <2>4, <2>6, <2>7, QuietQueryTruth
<1>5. CASE ask[k].query \notin Cacheable
  <2>1. Answer(k, got)
    BY <1>2, <1>5 DEF Read
  <2>2. Settled => ResultsTrue'
    BY <1>1, ResultsKept DEF TruthInv, AnswersTrue
  <2>. QED
    BY <1>1, <1>3, <2>1, <2>2, AnswerTruth
<1>. QED
  BY <1>4, <1>5

\* The result goes under the version the query began with.
LEMMA StoreTruth ==
    ASSUME TypeInv, TruthInv, OneDb, NEW k \in Sessions, Store(k) PROVE TruthInv'
<1>1. /\ UNCHANGED <<schema, version, reset, changed, undone, marks, rows>> /\ pc[k] = "store"
      /\ Answer(k, ask[k].got)
  BY DEF Store, resetVars, database
<1>2. PICK got : got = ask[k].got
  OBVIOUS
<1>3. Settled /\ ask[k].version = version => got = Derived(ask[k].query, DbOf[k])
  BY <1>1, <1>2 DEF TruthInv, AnswersTrue, ReadTrue
<1>4. PICK at \in Dbs \X Kinds : at = <<DbOf[k], ask[k].query>>
  BY AskOf
<1>5. /\ results'[at].version = ask[k].version /\ results'[at].answer = got
      /\ \A e \in Dbs \X Kinds : e # at => results'[e] = results[e]
  BY <1>2, <1>4 DEF Store, TypeInv, CacheTyped
<1>6. ASSUME Settled PROVE ResultsTrue'
  <2>. SUFFICES ASSUME NEW i \in Sessions, NEW query \in Kinds,
                       results'[<<DbOf[i], query>>].version = version
                PROVE  results'[<<DbOf[i], query>>].answer = Derived(query, DbOf[i])
    BY <1>1 DEF ResultsTrue, Derived
  <2>1. <<DbOf[i], query>> \in Dbs \X Kinds /\ DbOf[i] = DbOf[k]
    BY KindsOf DEF OneDb
  <2>2. CASE query = ask[k].query
    BY <1>3, <1>4, <1>5, <1>6, <2>1, <2>2
  <2>3. CASE query # ask[k].query
    <3>1. results'[<<DbOf[i], query>>] = results[<<DbOf[i], query>>]
      BY <1>4, <1>5, <2>1, <2>3
    <3>. QED
      BY <1>6, <3>1 DEF TruthInv, AnswersTrue, ResultsTrue
  <2>. QED
    BY <2>2, <2>3
<1>7. Answer(k, got)
  BY <1>1, <1>2
<1>. QED
  BY <1>1, <1>3, <1>6, <1>7, AnswerTruth

LEMMA TransactionTruth ==
    ASSUME TypeInv, TruthInv, NEW k \in Sessions, Begin(k) \/ Commit(k) \/ Rollback(k)
    PROVE  TruthInv'
<1>1. /\ UNCHANGED <<schema, version, reset, changed, marks, results, pc, ask, misled>>
      /\ undone => undone'
      /\ ~undone' => rows' = rows
  <2>1. UNCHANGED <<schema, version, reset, changed, marks, results, pc, ask, misled>>
    BY DEF Begin, Commit, Rollback, EndTransaction, resetVars, cache
  <2>2. CASE Begin(k) \/ Commit(k)
    BY <2>1, <2>2 DEF Begin, Commit, database
  <2>3. CASE Rollback(k)
    <3>1. undone' = (undone \/ writer = k) /\ rows' = IF writer = k THEN undo ELSE rows
      BY <2>3 DEF Rollback
    <3>. QED
      BY <2>1, <3>1, Zenon
  <2>. QED
    BY <2>1, <2>2, <2>3
<1>2. ASSUME Settled' PROVE AnswersTrue'
  <2>1. AnswersTrue /\ rows' = rows
    BY <1>1, <1>2 DEF TruthInv, Settled
  <2>2. \A i \in Sessions : ReadTrue(i)'
    BY <1>1, <2>1, ReadKept DEF AnswersTrue
  <2>. QED
    BY <1>1, <2>1, <2>2, MarksKept, ResultsKept DEF AnswersTrue
<1>3. \A i \in Sessions : ask'[i].calm => ask[i].calm /\ ask'[i].version = version
  BY <1>1 DEF TruthInv
<1>. QED
  BY <1>1, <1>2, <1>3, StepTruth

\* Nothing that was stored, marked or asked for so far has the new version.
LEMMA ResetBumpTruth == ASSUME TypeInv, TruthInv, ResetBump PROVE TruthInv'
<1>1. /\ version' = version + 1 /\ reset = "applied" /\ reset' = "bumped"
      /\ UNCHANGED <<schema, marks, results, pc, ask, misled, undone>>
  BY DEF ResetBump, cache
<1>2. /\ version \in Nat
      /\ marks.full \in Int /\ marks.list \in Int /\ marks.schemata \in Int
      /\ \A t \in Tables : marks.table[t] \in Int
      /\ \A e \in Dbs \X Kinds : results[e].version \in Int
      /\ \A k \in Sessions : ask[k].version \in Nat
  BY VersionOf, ConstantsOf
     DEF TypeInv, CacheTyped, MarkSets, Entries, SessionsTyped, Asks
<1>3. /\ marks.full # version' /\ marks.list # version' /\ marks.schemata # version'
      /\ \A t \in Tables : marks.table[t] # version'
      /\ \A e \in Dbs \X Kinds : results[e].version # version'
      /\ \A k \in Sessions : ask[k].version # version'
  BY <1>1, <1>2 DEF TypeInv, CacheTyped, SessionsTyped, AskBehind
<1>4. MarksTrue'
  BY <1>1, <1>3 DEF MarksTrue, Loaded
<1>5. ResultsTrue'
  BY <1>1, <1>3, KindsOf DEF ResultsTrue
<1>6. \A k \in Sessions : ReadTrue(k)'
  BY <1>1, <1>3 DEF ReadTrue
<1>. QED
  BY <1>1, <1>4, <1>5, <1>6 DEF TruthInv, AnswersTrue

\* The Reset's last step: if it forgives an undone refresh, no query is under
\* way that could have read what the rollback left.
LEMMA ResetClearTruth == ASSUME TypeInv, TruthInv, ResetClear PROVE TruthInv'
<1>1. /\ UNCHANGED <<schema, version, changed, rows, pc, ask, misled>> /\ reset = "bumped"
      /\ reset' = "idle" /\ marks' = Nothing /\ results' = NoResults
      /\ undone' => undone
      /\ undone /\ ~undone' => \A k \in Sessions : Idle(k)
  BY DEF ResetClear, database
<1>2. version # NotLoaded
  BY VersionOf, ConstantsOf
<1>3. MarksTrue'
  BY <1>1, <1>2, NothingType DEF MarksTrue, Loaded
<1>4. ResultsTrue'
  BY <1>1, <1>2, NothingType, KindsOf DEF ResultsTrue
<1>5. ASSUME Settled', NEW k \in Sessions PROVE ReadTrue(k)'
  <2>1. CASE undone
    BY <1>1, <1>5, <2>1 DEF Settled, Idle, ReadTrue
  <2>2. CASE ~undone
    <3>1. Settled /\ UNCHANGED <<schema, version, rows, pc, ask>>
      BY <1>1, <1>5, <2>2 DEF Settled
    <3>2. ReadTrue(k) /\ ask'[k] = ask[k] /\ pc'[k] = pc[k]
      BY <3>1 DEF TruthInv, AnswersTrue
    <3>. QED
      BY <3>1, <3>2, ReadKept
  <2>. QED
    BY <2>1, <2>2
<1>. QED
  BY <1>1, <1>3, <1>4, <1>5 DEF TruthInv, AnswersTrue

LEMMA ResetTruth == ASSUME TypeInv, TruthInv, Reset PROVE TruthInv'
<1>1. CASE ResetDrop
  <2>1. /\ reset' = "dropped" /\ misled' = FALSE /\ undone' = undone
        /\ ask' = [k \in Sessions |-> [ask[k] EXCEPT !.calm = FALSE]]
    BY <1>1 DEF ResetDrop
  <2>2. ASSUME NEW k \in Sessions PROVE ask'[k].calm = FALSE
    <3>1. PICK q \in Asks : q = ask[k]
      BY AskOf
    <3>2. [q EXCEPT !.calm = FALSE].calm = FALSE
      BY DEF Asks
    <3>. QED
      BY <2>1, <3>1, <3>2
  <2>. QED
    BY <2>1, <2>2 DEF TruthInv, Settled
<1>2. CASE ResetApply
  BY <1>2 DEF ResetApply, TruthInv, Settled
<1>3. CASE ResetFails
  BY <1>3 DEF ResetFails, TruthInv, Settled
<1>. QED
  BY <1>1, <1>2, <1>3, ResetBumpTruth, ResetClearTruth DEF Reset

LEMMA RuntimeDDLTruth ==
    ASSUME TypeInv, TruthInv, NEW k \in Sessions, RuntimeDDL(k) PROVE TruthInv'
<1>1. UNCHANGED <<version, reset, ask, misled>> /\ changed' = TRUE
  BY DEF RuntimeDDL
<1>. QED
  BY <1>1 DEF TruthInv, Settled

LEMMA NextTruthInv == OneDb /\ TypeInv /\ TruthInv /\ [Next]_vars => TruthInv'
<1>. SUFFICES ASSUME OneDb, TypeInv, TruthInv, [Next]_vars PROVE TruthInv'
  OBVIOUS
<1>1. CASE UNCHANGED vars
  <2>1. UNCHANGED <<schema, version, reset, changed, rows, marks, results, pc, ask, misled, undone>>
    BY <1>1 DEF vars, resetVars, database, cache
  <2>2. AnswersTrue => AnswersTrue'
    BY <2>1, MarksKept, ResultsKept, ReadKept DEF AnswersTrue
  <2>. QED
    BY <2>1, <2>2 DEF TruthInv, Settled
<1>2. ASSUME NEW k \in Sessions, Ask(k) \/ QueryStep(k) PROVE TruthInv'
  BY <1>2, AskTruth, LookupTruth, PrepareLockTruth, RefreshTruth, ReadTruth, StoreTruth
     DEF QueryStep
<1>3. ASSUME NEW k \in Sessions, Begin(k) \/ Commit(k) \/ Rollback(k) PROVE TruthInv'
  BY <1>3, TransactionTruth
<1>4. CASE Reset
  BY <1>4, ResetTruth
<1>5. ASSUME NEW k \in Sessions, RuntimeDDL(k) PROVE TruthInv'
  BY <1>5, RuntimeDDLTruth
<1>. QED
  BY <1>1, <1>2, <1>3, <1>4, <1>5 DEF Next

LEMMA TruthInvariance == OneDb => (Spec => []TruthInv)
<1>1. OneDb /\ TypeInv /\ TypeInv' /\ TruthInv /\ [Next]_vars => TruthInv'
  BY NextTruthInv
<1>2. OneDb => [](OneDb)
  OBVIOUS
<1>. QED
  BY <1>1, <1>2, InitTruthInv, TypeInvariance, PTL DEF Spec

-----------------------------------------------------------------------------
(* The theorems about answers.                                             *)

\* With one database name, a query that no Reset overlapped is answered as the
\* SQLite schema would have it, whatever the order of refreshes, version reads
\* and cache steps, unless a ROLLBACK has taken a refresh back or the schema has
\* changed since its version was last bumped: by a client behind another
\* statement, or by a Reset that failed (prepareInformationSchema,
\* queryInformationSchemaText).
THEOREM OnlyUndoneRefreshMisleads ==
    ASSUME OneDb PROVE Spec => []WrongOnlyAfterUndoneRefresh
<1>1. TruthInv => WrongOnlyAfterUndoneRefresh
  BY DEF TruthInv, WrongOnlyAfterUndoneRefresh
<1>. QED
  BY <1>1, TruthInvariance, PTL

\* With one database name, what a Reset leaves in the cache of results, or what
\* came in since, is what the schema says, with the same exceptions: the bump of
\* the next full Reset makes the results right again.
THEOREM StoredResultsFollowSchema ==
    ASSUME OneDb PROVE Spec => []StoredResultsAreCurrent
<1>1. TruthInv => StoredResultsAreCurrent
  BY KindsOf DEF TruthInv, StoredResultsAreCurrent, Settled, AnswersTrue, ResultsTrue
<1>. QED
  BY <1>1, TruthInvariance, PTL

=============================================================================
