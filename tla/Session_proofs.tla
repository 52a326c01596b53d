--------------------------- MODULE Session_proofs ---------------------------
(***************************************************************************)
(* What transactions promise to clients, for any number of clients, driver *)
(* connections, savepoints and values: proofs of the properties of Session *)
(* for clients that do not leave inside a transaction.                     *)
(*                                                                         *)
(* Every command is one change at one driver connection: of the database   *)
(* image, the holder of its write lock and the frames of the open          *)
(* transaction (Change), and of what its session remembers (Turn).  What   *)
(* a change may be (Legal) is shown once for each command, and each        *)
(* invariant once for all legal changes.                                   *)
(***************************************************************************)
EXTENDS Session, TLAPS, SequenceTheorems

-----------------------------------------------------------------------------
(* Changes at one driver connection.                                       *)

Places == {"idle", "inserted", "rolledBack", "chaining", "rolledBackTo"}
Holders == DriverConns \cup {NoConn}

Change(k, img, w, fs) ==
    /\ image' = [image EXCEPT ![Db(k)] = img]
    /\ writer' = [writer EXCEPT ![Db(k)] = w]
    /\ undo' = [undo EXCEPT ![k] = fs]

Turn(c, place, flag) ==
    /\ pc' = [pc EXCEPT ![c] = place]
    /\ inTrans' = [inTrans EXCEPT ![c] = flag]

\* What a write does to the lock and the frames of its connection.
Takes(k) == Open(k) /\ writer[Db(k)] = NoConn
TakenBy(k) == IF Takes(k) THEN k ELSE writer[Db(k)]
Filled(fs, img) == [i \in 1..Len(fs) |-> [name |-> fs[i].name, image |-> img]]
FramesTaken(k) == IF Takes(k) THEN Filled(undo[k], image[Db(k)]) ELSE undo[k]

\* What the end of a transaction does to the lock.
Freed(k) == IF writer[Db(k)] = k THEN NoConn ELSE writer[Db(k)]

\* Image a holds nothing that image b does not.
Below(a, b) == a.rows \subseteq b.rows /\ a.seq <= b.seq

\* The image after frame i is undone, and after sqlite_sequence is raised.
Back(k, i) == IF writer[Db(k)] = k THEN undo[k][i].image ELSE image[Db(k)]
Raised(img, n) == [rows |-> img.rows, seq |-> IF img.seq < n THEN n ELSE img.seq]

LEMMA SequenceOf ==
    ASSUME NEW S, NEW s \in Seq(S)
    PROVE  /\ DOMAIN s = 1..Len(s) /\ Len(s) \in Nat
           /\ s # <<>> <=> 1 \in DOMAIN s
           /\ \A i \in DOMAIN s : s[i] \in S
<1>1. DOMAIN s = 1..Len(s) /\ Len(s) \in Nat /\ s \in [1..Len(s) -> S]
  BY LenProperties
<1>2. s # <<>> => Len(s) \in Nat \ {0}
  BY EmptySeq
<1>3. s = <<>> => Len(s) = 0
  BY EmptySeq, Zenon
<1>. QED
  BY <1>1, <1>2, <1>3

LEMMA PartsTyped ==
    ASSUME TypeOK, NEW k \in DriverConns
    PROVE  /\ Db(k) \in Dbs /\ image[Db(k)] \in Images /\ writer[Db(k)] \in Holders
           /\ undo[k] \in Seq(Frames) /\ DOMAIN undo[k] = 1..Len(undo[k])
           /\ Len(undo[k]) \in Nat /\ (Open(k) <=> 1 \in DOMAIN undo[k])
           /\ \A i \in DOMAIN undo[k] : undo[k][i] \in Frames /\ undo[k][i].image \in Images
<1>1. Db(k) \in Dbs
  BY DEF Db, Dbs
<1>2. undo[k] \in Seq(Frames)
  BY DEF TypeOK
<1>3. /\ DOMAIN undo[k] = 1..Len(undo[k]) /\ Len(undo[k]) \in Nat
      /\ undo[k] # <<>> <=> 1 \in DOMAIN undo[k]
      /\ \A i \in DOMAIN undo[k] : undo[k][i] \in Frames
  BY <1>2, SequenceOf
<1>4. image[Db(k)] \in Images /\ writer[Db(k)] \in Holders
  BY <1>1 DEF TypeOK, Holders
<1>5. \A f \in Frames : f.image \in Images
  BY DEF Frames
<1>. QED
  BY <1>1, <1>2, <1>3, <1>4, <1>5 DEF Open

LEMMA SeededTyped == Seeded \in Images /\ MaxId \in Nat
<1>1. MaxId \in Nat
  BY SessionAssumption
<1>. QED
  BY <1>1 DEF Seeded, Images

LEMMA FrameTyped ==
    ASSUME TypeOK, NEW k \in DriverConns, NEW s \in Savepoints \cup {Begun}
    PROVE  Frame(k, s) \in Frames /\ Frame(k, s).name = s
           /\ (writer[Db(k)] = k => Frame(k, s).image = image[Db(k)])
BY PartsTyped, SeededTyped DEF Frame, Frames

LEMMA FilledTyped ==
    ASSUME NEW fs \in Seq(Frames), NEW img \in Images
    PROVE  /\ Filled(fs, img) \in Seq(Frames) /\ DOMAIN Filled(fs, img) = DOMAIN fs
           /\ \A i \in DOMAIN fs : Filled(fs, img)[i].name = fs[i].name
                                   /\ Filled(fs, img)[i].image = img
<1>1. DOMAIN fs = 1..Len(fs) /\ Len(fs) \in Nat /\ \A i \in DOMAIN fs : fs[i] \in Frames
  BY SequenceOf
<1>2. \A i \in 1..Len(fs) : [name |-> fs[i].name, image |-> img] \in Frames
  BY <1>1 DEF Frames
<1>3. Filled(fs, img) \in [1..Len(fs) -> Frames]
  BY <1>2 DEF Filled
<1>4. Filled(fs, img) \in Seq(Frames)
  BY <1>1, <1>3, SeqDef
<1>. QED
  BY <1>1, <1>4 DEF Filled

LEMMA RaisedTyped ==
    ASSUME NEW img \in Images, NEW n \in 0..MaxId
    PROVE  /\ Raised(img, n) \in Images /\ Raised(img, n).rows = img.rows
           /\ img.seq <= Raised(img, n).seq /\ n <= Raised(img, n).seq
           /\ [img EXCEPT !.seq = IF @ < n THEN n ELSE @] = Raised(img, n)
BY SeededTyped DEF Raised, Images

\* A write is a change, and its lock and frames are ones.
LEMMA WriteChange ==
    ASSUME TypeOK, NEW k \in DriverConns, NEW img \in Images, Write(k, img)
    PROVE  /\ Change(k, img, TakenBy(k), FramesTaken(k))
           /\ TakenBy(k) \in Holders /\ FramesTaken(k) \in Seq(Frames)
<1>1. TakenBy(k) \in Holders /\ FramesTaken(k) \in Seq(Frames)
  BY PartsTyped, FilledTyped DEF TakenBy, FramesTaken, Holders
<1>2. image' = [image EXCEPT ![Db(k)] = img]
  BY DEF Write
<1>3. CASE Takes(k)
  <2>1. undo' = [undo EXCEPT ![k] =
                   [i \in DOMAIN @ |-> [@[i] EXCEPT !.image = image[Db(k)]]]]
        /\ writer' = [writer EXCEPT ![Db(k)] = k]
    BY <1>3 DEF Write, Takes
  <2>2. [i \in DOMAIN undo[k] |-> [undo[k][i] EXCEPT !.image = image[Db(k)]]]
          = Filled(undo[k], image[Db(k)])
    <3>1. \A f \in Frames, m \in Images : [f EXCEPT !.image = m] = [name |-> f.name, image |-> m]
      BY DEF Frames
    <3>2. \A i \in 1..Len(undo[k]) : [undo[k][i] EXCEPT !.image = image[Db(k)]]
             = [name |-> undo[k][i].name, image |-> image[Db(k)]]
      BY <3>1, PartsTyped
    <3>. QED
      BY <3>2, PartsTyped DEF Filled
  <2>3. undo' = [undo EXCEPT ![k] = Filled(undo[k], image[Db(k)])]
    BY <2>1, <2>2 DEF TypeOK
  <2>. QED
    BY <1>1, <1>2, <1>3, <2>1, <2>3 DEF Change, TakenBy, FramesTaken
<1>4. CASE ~Takes(k)
  <2>1. writer' = writer /\ undo' = undo
    BY <1>4 DEF Write, Takes
  <2>. QED
    BY <1>1, <1>2, <1>4, <2>1, PartsTyped DEF Change, TakenBy, FramesTaken, TypeOK
<1>. QED
  BY <1>3, <1>4

\* No change is one.
LEMMA NoChange ==
    ASSUME TypeOK, NEW k \in DriverConns
    PROVE  /\ image' = image => image' = [image EXCEPT ![Db(k)] = image[Db(k)]]
           /\ writer' = writer => writer' = [writer EXCEPT ![Db(k)] = writer[Db(k)]]
           /\ undo' = undo => undo' = [undo EXCEPT ![k] = undo[k]]
BY PartsTyped DEF TypeOK

LEMMA EndChange ==
    ASSUME TypeOK, NEW k \in DriverConns
    PROVE  /\ Unlocked(k) = [writer EXCEPT ![Db(k)] = Freed(k)]
           /\ Freed(k) \in Holders
           /\ \A i \in DOMAIN undo[k] :
                 /\ Undone(k, i) = [image EXCEPT ![Db(k)] = Back(k, i)]
                 /\ Back(k, i) \in Images
<1>1. Unlocked(k) = [writer EXCEPT ![Db(k)] = Freed(k)] /\ Freed(k) \in Holders
  BY PartsTyped DEF Unlocked, Freed, TypeOK, Holders
<1>2. ASSUME NEW i \in DOMAIN undo[k]
      PROVE  Undone(k, i) = [image EXCEPT ![Db(k)] = Back(k, i)] /\ Back(k, i) \in Images
  BY PartsTyped DEF Undone, Back, TypeOK
<1>. QED
  BY <1>1, <1>2

\* The first frames of a transaction.
LEMMA CutTyped ==
    ASSUME NEW fs \in Seq(Frames), NEW n \in 0..Len(fs)
    PROVE  /\ SubSeq(fs, 1, n) \in Seq(Frames) /\ Len(SubSeq(fs, 1, n)) = n
           /\ DOMAIN SubSeq(fs, 1, n) = 1..n
           /\ \A i \in 1..n : SubSeq(fs, 1, n)[i] = fs[i]
<1>1. DOMAIN fs = 1..Len(fs) /\ Len(fs) \in Nat /\ \A i \in DOMAIN fs : fs[i] \in Frames
  BY SequenceOf
<1>2. /\ SubSeq(fs, 1, n) \in Seq(Frames)
      /\ Len(SubSeq(fs, 1, n)) = IF 1 <= n THEN n - 1 + 1 ELSE 0
      /\ \A i \in 1..n - 1 + 1 : SubSeq(fs, 1, n)[i] = fs[1 + i - 1]
  BY <1>1, SubSeqProperties
<1>3. DOMAIN SubSeq(fs, 1, n) = 1..Len(SubSeq(fs, 1, n))
  BY <1>2, SequenceOf
<1>. QED
  BY <1>1, <1>2, <1>3

-----------------------------------------------------------------------------
(* The commands as changes, and the types.                                 *)

FramesBegun(k) == IF Open(k) THEN undo[k] ELSE <<Frame(k, Begun)>>

LEMMA StepTyped ==
    ASSUME TypeOK, NEW c \in Clients, NEW k \in DriverConns, NEW img \in Images,
           NEW w \in Holders, NEW fs \in Seq(Frames), NEW place \in Places,
           NEW flag \in BOOLEAN, Change(k, img, w, fs), Turn(c, place, flag),
           UNCHANGED lease, marked' \in [Clients -> BOOLEAN], alloc' \in 0..MaxId,
           newId' \in [Clients -> 0..MaxId], handed' \in [Dbs -> SUBSET Ids],
           durable' \in [Dbs -> SUBSET Ids], raced' \in BOOLEAN
    PROVE  TypeOK'
<1>1. LeaseModel!LeaseTypeOK'
  BY DEF TypeOK, LeaseModel!LeaseTypeOK
<1>2. image' \in [Dbs -> Images] /\ writer' \in [Dbs -> DriverConns \cup {NoConn}]
      /\ undo' \in [DriverConns -> Seq(Frames)]
  BY DEF TypeOK, Change, Holders
<1>3. pc' \in [Clients -> Places] /\ inTrans' \in [Clients -> BOOLEAN]
  BY DEF TypeOK, Turn, Places
<1>. QED
  BY <1>1, <1>2, <1>3 DEF TypeOK, Places

\* The session of a command, and where it is.
LEMMA SessionTyped ==
    ASSUME TypeOK, NEW c \in Clients
    PROVE  /\ pc[c] \in Places /\ inTrans[c] \in BOOLEAN /\ marked[c] \in BOOLEAN
           /\ newId[c] \in 0..MaxId /\ alloc \in 0..MaxId
           /\ pc' = pc => pc' = [pc EXCEPT ![c] = pc[c]]
           /\ inTrans' = inTrans => inTrans' = [inTrans EXCEPT ![c] = inTrans[c]]
BY DEF TypeOK, Places

LEMMA BeginChange ==
    ASSUME TypeOK, NEW c \in Clients, NEW k \in DriverConns, Begin(c, k)
    PROVE  /\ Change(k, image[Db(k)], writer[Db(k)], FramesBegun(k))
           /\ Turn(c, "idle", TRUE) /\ FramesBegun(k) \in Seq(Frames)
<1>1. FramesBegun(k) \in Seq(Frames)
  BY FrameTyped, PartsTyped DEF FramesBegun
<1>2. undo' = [undo EXCEPT ![k] = FramesBegun(k)]
  BY NoChange DEF Begin, FramesBegun
<1>3. UNCHANGED <<image, writer, pc>> /\ pc[c] = "idle" /\ inTrans' = [inTrans EXCEPT ![c] = TRUE]
  BY DEF Begin, Idle
<1>. QED
  BY <1>1, <1>2, <1>3, NoChange, SessionTyped DEF Change, Turn

LEMMA SavepointChange ==
    ASSUME TypeOK, NEW c \in Clients, NEW k \in DriverConns, NEW s \in Savepoints,
           SetSavepoint(c, k, s)
    PROVE  /\ Change(k, image[Db(k)], writer[Db(k)], Append(undo[k], Frame(k, s)))
           /\ Turn(c, "idle", inTrans[c])
           /\ Append(undo[k], Frame(k, s)) \in Seq(Frames)
<1>1. Append(undo[k], Frame(k, s)) \in Seq(Frames)
  BY FrameTyped, PartsTyped, AppendProperties
<1>2. UNCHANGED <<image, writer, pc, inTrans>> /\ pc[c] = "idle"
      /\ undo' = [undo EXCEPT ![k] = Append(undo[k], Frame(k, s))]
  BY DEF SetSavepoint, Idle, sessionVars
<1>. QED
  BY <1>1, <1>2, NoChange, SessionTyped DEF Change, Turn

LEMMA ReleaseChange ==
    ASSUME TypeOK, NEW c \in Clients, NEW k \in DriverConns, NEW s \in Savepoints,
           ReleaseSavepoint(c, k, s)
    PROVE  \E i \in DOMAIN undo[k] :
              /\ undo[k][i].name = s
              /\ Change(k, image[Db(k)], IF i = 1 THEN Freed(k) ELSE writer[Db(k)],
                        SubSeq(undo[k], 1, i - 1))
              /\ Turn(c, "idle", inTrans[c])
              /\ i - 1 \in 0..Len(undo[k]) /\ SubSeq(undo[k], 1, i - 1) \in Seq(Frames)
<1>1. PICK i \in DOMAIN undo[k] :
         /\ IsInnermost(k, s, i)
         /\ undo' = [undo EXCEPT ![k] = SubSeq(undo[k], 1, i - 1)]
         /\ writer' = IF i = 1 THEN Unlocked(k) ELSE writer
  BY DEF ReleaseSavepoint
<1>2. i - 1 \in 0..Len(undo[k])
  BY PartsTyped
<1>3. SubSeq(undo[k], 1, i - 1) \in Seq(Frames)
  BY <1>2, PartsTyped, CutTyped
<1>4. writer' = [writer EXCEPT ![Db(k)] = IF i = 1 THEN Freed(k) ELSE writer[Db(k)]]
  BY <1>1, EndChange, NoChange
<1>5. UNCHANGED <<image, pc, inTrans>> /\ pc[c] = "idle"
  BY DEF ReleaseSavepoint, Idle, sessionVars
<1>. QED
  BY <1>1, <1>2, <1>3, <1>4, <1>5, NoChange, SessionTyped DEF Change, Turn, IsInnermost

LEMMA CommitChange ==
    ASSUME TypeOK, NEW c \in Clients, NEW k \in DriverConns, Commit(c, k)
    PROVE  Change(k, image[Db(k)], Freed(k), <<>>) /\ Turn(c, "idle", FALSE)
<1>1. UNCHANGED <<image, pc>> /\ pc[c] = "idle" /\ undo' = [undo EXCEPT ![k] = <<>>]
      /\ writer' = Unlocked(k) /\ inTrans' = [inTrans EXCEPT ![c] = FALSE]
  BY DEF Commit, Idle
<1>. QED
  BY <1>1, NoChange, EndChange, SessionTyped DEF Change, Turn

LEMMA RollbackChange ==
    ASSUME TypeOK, NEW c \in Clients, NEW k \in DriverConns,
           NEW then \in {"rolledBack", "chaining"}, Rollback(c, k, then)
    PROVE  /\ Change(k, Back(k, 1), Freed(k), <<>>) /\ Turn(c, then, inTrans[c])
           /\ Back(k, 1) \in Images
<1>1. UNCHANGED inTrans /\ image' = Undone(k, 1) /\ undo' = [undo EXCEPT ![k] = <<>>]
      /\ writer' = Unlocked(k) /\ pc' = [pc EXCEPT ![c] = then] /\ Open(k)
  BY DEF Rollback
<1>2. 1 \in DOMAIN undo[k]
  BY <1>1, PartsTyped
<1>. QED
  BY <1>1, <1>2, EndChange, SessionTyped DEF Change, Turn

LEMMA RollbackToChange ==
    ASSUME TypeOK, NEW c \in Clients, NEW k \in DriverConns, NEW s \in Savepoints,
           RollbackTo(c, k, s)
    PROVE  \E i \in DOMAIN undo[k] :
              /\ Change(k, Back(k, i), writer[Db(k)], SubSeq(undo[k], 1, i))
              /\ Turn(c, "rolledBackTo", inTrans[c])
              /\ Back(k, i) \in Images /\ i \in 1..Len(undo[k])
              /\ SubSeq(undo[k], 1, i) \in Seq(Frames)
<1>1. PICK i \in DOMAIN undo[k] :
         image' = Undone(k, i) /\ undo' = [undo EXCEPT ![k] = SubSeq(undo[k], 1, i)]
  BY DEF RollbackTo
<1>2. i \in 1..Len(undo[k]) /\ i \in 0..Len(undo[k])
  BY PartsTyped
<1>3. SubSeq(undo[k], 1, i) \in Seq(Frames)
  BY <1>2, PartsTyped, CutTyped
<1>4. UNCHANGED <<writer, inTrans>> /\ pc' = [pc EXCEPT ![c] = "rolledBackTo"]
  BY DEF RollbackTo
<1>. QED
  BY <1>1, <1>2, <1>3, <1>4, NoChange, EndChange, SessionTyped DEF Change, Turn

\* What a restore writes, if it has anything to restore.
RestoredImage(c, k) == IF MustRestore(c) THEN Raised(image[Db(k)], alloc) ELSE image[Db(k)]
RestoredLock(c, k) == IF MustRestore(c) THEN TakenBy(k) ELSE writer[Db(k)]
RestoredFrames(c, k) == IF MustRestore(c) THEN FramesTaken(k) ELSE undo[k]

LEMMA RestoreChange ==
    ASSUME TypeOK, NEW c \in Clients, NEW k \in DriverConns, RestoreWrite(c, k)
    PROVE  /\ Change(k, RestoredImage(c, k), RestoredLock(c, k), RestoredFrames(c, k))
           /\ RestoredImage(c, k) \in Images /\ RestoredLock(c, k) \in Holders
           /\ RestoredFrames(c, k) \in Seq(Frames)
<1>1. CASE MustRestore(c)
  <2>1. /\ Raised(image[Db(k)], alloc) \in Images
        /\ [image[Db(k)] EXCEPT !.seq = IF @ < alloc THEN alloc ELSE @]
              = Raised(image[Db(k)], alloc)
    BY PartsTyped, SessionTyped, RaisedTyped
  <2>2. Write(k, Raised(image[Db(k)], alloc))
    BY <1>1, <2>1 DEF RestoreWrite
  <2>. QED
    BY <1>1, <2>1, <2>2, WriteChange DEF RestoredImage, RestoredLock, RestoredFrames
<1>2. CASE ~MustRestore(c)
  BY <1>2, NoChange, PartsTyped
     DEF RestoreWrite, RestoredImage, RestoredLock, RestoredFrames, Change
<1>. QED
  BY <1>1, <1>2


\* The rest of a rollback either restores or meets another writer's lock.
LEMMA FinishRollbackChange ==
    ASSUME TypeOK, NEW c \in Clients, NEW k \in DriverConns, FinishRollback(c, k)
    PROVE  /\ Turn(c, "idle", FALSE)
           /\ \/ /\ MustRestore(c) => CanWrite(k)
                 /\ Change(k, RestoredImage(c, k), RestoredLock(c, k), RestoredFrames(c, k))
                 /\ RestoredImage(c, k) \in Images /\ RestoredLock(c, k) \in Holders
                 /\ RestoredFrames(c, k) \in Seq(Frames)
                 /\ marked' = [marked EXCEPT ![c] = FALSE]
              \/ /\ MustRestore(c) /\ ~CanWrite(k)
                 /\ Change(k, image[Db(k)], writer[Db(k)], undo[k])
                 /\ UNCHANGED marked
<1>1. Turn(c, "idle", FALSE)
  BY DEF FinishRollback, Turn
<1>2. CASE (MustRestore(c) => CanWrite(k)) /\ RestoreWrite(c, k)
           /\ marked' = [marked EXCEPT ![c] = FALSE]
  BY <1>1, <1>2, RestoreChange
<1>3. CASE MustRestore(c) /\ ~CanWrite(k) /\ UNCHANGED <<image, writer, undo, marked>>
  BY <1>1, <1>3, NoChange DEF Change
<1>. QED
  BY <1>2, <1>3 DEF FinishRollback

LEMMA FinishChainChange ==
    ASSUME TypeOK, NEW c \in Clients, NEW k \in DriverConns, FinishChain(c, k)
    PROVE  \/ /\ MustRestore(c) => CanWrite(k)
              /\ Change(k, RestoredImage(c, k), writer[Db(k)], <<Frame(k, Begun)>>)
              /\ RestoredImage(c, k) \in Images /\ <<Frame(k, Begun)>> \in Seq(Frames)
              /\ Turn(c, "idle", TRUE) /\ marked' = [marked EXCEPT ![c] = FALSE]
           \/ /\ MustRestore(c) /\ ~CanWrite(k)
              /\ Change(k, image[Db(k)], writer[Db(k)], undo[k])
              /\ Turn(c, "idle", FALSE) /\ UNCHANGED marked
<1>1. pc' = [pc EXCEPT ![c] = "idle"] /\ UNCHANGED writer
  BY DEF FinishChain
<1>2. CASE /\ MustRestore(c) => CanWrite(k)
           /\ image' = IF MustRestore(c) /\ image[Db(k)].seq < alloc
                       THEN [image EXCEPT ![Db(k)].seq = alloc] ELSE image
           /\ marked' = [marked EXCEPT ![c] = FALSE]
           /\ inTrans' = [inTrans EXCEPT ![c] = TRUE]
           /\ undo' = [undo EXCEPT ![k] = <<Frame(k, Begun)>>]
  <2>1. PICK img \in Images, n \in 0..MaxId : img = image[Db(k)] /\ n = alloc
    BY PartsTyped, SessionTyped
  <2>2. RestoredImage(c, k) \in Images
    BY PartsTyped, SessionTyped, RaisedTyped DEF RestoredImage
  <2>3. <<Frame(k, Begun)>> \in Seq(Frames)
    BY FrameTyped
  <2>4. image' = [image EXCEPT ![Db(k)] = RestoredImage(c, k)]
    <3>1. CASE MustRestore(c) /\ img.seq < n
      <4>1. [img EXCEPT !.seq = n] = Raised(img, n)
        BY <3>1 DEF Raised, Images
      <4>2. image' = [image EXCEPT ![Db(k)] = [img EXCEPT !.seq = n]]
        BY <1>2, <2>1, <3>1
      <4>. QED
        BY <2>1, <3>1, <4>1, <4>2 DEF RestoredImage
    <3>2. CASE ~(MustRestore(c) /\ img.seq < n)
      <4>1. ~(img.seq < n) => Raised(img, n) = img
        BY DEF Raised, Images
      <4>2. RestoredImage(c, k) = image[Db(k)]
        BY <2>1, <3>2, <4>1 DEF RestoredImage
      <4>. QED
        BY <1>2, <2>1, <3>2, <4>2, NoChange
    <3>. QED
      BY <3>1, <3>2
  <2>. QED
    BY <1>1, <1>2, <2>2, <2>3, <2>4, NoChange DEF Change, Turn
<1>3. CASE /\ MustRestore(c) /\ ~CanWrite(k)
           /\ inTrans' = [inTrans EXCEPT ![c] = FALSE]
           /\ UNCHANGED <<image, undo, marked>>
  BY <1>1, <1>3, NoChange DEF Change, Turn
<1>. QED
  BY <1>2, <1>3 DEF FinishChain

LEMMA FinishRollbackToChange ==
    ASSUME TypeOK, NEW c \in Clients, NEW k \in DriverConns, FinishRollbackTo(c, k)
    PROVE  /\ Turn(c, "idle", inTrans[c])
           /\ \/ /\ CanWrite(k)
                 /\ Change(k, RestoredImage(c, k), RestoredLock(c, k), RestoredFrames(c, k))
                 /\ RestoredImage(c, k) \in Images /\ RestoredLock(c, k) \in Holders
                 /\ RestoredFrames(c, k) \in Seq(Frames)
              \/ ~CanWrite(k) /\ Change(k, image[Db(k)], writer[Db(k)], undo[k])
<1>1. Turn(c, "idle", inTrans[c])
  BY SessionTyped DEF FinishRollbackTo, Turn
<1>2. CASE CanWrite(k)
  BY <1>1, <1>2, RestoreChange DEF FinishRollbackTo
<1>3. CASE ~CanWrite(k)
  BY <1>1, <1>3, NoChange DEF FinishRollbackTo, Change
<1>. QED
  BY <1>2, <1>3

\* The image with the next value's row.
NextValue(k) == image[Db(k)].seq + 1
Grown(k) == [rows |-> image[Db(k)].rows \cup {NextValue(k)}, seq |-> NextValue(k)]

LEMMA InsertChange ==
    ASSUME TypeOK, NEW c \in Clients, NEW k \in DriverConns, InsertExec(c, k)
    PROVE  /\ Change(k, Grown(k), TakenBy(k), FramesTaken(k)) /\ Turn(c, "inserted", inTrans[c])
           /\ Grown(k) \in Images /\ TakenBy(k) \in Holders /\ FramesTaken(k) \in Seq(Frames)
           /\ NextValue(k) \in Ids /\ newId' = [newId EXCEPT ![c] = NextValue(k)]
           /\ CanWrite(k) /\ Below(image[Db(k)], Grown(k))
<1>1. /\ NextValue(k) \in Ids /\ Write(k, Grown(k)) /\ CanWrite(k)
      /\ newId' = [newId EXCEPT ![c] = NextValue(k)]
      /\ UNCHANGED inTrans /\ pc' = [pc EXCEPT ![c] = "inserted"]
  BY DEF InsertExec, NextValue, Grown
<1>2. Ids \subseteq 0..MaxId
  BY SeededTyped DEF Ids
<1>3. Grown(k) \in Images
  BY <1>1, <1>2, PartsTyped DEF Grown, Images
<1>4. Below(image[Db(k)], Grown(k))
  BY PartsTyped, SeededTyped DEF Below, Grown, NextValue, Images
<1>. QED
  BY <1>1, <1>3, <1>4, WriteChange, SessionTyped DEF Turn

LEMMA RecordChange ==
    ASSUME TypeOK, NEW c \in Clients, NEW k \in DriverConns, RecordAllocation(c, k)
    PROVE  /\ Change(k, image[Db(k)], writer[Db(k)], undo[k])
           /\ Turn(c, "idle", inTrans[c])
BY NoChange, SessionTyped DEF RecordAllocation, Change, Turn

LEMMA InitTypeOK == Init => TypeOK
<1>. SUFFICES ASSUME Init PROVE TypeOK
  OBVIOUS
<1>1. Seeded \in Images /\ 0 \in 0..MaxId
  BY SeededTyped
<1>2. LeaseModel!LeaseTypeOK
  BY DEF Init, LeaseModel!LeaseInit, LeaseModel!LeaseTypeOK
<1>3. image \in [Dbs -> Images] /\ writer \in [Dbs -> DriverConns \cup {NoConn}]
      /\ undo \in [DriverConns -> Seq(Frames)]
  BY <1>1 DEF Init
<1>4. newId \in [Clients -> 0..MaxId] /\ alloc \in 0..MaxId
  BY <1>1 DEF Init
<1>. QED
  BY <1>2, <1>3, <1>4 DEF Init, TypeOK


\* A command of a session that has a driver connection.
Command(c, k) ==
    \/ Begin(c, k) \/ Commit(c, k)
    \/ Rollback(c, k, "rolledBack") \/ Rollback(c, k, "chaining")
    \/ \E s \in Savepoints :
          SetSavepoint(c, k, s) \/ ReleaseSavepoint(c, k, s) \/ RollbackTo(c, k, s)
    \/ FinishRollback(c, k) \/ FinishChain(c, k) \/ FinishRollbackTo(c, k)
    \/ InsertExec(c, k) \/ RecordAllocation(c, k)

\* An INSERT under way has a value to report.
TypeInv == TypeOK /\ \A c \in Clients : pc[c] = "inserted" => newId[c] \in Ids

\* What a command does besides its change and its session's turn.
LEMMA RestTyped ==
    ASSUME TypeInv, NEW c \in Clients, NEW k \in DriverConns, Command(c, k)
    PROVE  /\ UNCHANGED lease /\ Uses(c, k)
           /\ marked' \in [Clients -> BOOLEAN] /\ alloc' \in 0..MaxId
           /\ newId' \in [Clients -> 0..MaxId] /\ handed' \in [Dbs -> SUBSET Ids]
           /\ durable' \in [Dbs -> SUBSET Ids] /\ raced' \in BOOLEAN
<1>. USE DEF TypeOK, TypeInv
<1>1. CASE Begin(c, k) \/ Commit(c, k)
           \/ Rollback(c, k, "rolledBack") \/ Rollback(c, k, "chaining")
  BY <1>1 DEF Begin, Commit, Rollback, history
<1>2. ASSUME NEW s \in Savepoints,
             SetSavepoint(c, k, s) \/ ReleaseSavepoint(c, k, s) \/ RollbackTo(c, k, s)
      PROVE  /\ UNCHANGED <<lease, marked, alloc, newId, handed, durable, raced>>
             /\ Uses(c, k)
  BY <1>2 DEF SetSavepoint, ReleaseSavepoint, RollbackTo, sessionVars, history
<1>3. CASE FinishRollback(c, k) \/ FinishChain(c, k) \/ FinishRollbackTo(c, k)
  <2>1. marked' = marked \/ marked' = [marked EXCEPT ![c] = FALSE]
    BY <1>3 DEF FinishRollback, FinishChain, FinishRollbackTo
  <2>2. UNCHANGED <<lease, alloc, newId, handed, durable, raced>> /\ Uses(c, k)
    BY <1>3 DEF FinishRollback, FinishChain, FinishRollbackTo, history
  <2>. QED
    BY <2>1, <2>2
<1>4. CASE InsertExec(c, k)
  <2>1. UNCHANGED <<lease, marked, alloc, handed, durable>> /\ Uses(c, k)
    BY <1>4 DEF InsertExec
  <2>2. newId' \in [Clients -> 0..MaxId]
    <3>1. PICK id \in 0..MaxId : newId' = [newId EXCEPT ![c] = id]
      <4>1. NextValue(k) \in Ids /\ newId' = [newId EXCEPT ![c] = NextValue(k)]
        BY <1>4, InsertChange
      <4>2. Ids \subseteq 0..MaxId
        BY SeededTyped DEF Ids
      <4>. QED
        BY <4>1, <4>2
    <3>. QED
      BY <3>1
  <2>3. raced' \in BOOLEAN
    BY <1>4, Zenon DEF InsertExec
  <2>. QED
    BY <2>1, <2>2, <2>3
<1>5. CASE RecordAllocation(c, k)
  <2>1. UNCHANGED <<lease, raced>> /\ Uses(c, k) /\ newId' = [newId EXCEPT ![c] = 0]
        /\ pc[c] = "inserted"
    BY <1>5 DEF RecordAllocation
  <2>2. newId' \in [Clients -> 0..MaxId] /\ MaxId \in Nat
    BY <2>1, SeededTyped
  <2>3. alloc' \in {alloc, newId[c]}
    BY <1>5 DEF RecordAllocation
  <2>4. marked' \in [Clients -> BOOLEAN]
    <3>1. PICK b \in BOOLEAN : b = (marked[c] \/ inTrans[c])
      OBVIOUS
    <3>2. marked' = [marked EXCEPT ![c] = b] \/ marked' = marked
      BY <1>5, <3>1 DEF RecordAllocation
    <3>. QED
      BY <3>2
  <2>5. handed' \in [Dbs -> SUBSET Ids] /\ durable' \in [Dbs -> SUBSET Ids]
    <3>1. PICK id \in Ids : id = newId[c]
      BY <2>1
    <3>2. handed' = [handed EXCEPT ![Db(k)] = handed[Db(k)] \cup {id}]
          /\ durable' = [durable EXCEPT ![Db(k)] = IF inTrans[c] THEN durable[Db(k)]
                                                  ELSE durable[Db(k)] \cup {id}]
      BY <1>5, <3>1 DEF RecordAllocation
    <3>. QED
      BY <3>2, PartsTyped
  <2>. QED
    BY <2>1, <2>2, <2>3, <2>4, <2>5
<1>. QED
  BY <1>1, <1>2, <1>3, <1>4, <1>5 DEF Command


LEMMA CommandTypeOK ==
    ASSUME TypeInv, NEW c \in Clients, NEW k \in DriverConns, Command(c, k) PROVE TypeOK'
<1>. USE DEF TypeInv
<1>1. /\ UNCHANGED lease /\ marked' \in [Clients -> BOOLEAN] /\ alloc' \in 0..MaxId
      /\ newId' \in [Clients -> 0..MaxId] /\ handed' \in [Dbs -> SUBSET Ids]
      /\ durable' \in [Dbs -> SUBSET Ids] /\ raced' \in BOOLEAN
  BY RestTyped
<1>2. /\ image[Db(k)] \in Images /\ writer[Db(k)] \in Holders /\ undo[k] \in Seq(Frames)
      /\ Freed(k) \in Holders /\ <<>> \in Seq(Frames) /\ inTrans[c] \in BOOLEAN
      /\ {"idle", "inserted", "rolledBack", "chaining", "rolledBackTo"} \subseteq Places
  BY PartsTyped, EndChange, SessionTyped, EmptySeq DEF Places
<1>3. CASE Begin(c, k)
  BY <1>1, <1>2, <1>3, BeginChange, StepTyped
<1>4. CASE Commit(c, k)
  BY <1>1, <1>2, <1>4, CommitChange, StepTyped
<1>5. ASSUME NEW then \in {"rolledBack", "chaining"}, Rollback(c, k, then) PROVE TypeOK'
  <2>1. then \in Places
    BY DEF Places
  <2>. QED
    BY <1>1, <1>2, <1>5, <2>1, RollbackChange, StepTyped
<1>6. ASSUME NEW s \in Savepoints, SetSavepoint(c, k, s) PROVE TypeOK'
  <2>1. PICK fs \in Seq(Frames) :
          Change(k, image[Db(k)], writer[Db(k)], fs) /\ Turn(c, "idle", inTrans[c])
    BY <1>6, SavepointChange
  <2>. QED
    BY <1>1, <1>2, <2>1, StepTyped
<1>7. ASSUME NEW s \in Savepoints, ReleaseSavepoint(c, k, s) PROVE TypeOK'
  <2>1. PICK i \in DOMAIN undo[k], w \in Holders :
           /\ w = (IF i = 1 THEN Freed(k) ELSE writer[Db(k)])
           /\ Change(k, image[Db(k)], w, SubSeq(undo[k], 1, i - 1))
           /\ Turn(c, "idle", inTrans[c]) /\ SubSeq(undo[k], 1, i - 1) \in Seq(Frames)
    BY <1>2, <1>7, ReleaseChange
  <2>. QED
    BY <1>1, <1>2, <2>1, StepTyped
<1>8. ASSUME NEW s \in Savepoints, RollbackTo(c, k, s) PROVE TypeOK'
  <2>1. PICK i \in DOMAIN undo[k] :
           /\ Change(k, Back(k, i), writer[Db(k)], SubSeq(undo[k], 1, i))
           /\ Turn(c, "rolledBackTo", inTrans[c])
           /\ Back(k, i) \in Images /\ SubSeq(undo[k], 1, i) \in Seq(Frames)
    BY <1>8, RollbackToChange
  <2>. QED
    BY <1>1, <1>2, <2>1, StepTyped
<1>9. CASE FinishRollback(c, k)
  BY <1>1, <1>2, <1>9, FinishRollbackChange, StepTyped
<1>10. CASE FinishChain(c, k)
  BY <1>1, <1>2, <1>10, FinishChainChange, StepTyped
<1>11. CASE FinishRollbackTo(c, k)
  BY <1>1, <1>2, <1>11, FinishRollbackToChange, StepTyped
<1>12. CASE InsertExec(c, k)
  BY <1>1, <1>2, <1>12, InsertChange, StepTyped
<1>13. CASE RecordAllocation(c, k)
  BY <1>1, <1>2, <1>13, RecordChange, StepTyped
<1>. QED
  BY <1>3, <1>4, <1>5, <1>6, <1>7, <1>8, <1>9, <1>10, <1>11, <1>12, <1>13 DEF Command

\* A command moves only its own session, and only an INSERT leaves a value
\* to report.
LEMMA CommandMoves ==
    ASSUME TypeInv, NEW c \in Clients, NEW k \in DriverConns, Command(c, k)
    PROVE  /\ \A b \in Clients \ {c} : /\ pc'[b] = pc[b] /\ inTrans'[b] = inTrans[b]
                                       /\ newId'[b] = newId[b] /\ marked'[b] = marked[b]
           /\ pc'[c] = "inserted" => InsertExec(c, k)
<1>. USE DEF TypeInv, TypeOK
<1>1. CASE Begin(c, k) \/ Commit(c, k)
           \/ Rollback(c, k, "rolledBack") \/ Rollback(c, k, "chaining")
  BY <1>1 DEF Begin, Commit, Rollback, Idle
<1>2. ASSUME NEW s \in Savepoints,
             SetSavepoint(c, k, s) \/ ReleaseSavepoint(c, k, s) \/ RollbackTo(c, k, s)
      PROVE  /\ \A b \in Clients \ {c} : /\ pc'[b] = pc[b] /\ inTrans'[b] = inTrans[b]
                                         /\ newId'[b] = newId[b] /\ marked'[b] = marked[b]
             /\ pc'[c] # "inserted"
  BY <1>2 DEF SetSavepoint, ReleaseSavepoint, RollbackTo, sessionVars, Idle
<1>3. CASE FinishRollback(c, k) \/ FinishChain(c, k) \/ FinishRollbackTo(c, k)
  BY <1>3 DEF FinishRollback, FinishChain, FinishRollbackTo
<1>4. CASE InsertExec(c, k)
  BY <1>4 DEF InsertExec
<1>5. CASE RecordAllocation(c, k)
  BY <1>5 DEF RecordAllocation
<1>. QED
  BY <1>1, <1>2, <1>3, <1>4, <1>5 DEF Command

LEMMA CommandTypeInv ==
    ASSUME TypeInv, NEW c \in Clients, NEW k \in DriverConns, Command(c, k) PROVE TypeInv'
<1>1. TypeOK'
  BY CommandTypeOK
<1>2. ASSUME NEW b \in Clients, pc'[b] = "inserted" PROVE newId'[b] \in Ids
  <2>1. CASE b = c
    <3>1. InsertExec(c, k)
      BY <1>2, <2>1, CommandMoves
    <3>2. NextValue(k) \in Ids /\ newId' = [newId EXCEPT ![c] = NextValue(k)]
      BY <3>1, InsertChange DEF TypeInv
    <3>. QED
      BY <2>1, <3>2 DEF TypeInv, TypeOK
  <2>2. CASE b # c
    BY <1>2, <2>2, CommandMoves DEF TypeInv
  <2>. QED
    BY <2>1, <2>2
<1>. QED
  BY <1>1, <1>2 DEF TypeInv

LEMMA ConnectTypeInv ==
    ASSUME TypeInv, NEW c \in Clients, NEW k \in DriverConns,
           Connect(c, k) \/ Disconnect(c, k)
    PROVE  TypeInv'
<1>. USE DEF TypeInv, TypeOK
<1>1. LeaseModel!LeaseTypeOK'
  BY DEF Connect, Disconnect, LeaseModel!Grant, LeaseModel!GiveBack, LeaseModel!LeaseTypeOK
<1>2. inTrans' \in [Clients -> BOOLEAN] /\ marked' \in [Clients -> BOOLEAN]
      /\ UNCHANGED <<writer, undo, alloc, pc, newId, raced>>
  BY DEF Connect, Disconnect, serverVars, sessionVars, history
<1>3. /\ image' \in [Dbs -> Images] /\ handed' \in [Dbs -> SUBSET Ids]
      /\ durable' \in [Dbs -> SUBSET Ids]
  <2>1. CASE UNCHANGED <<image, handed, durable>>
    BY <2>1
  <2>2. CASE /\ image' = [image EXCEPT ![k] = Seeded]
             /\ handed' = [handed EXCEPT ![k] = {}] /\ durable' = [durable EXCEPT ![k] = {}]
    BY <2>2, SeededTyped
  <2>. QED
    BY <2>1, <2>2 DEF Connect, Disconnect, serverVars, history
<1>. QED
  BY <1>1, <1>2, <1>3

LEMMA TypeInvStep == TypeInv /\ [Next]_vars => TypeInv'
<1>. SUFFICES ASSUME TypeInv, [Next]_vars PROVE TypeInv'
  OBVIOUS
<1>1. CASE UNCHANGED vars
  BY <1>1 DEF vars, serverVars, sessionVars, history, TypeInv, TypeOK,
              LeaseModel!LeaseTypeOK
<1>2. ASSUME NEW c \in Clients, NEW k \in DriverConns,
             Connect(c, k) \/ Disconnect(c, k) \/ Command(c, k)
      PROVE  TypeInv'
  BY <1>2, ConnectTypeInv, CommandTypeInv
<1>3. Next => \E c \in Clients, k \in DriverConns :
                 Connect(c, k) \/ Disconnect(c, k) \/ Command(c, k)
  BY Zenon DEF Next, Command
<1>. QED
  BY <1>1, <1>2, <1>3

LEMMA TypeInvariance == Spec => []TypeInv
<1>1. Init => TypeInv
  BY InitTypeOK DEF TypeInv, Init
<1>. QED
  BY <1>1, TypeInvStep, PTL DEF Spec

\* Every variable keeps its type, whatever commands the clients send and
\* however they leave: AUTO_INCREMENT values in rows, frames and the allocation
\* map are ones that SQLite gave out.
THEOREM StateHasItsType == Spec => []TypeOK
<1>1. TypeInv => TypeOK
  BY DEF TypeInv
<1>. QED
  BY <1>1, TypeInvariance, PTL

-----------------------------------------------------------------------------
(* Clients that end their transactions and open them with BEGIN.           *)

Polite == Habits = {}

\* A driver connection serves one session, and is in a transaction only while
\* it does.
Exclusive ==
    \A b, c \in Clients, i, k \in DriverConns :
        Uses(b, i) /\ Uses(c, k) => (b = c <=> i = k)

OpenInUse ==
    /\ \A k \in DriverConns : Open(k) => \E c \in Clients : Uses(c, k)
    /\ \A c \in Clients : ~Idle(c) => \E k \in DriverConns : Uses(c, k)

\* The session's flag says whether it is in a transaction, except between a
\* ROLLBACK and its end.
InStep(place, flag, open) ==
    IF place \in {"rolledBack", "chaining"} THEN ~open ELSE flag <=> open

Flagged ==
    \A c \in Clients, k \in DriverConns : Uses(c, k) => InStep(pc[c], inTrans[c], Open(k))

BegunFirst == \A k \in DriverConns : Open(k) => undo[k][1].name = Begun

PairInv == Exclusive /\ OpenInUse /\ Flagged /\ BegunFirst

\* Frames hold less the further out they are, and none holds more than img.
Chain(fs, img) ==
    \A j \in DOMAIN fs : /\ Below(fs[j].image, img)
                         /\ \A i \in 1..j : Below(fs[i].image, fs[j].image)

\* The write lock of a database is held by a transaction of its own.
WritersOpen ==
    \A d \in Dbs : writer[d] # NoConn =>
        writer[d] \in DriverConns /\ Open(writer[d]) /\ Db(writer[d]) = d

FramesGrow ==
    \A k \in DriverConns : writer[Db(k)] = k => Chain(undo[k], image[Db(k)])

UndoInv == WritersOpen /\ FramesGrow

\* What a command may make of its database and its transaction: the lock stays
\* with another session's transaction, whose rows it does not touch, or what
\* was committed stays so.
Legal(k, img, w, fs) ==
    LET d == Db(k) IN
    /\ fs # <<>> => fs[1].name = Begun
    /\ \/ w \notin {NoConn, k} /\ w = writer[d] /\ img = image[d]
       \/ w = NoConn /\ writer[d] \in {NoConn, k} /\ Below(Committed(d), img)
       \/ /\ w = k /\ writer[d] \in {NoConn, k}
          /\ fs # <<>> /\ Chain(fs, img) /\ Below(Committed(d), fs[1].image)

LEMMA BelowOrder ==
    ASSUME NEW a \in Images, NEW b \in Images, NEW e \in Images
    PROVE  Below(a, a) /\ (Below(a, b) /\ Below(b, e) => Below(a, e))
BY SeededTyped DEF Below, Images

\* What is committed while k has the lock, or nobody has.
LEMMA CommittedHere ==
    ASSUME TypeOK, UndoInv, NEW k \in DriverConns
    PROVE  /\ writer[Db(k)] = NoConn => Committed(Db(k)) = image[Db(k)]
           /\ writer[Db(k)] = k => /\ Open(k) /\ 1 \in DOMAIN undo[k]
                                   /\ Committed(Db(k)) = undo[k][1].image
                                   /\ Chain(undo[k], image[Db(k)])
           /\ k # NoConn
<1>1. k # NoConn
  BY SessionAssumption
<1>2. writer[Db(k)] = k => Open(k)
  BY <1>1, PartsTyped DEF UndoInv, WritersOpen
<1>. QED
  BY <1>1, <1>2, PartsTyped DEF Committed, UndoInv, FramesGrow

LEMMA CommittedTyped ==
    ASSUME TypeOK, UndoInv, NEW d \in Dbs PROVE Committed(d) \in Images
<1>1. CASE writer[d] = NoConn
  BY <1>1 DEF Committed, TypeOK
<1>2. CASE writer[d] # NoConn
  <2>1. writer[d] \in DriverConns /\ Open(writer[d])
    BY <1>2 DEF UndoInv, WritersOpen
  <2>. QED
    BY <1>2, <2>1, PartsTyped DEF Committed
<1>. QED
  BY <1>1, <1>2

\* Leaving the lock and the image as they are is legal.
LEMMA SameLegal ==
    ASSUME TypeOK, UndoInv, NEW k \in DriverConns
    PROVE  \A fs : /\ fs # <<>> => fs[1].name = Begun
                   /\ writer[Db(k)] = k => fs = undo[k]
                   => Legal(k, image[Db(k)], writer[Db(k)], fs)
<1>. SUFFICES ASSUME NEW fs, fs # <<>> => fs[1].name = Begun,
                     writer[Db(k)] = k => fs = undo[k]
              PROVE  Legal(k, image[Db(k)], writer[Db(k)], fs)
  OBVIOUS
<1>1. Below(image[Db(k)], image[Db(k)])
  BY PartsTyped, BelowOrder
<1>2. CASE writer[Db(k)] = NoConn
  BY <1>1, <1>2, CommittedHere DEF Legal
<1>3. CASE writer[Db(k)] = k
  <2>1. Below(undo[k][1].image, undo[k][1].image)
    BY <1>3, CommittedHere, PartsTyped, BelowOrder
  <2>2. Chain(undo[k], image[Db(k)]) /\ undo[k] # <<>>
        /\ Committed(Db(k)) = undo[k][1].image
    BY <1>3, CommittedHere DEF Open
  <2>. QED
    BY <1>3, <2>1, <2>2 DEF Legal
<1>4. CASE writer[Db(k)] \notin {NoConn, k}
  BY <1>4 DEF Legal
<1>. QED
  BY <1>2, <1>3, <1>4

\* A write that adds to the image is legal.
LEMMA WriteLegal ==
    ASSUME TypeOK, UndoInv, BegunFirst, NEW k \in DriverConns, NEW img \in Images,
           Below(image[Db(k)], img), CanWrite(k)
    PROVE  /\ Legal(k, img, TakenBy(k), FramesTaken(k))
           /\ FramesTaken(k) # <<>> <=> Open(k)
           /\ TakenBy(k) = IF Open(k) THEN k ELSE NoConn
<1>1. CASE Takes(k)
  <2>. DEFINE fs == Filled(undo[k], image[Db(k)])
  <2>1. /\ fs \in Seq(Frames) /\ DOMAIN fs = DOMAIN undo[k]
        /\ \A i \in DOMAIN undo[k] : fs[i].name = undo[k][i].name
                                     /\ fs[i].image = image[Db(k)]
    BY PartsTyped, FilledTyped
  <2>2. 1 \in DOMAIN undo[k] /\ DOMAIN undo[k] = 1..Len(undo[k]) /\ Len(undo[k]) \in Nat
    BY <1>1, PartsTyped DEF Takes
  <2>3. fs # <<>> /\ fs[1].name = Begun /\ fs[1].image = image[Db(k)]
    <3>1. fs # <<>>
      BY <2>1, <2>2, SequenceOf
    <3>. QED
      BY <1>1, <2>1, <2>2, <3>1 DEF Takes, BegunFirst
  <2>4. Below(image[Db(k)], image[Db(k)])
    BY PartsTyped, BelowOrder
  <2>5. Chain(fs, img)
    <3>. HIDE DEF fs
    <3>1. \A j \in DOMAIN undo[k] : \A i \in 1..j : i \in DOMAIN undo[k]
      BY <2>2
    <3>. QED
      BY <2>1, <2>4, <3>1 DEF Chain
  <2>6. FramesTaken(k) = fs /\ TakenBy(k) = k /\ writer[Db(k)] = NoConn /\ Open(k)
    BY <1>1 DEF FramesTaken, TakenBy, Takes
  <2>7. Committed(Db(k)) = image[Db(k)]
    BY <2>6, CommittedHere
  <2>. HIDE DEF fs
  <2>. QED
    BY <2>3, <2>4, <2>5, <2>6, <2>7 DEF Legal
<1>2. CASE ~Open(k)
  <2>1. writer[Db(k)] = NoConn
    BY <1>2, CommittedHere DEF CanWrite
  <2>2. TakenBy(k) = NoConn /\ FramesTaken(k) = <<>>
    BY <1>2, <2>1 DEF TakenBy, FramesTaken, Takes, Open
  <2>. QED
    BY <1>2, <2>1, <2>2, CommittedHere DEF Legal
<1>3. CASE Open(k) /\ writer[Db(k)] = k
  <2>1. TakenBy(k) = k /\ FramesTaken(k) = undo[k]
    BY <1>3, CommittedHere DEF TakenBy, FramesTaken, Takes
  <2>2. Committed(Db(k)) = undo[k][1].image /\ Chain(undo[k], image[Db(k)])
        /\ undo[k][1].image \in Images
    BY <1>3, CommittedHere, PartsTyped
  <2>3. Chain(undo[k], img)
    BY <2>2, PartsTyped, BelowOrder DEF Chain
  <2>4. Below(undo[k][1].image, undo[k][1].image)
    BY <2>2, BelowOrder
  <2>. QED
    BY <1>3, <2>1, <2>2, <2>3, <2>4 DEF Legal, BegunFirst, Open
<1>. QED
  BY <1>1, <1>2, <1>3 DEF Takes, CanWrite

\* The first frames of a transaction that has the lock.
LEMMA CutLegal ==
    ASSUME TypeOK, UndoInv, BegunFirst, NEW k \in DriverConns,
           NEW n \in 1..Len(undo[k]), NEW img \in Images,
           writer[Db(k)] = k => img = image[Db(k)] \/ img = undo[k][n].image,
           writer[Db(k)] # k => img = image[Db(k)]
    PROVE  /\ Legal(k, img, writer[Db(k)], SubSeq(undo[k], 1, n))
           /\ SubSeq(undo[k], 1, n) # <<>> /\ Open(k)
<1>. DEFINE fs == SubSeq(undo[k], 1, n)
<1>1. n \in 0..Len(undo[k]) /\ Len(undo[k]) \in Nat /\ n \in DOMAIN undo[k]
      /\ 1 \in DOMAIN undo[k] /\ Open(k)
  BY PartsTyped
<1>2. /\ fs \in Seq(Frames) /\ DOMAIN fs = 1..n /\ \A i \in 1..n : fs[i] = undo[k][i]
  BY <1>1, CutTyped, PartsTyped
<1>3. 1 \in 1..n /\ 1..n \subseteq DOMAIN undo[k]
  BY <1>1, PartsTyped
<1>. HIDE DEF fs
<1>4. fs # <<>> /\ fs[1] = undo[k][1] /\ fs[1].name = Begun
  BY <1>1, <1>2, <1>3, SequenceOf DEF BegunFirst
<1>5. CASE writer[Db(k)] = k
  <2>1. Chain(undo[k], image[Db(k)]) /\ Committed(Db(k)) = undo[k][1].image
    BY <1>5, CommittedHere
  <2>2. ASSUME NEW j \in 1..n
        PROVE  Below(fs[j].image, img) /\ \A i \in 1..j : Below(fs[i].image, fs[j].image)
    <3>1. j \in DOMAIN undo[k] /\ \A i \in 1..j : i \in 1..n
      BY <1>3
    <3>2. Below(undo[k][j].image, image[Db(k)])
          /\ \A i \in 1..j : Below(undo[k][i].image, undo[k][j].image)
      BY <2>1, <3>1 DEF Chain
    <3>3. Below(undo[k][j].image, undo[k][n].image)
      BY <1>1, <2>1 DEF Chain
    <3>. QED
      BY <1>2, <1>5, <3>1, <3>2, <3>3
  <2>3. Chain(fs, img)
    BY <1>2, <2>2 DEF Chain
  <2>4. Below(undo[k][1].image, undo[k][1].image)
    BY <1>1, PartsTyped, BelowOrder
  <2>. QED
    BY <1>1, <1>4, <1>5, <2>1, <2>3, <2>4 DEF Legal, fs
<1>6. CASE writer[Db(k)] # k
  <2>1. Legal(k, image[Db(k)], writer[Db(k)], fs)
    BY <1>4, <1>6, SameLegal
  <2>. QED
    BY <1>1, <1>4, <1>6, <2>1 DEF fs
<1>. QED
  BY <1>5, <1>6

\* A frame more, at its end.
LEMMA AppendLegal ==
    ASSUME TypeOK, UndoInv, BegunFirst, NEW k \in DriverConns, NEW s \in Savepoints, Open(k)
    PROVE  /\ Legal(k, image[Db(k)], writer[Db(k)], Append(undo[k], Frame(k, s)))
           /\ Append(undo[k], Frame(k, s)) # <<>>
<1>. DEFINE fs == Append(undo[k], Frame(k, s))
            n == Len(undo[k])
<1>1. Frame(k, s) \in Frames /\ (writer[Db(k)] = k => Frame(k, s).image = image[Db(k)])
  BY FrameTyped
<1>2. /\ fs \in Seq(Frames) /\ Len(fs) = n + 1 /\ n \in Nat /\ fs[n + 1] = Frame(k, s)
      /\ \A i \in 1..n : fs[i] = undo[k][i]
  BY <1>1, PartsTyped, AppendProperties
<1>3. DOMAIN fs = 1..(n + 1) /\ 1 \in 1..n /\ DOMAIN undo[k] = 1..n
  BY <1>2, PartsTyped, SequenceOf
<1>. HIDE DEF fs, n
<1>4. fs # <<>> /\ fs[1] = undo[k][1] /\ fs[1].name = Begun
  BY <1>2, <1>3, SequenceOf DEF BegunFirst
<1>5. CASE writer[Db(k)] = k
  <2>1. Chain(undo[k], image[Db(k)]) /\ Committed(Db(k)) = undo[k][1].image
    BY <1>5, CommittedHere
  <2>2. Below(image[Db(k)], image[Db(k)]) /\ Below(undo[k][1].image, undo[k][1].image)
    BY <1>3, PartsTyped, BelowOrder
  <2>3. ASSUME NEW j \in 1..(n + 1)
        PROVE  Below(fs[j].image, image[Db(k)])
               /\ \A i \in 1..j : Below(fs[i].image, fs[j].image)
    <3>1. CASE j = n + 1
      <4>1. \A i \in 1..j : i \in 1..n \/ i = n + 1
        BY <1>2, <3>1
      <4>. QED
        BY <1>1, <1>2, <1>3, <1>5, <2>1, <2>2, <3>1, <4>1 DEF Chain
    <3>2. CASE j \in 1..n
      <4>1. \A i \in 1..j : i \in 1..n
        BY <1>2, <3>2
      <4>. QED
        BY <1>2, <1>3, <2>1, <3>2, <4>1 DEF Chain
    <3>. QED
      BY <1>2, <3>1, <3>2
  <2>4. Chain(fs, image[Db(k)])
    BY <1>3, <2>3 DEF Chain
  <2>. QED
    BY <1>4, <1>5, <2>1, <2>2, <2>4 DEF Legal, fs
<1>6. CASE writer[Db(k)] # k
  <2>1. Legal(k, image[Db(k)], writer[Db(k)], fs)
    BY <1>4, <1>6, SameLegal
  <2>. QED
    BY <1>4, <2>1 DEF fs
<1>. QED
  BY <1>5, <1>6

\* The end of a transaction, which takes img: what was committed, or more.
LEMMA EndLegal ==
    ASSUME TypeOK, UndoInv, NEW k \in DriverConns, NEW img \in Images,
           writer[Db(k)] = k => Below(undo[k][1].image, img),
           writer[Db(k)] # k => img = image[Db(k)]
    PROVE  Legal(k, img, Freed(k), <<>>)
<1>1. CASE writer[Db(k)] = k
  BY <1>1, CommittedHere DEF Legal, Freed
<1>2. CASE writer[Db(k)] # k
  <2>1. Legal(k, image[Db(k)], writer[Db(k)], <<>>)
    BY <1>2, SameLegal
  <2>. QED
    BY <1>2, <2>1 DEF Freed
<1>. QED
  BY <1>1, <1>2

\* The command is a legal change that keeps its session in step.
Lawful(c, k) ==
    \E img \in Images, w \in Holders, fs \in Seq(Frames), place \in Places, flag \in BOOLEAN :
        /\ Change(k, img, w, fs) /\ Legal(k, img, w, fs)
        /\ Turn(c, place, flag) /\ InStep(place, flag, fs # <<>>)

LEMMA LawfulBy ==
    ASSUME NEW c \in Clients, NEW k \in DriverConns, NEW img \in Images, NEW w \in Holders,
           NEW fs \in Seq(Frames), NEW place \in Places, NEW flag \in BOOLEAN,
           Change(k, img, w, fs), Legal(k, img, w, fs),
           Turn(c, place, flag), InStep(place, flag, fs # <<>>)
    PROVE  Lawful(c, k)
BY DEF Lawful

\* What a command finds at its connection.
LEMMA Found ==
    ASSUME TypeInv, PairInv, UndoInv, NEW c \in Clients, NEW k \in DriverConns, Uses(c, k)
    PROVE  /\ TypeOK /\ BegunFirst /\ InStep(pc[c], inTrans[c], Open(k))
           /\ image[Db(k)] \in Images /\ writer[Db(k)] \in Holders /\ undo[k] \in Seq(Frames)
           /\ Freed(k) \in Holders /\ <<>> \in Seq(Frames) /\ inTrans[c] \in BOOLEAN
           /\ Below(image[Db(k)], image[Db(k)])
           /\ Legal(k, image[Db(k)], writer[Db(k)], undo[k])
<1>1. TypeOK /\ BegunFirst /\ InStep(pc[c], inTrans[c], Open(k))
  BY DEF TypeInv, PairInv, Flagged
<1>2. /\ image[Db(k)] \in Images /\ writer[Db(k)] \in Holders /\ undo[k] \in Seq(Frames)
      /\ Freed(k) \in Holders /\ <<>> \in Seq(Frames) /\ inTrans[c] \in BOOLEAN
  BY <1>1, PartsTyped, EndChange, SessionTyped, EmptySeq
<1>3. Below(image[Db(k)], image[Db(k)])
  BY <1>2, BelowOrder
<1>4. undo[k] # <<>> => undo[k][1].name = Begun
  BY <1>1 DEF BegunFirst, Open
<1>5. Legal(k, image[Db(k)], writer[Db(k)], undo[k])
  BY <1>1, <1>4, SameLegal
<1>. QED
  BY <1>1, <1>2, <1>3, <1>5

LEMMA RestoredAbove ==
    ASSUME TypeOK, NEW c \in Clients, NEW k \in DriverConns
    PROVE  RestoredImage(c, k) \in Images /\ Below(image[Db(k)], RestoredImage(c, k))
<1>1. image[Db(k)] \in Images /\ alloc \in 0..MaxId
  BY PartsTyped, SessionTyped
<1>. QED
  BY <1>1, RaisedTyped, BelowOrder DEF RestoredImage, Below

LEMMA BeginLawful ==
    ASSUME TypeInv, PairInv, UndoInv, NEW c \in Clients, NEW k \in DriverConns, Uses(c, k),
           Begin(c, k) \/ Commit(c, k) \/ \E then \in {"rolledBack", "chaining"} : Rollback(c, k, then)
    PROVE  Lawful(c, k)
<1>1. /\ TypeOK /\ BegunFirst /\ image[Db(k)] \in Images /\ writer[Db(k)] \in Holders
      /\ Freed(k) \in Holders /\ <<>> \in Seq(Frames) /\ inTrans[c] \in BOOLEAN
      /\ Below(image[Db(k)], image[Db(k)])
      /\ {"idle", "inserted", "rolledBack", "chaining", "rolledBackTo"} \subseteq Places
  BY Found DEF Places
<1>2. CASE Begin(c, k)
  <2>1. /\ FramesBegun(k) # <<>> /\ FramesBegun(k)[1].name = Begun
        /\ writer[Db(k)] = k => FramesBegun(k) = undo[k]
    <3>1. <<Frame(k, Begun)>> # <<>> /\ <<Frame(k, Begun)>>[1] = Frame(k, Begun)
          /\ Frame(k, Begun).name = Begun
      BY <1>1, FrameTyped
    <3>. QED
      BY <1>1, <3>1, CommittedHere DEF FramesBegun, BegunFirst, Open
  <2>2. Legal(k, image[Db(k)], writer[Db(k)], FramesBegun(k))
    BY <1>1, <2>1, SameLegal
  <2>3. InStep("idle", TRUE, FramesBegun(k) # <<>>)
    BY <2>1 DEF InStep
  <2>. QED
    BY <1>1, <1>2, <2>2, <2>3, BeginChange, LawfulBy
<1>3. CASE Commit(c, k)
  <2>1. writer[Db(k)] = k => Below(undo[k][1].image, image[Db(k)])
    BY <1>1, CommittedHere DEF Chain
  <2>2. Legal(k, image[Db(k)], Freed(k), <<>>)
    BY <1>1, <2>1, EndLegal
  <2>3. InStep("idle", FALSE, <<>> # <<>>)
    BY DEF InStep
  <2>. QED
    BY <1>1, <1>3, <2>2, <2>3, CommitChange, LawfulBy
<1>4. ASSUME NEW then \in {"rolledBack", "chaining"}, Rollback(c, k, then)
      PROVE  Lawful(c, k)
  <2>1. /\ Change(k, Back(k, 1), Freed(k), <<>>) /\ Turn(c, then, inTrans[c])
        /\ Back(k, 1) \in Images
    BY <1>1, <1>4, RollbackChange
  <2>2. /\ writer[Db(k)] = k => Below(undo[k][1].image, Back(k, 1))
        /\ writer[Db(k)] # k => Back(k, 1) = image[Db(k)]
    BY <1>1, CommittedHere, PartsTyped, BelowOrder DEF Back
  <2>3. Legal(k, Back(k, 1), Freed(k), <<>>)
    BY <1>1, <2>1, <2>2, EndLegal
  <2>4. InStep(then, inTrans[c], <<>> # <<>>) /\ then \in Places
    BY DEF InStep, Places
  <2>. QED
    BY <1>1, <2>1, <2>3, <2>4, LawfulBy
<1>. QED
  BY <1>2, <1>3, <1>4

LEMMA SavepointLawful ==
    ASSUME TypeInv, PairInv, UndoInv, Polite, NEW c \in Clients, NEW k \in DriverConns,
           Uses(c, k), NEW s \in Savepoints,
           SetSavepoint(c, k, s) \/ ReleaseSavepoint(c, k, s) \/ RollbackTo(c, k, s)
    PROVE  Lawful(c, k)
<1>1. /\ TypeOK /\ BegunFirst /\ image[Db(k)] \in Images /\ writer[Db(k)] \in Holders
      /\ inTrans[c] \in BOOLEAN /\ InStep(pc[c], inTrans[c], Open(k))
      /\ "idle" \in Places /\ "rolledBackTo" \in Places
  BY Found DEF Places
<1>2. pc[c] = "idle"
  BY DEF SetSavepoint, ReleaseSavepoint, RollbackTo, Idle
<1>3. CASE SetSavepoint(c, k, s)
  <2>1. Open(k)
    BY <1>3 DEF SetSavepoint, Polite
  <2>2. /\ Legal(k, image[Db(k)], writer[Db(k)], Append(undo[k], Frame(k, s)))
        /\ InStep("idle", inTrans[c], Append(undo[k], Frame(k, s)) # <<>>)
    BY <1>1, <1>2, <2>1, AppendLegal DEF InStep
  <2>. QED
    BY <1>1, <1>3, <2>2, SavepointChange, LawfulBy
<1>4. CASE ReleaseSavepoint(c, k, s)
  <2>1. PICK i \in DOMAIN undo[k] :
           /\ undo[k][i].name = s
           /\ Change(k, image[Db(k)], IF i = 1 THEN Freed(k) ELSE writer[Db(k)],
                     SubSeq(undo[k], 1, i - 1))
           /\ Turn(c, "idle", inTrans[c])
           /\ SubSeq(undo[k], 1, i - 1) \in Seq(Frames)
    BY <1>1, <1>4, ReleaseChange
  <2>2. i # 1
    <3>1. s # Begun
      BY SessionAssumption
    <3>. QED
      BY <1>1, <2>1, <3>1, PartsTyped DEF BegunFirst
  <2>3. i - 1 \in 1..Len(undo[k])
    BY <1>1, <2>2, PartsTyped
  <2>4. /\ Legal(k, image[Db(k)], writer[Db(k)], SubSeq(undo[k], 1, i - 1))
        /\ SubSeq(undo[k], 1, i - 1) # <<>> /\ Open(k)
    BY <1>1, <2>3, CutLegal
  <2>5. InStep("idle", inTrans[c], SubSeq(undo[k], 1, i - 1) # <<>>)
    BY <1>1, <1>2, <2>4 DEF InStep
  <2>. QED
    BY <1>1, <2>1, <2>2, <2>4, <2>5, LawfulBy
<1>5. CASE RollbackTo(c, k, s)
  <2>1. PICK i \in DOMAIN undo[k] :
           /\ Change(k, Back(k, i), writer[Db(k)], SubSeq(undo[k], 1, i))
           /\ Turn(c, "rolledBackTo", inTrans[c])
           /\ Back(k, i) \in Images /\ i \in 1..Len(undo[k])
           /\ SubSeq(undo[k], 1, i) \in Seq(Frames)
    BY <1>1, <1>5, RollbackToChange
  <2>2. /\ writer[Db(k)] = k => Back(k, i) = undo[k][i].image
        /\ writer[Db(k)] # k => Back(k, i) = image[Db(k)]
    BY DEF Back
  <2>3. /\ Legal(k, Back(k, i), writer[Db(k)], SubSeq(undo[k], 1, i))
        /\ SubSeq(undo[k], 1, i) # <<>> /\ Open(k)
    BY <1>1, <2>1, <2>2, CutLegal
  <2>4. InStep("rolledBackTo", inTrans[c], SubSeq(undo[k], 1, i) # <<>>)
    BY <1>1, <1>2, <2>3 DEF InStep
  <2>. QED
    BY <1>1, <2>1, <2>3, <2>4, LawfulBy
<1>. QED
  BY <1>3, <1>4, <1>5

\* A restore, or the lack of one, at the end of a rollback.
LEMMA RestoreLegal ==
    ASSUME TypeOK, UndoInv, BegunFirst, NEW c \in Clients, NEW k \in DriverConns,
           MustRestore(c) => CanWrite(k)
    PROVE  /\ Legal(k, RestoredImage(c, k), RestoredLock(c, k), RestoredFrames(c, k))
           /\ RestoredFrames(c, k) # <<>> <=> Open(k)
<1>1. CASE MustRestore(c)
  <2>1. Raised(image[Db(k)], alloc) \in Images
        /\ Below(image[Db(k)], Raised(image[Db(k)], alloc))
    BY <1>1, RestoredAbove DEF RestoredImage
  <2>. QED
    BY <1>1, <2>1, WriteLegal DEF RestoredImage, RestoredLock, RestoredFrames
<1>2. CASE ~MustRestore(c)
  <2>1. undo[k] # <<>> => undo[k][1].name = Begun
    BY DEF BegunFirst, Open
  <2>2. Legal(k, image[Db(k)], writer[Db(k)], undo[k])
    BY <2>1, SameLegal
  <2>. QED
    BY <1>2, <2>2 DEF RestoredImage, RestoredLock, RestoredFrames, Open
<1>. QED
  BY <1>1, <1>2

LEMMA FinishLawful ==
    ASSUME TypeInv, PairInv, UndoInv, NEW c \in Clients, NEW k \in DriverConns, Uses(c, k),
           FinishRollback(c, k) \/ FinishChain(c, k) \/ FinishRollbackTo(c, k)
    PROVE  Lawful(c, k)
<1>1. /\ TypeOK /\ BegunFirst /\ image[Db(k)] \in Images /\ writer[Db(k)] \in Holders
      /\ undo[k] \in Seq(Frames) /\ inTrans[c] \in BOOLEAN
      /\ InStep(pc[c], inTrans[c], Open(k)) /\ "idle" \in Places
      /\ Legal(k, image[Db(k)], writer[Db(k)], undo[k])
  BY Found DEF Places
<1>2. CASE FinishRollback(c, k)
  <2>1. ~Open(k)
    BY <1>1, <1>2 DEF FinishRollback, InStep
  <2>2. InStep("idle", FALSE, undo[k] # <<>>)
        /\ ((MustRestore(c) => CanWrite(k)) => InStep("idle", FALSE, RestoredFrames(c, k) # <<>>))
    BY <1>1, <2>1, RestoreLegal DEF InStep, Open
  <2>. QED
    BY <1>1, <1>2, <2>2, FinishRollbackChange, RestoreLegal, LawfulBy
<1>3. CASE FinishChain(c, k)
  <2>1. ~Open(k) /\ writer[Db(k)] # k
    BY <1>1, <1>3, CommittedHere DEF FinishChain, InStep
  <2>2. InStep("idle", FALSE, undo[k] # <<>>)
    BY <2>1 DEF InStep, Open
  <2>3. /\ <<Frame(k, Begun)>> # <<>> /\ <<Frame(k, Begun)>>[1].name = Begun
        /\ InStep("idle", TRUE, <<Frame(k, Begun)>> # <<>>)
    BY <1>1, FrameTyped DEF InStep
  <2>4. ASSUME MustRestore(c) => CanWrite(k)
        PROVE  Legal(k, RestoredImage(c, k), writer[Db(k)], <<Frame(k, Begun)>>)
    <3>1. CASE writer[Db(k)] = NoConn
      BY <1>1, <2>3, <3>1, RestoredAbove, CommittedHere DEF Legal
    <3>2. CASE writer[Db(k)] # NoConn
      <4>1. RestoredImage(c, k) = image[Db(k)]
        BY <2>1, <2>4, <3>2 DEF CanWrite, RestoredImage
      <4>. QED
        BY <2>1, <2>3, <3>2, <4>1 DEF Legal
    <3>. QED
      BY <3>1, <3>2
  <2>. QED
    BY <1>1, <1>3, <2>2, <2>3, <2>4, FinishChainChange, LawfulBy
<1>4. CASE FinishRollbackTo(c, k)
  <2>1. InStep("idle", inTrans[c], Open(k))
    BY <1>1, <1>4 DEF FinishRollbackTo, InStep
  <2>2. InStep("idle", inTrans[c], undo[k] # <<>>)
        /\ (CanWrite(k) => InStep("idle", inTrans[c], RestoredFrames(c, k) # <<>>))
    BY <1>1, <2>1, RestoreLegal DEF InStep, Open
  <2>. QED
    BY <1>1, <1>4, <2>2, FinishRollbackToChange, RestoreLegal, LawfulBy
<1>. QED
  BY <1>2, <1>3, <1>4

LEMMA InsertLawful ==
    ASSUME TypeInv, PairInv, UndoInv, NEW c \in Clients, NEW k \in DriverConns, Uses(c, k),
           InsertExec(c, k) \/ RecordAllocation(c, k)
    PROVE  Lawful(c, k)
<1>1. /\ TypeOK /\ BegunFirst /\ image[Db(k)] \in Images /\ writer[Db(k)] \in Holders
      /\ undo[k] \in Seq(Frames) /\ inTrans[c] \in BOOLEAN
      /\ InStep(pc[c], inTrans[c], Open(k)) /\ "idle" \in Places /\ "inserted" \in Places
      /\ Legal(k, image[Db(k)], writer[Db(k)], undo[k])
  BY Found DEF Places
<1>2. CASE InsertExec(c, k)
  <2>1. /\ Legal(k, Grown(k), TakenBy(k), FramesTaken(k))
        /\ FramesTaken(k) # <<>> <=> Open(k)
    BY <1>1, <1>2, InsertChange, WriteLegal
  <2>2. InStep("inserted", inTrans[c], FramesTaken(k) # <<>>)
    BY <1>1, <1>2, <2>1 DEF InsertExec, InStep, Idle
  <2>. QED
    BY <1>1, <1>2, <2>1, <2>2, InsertChange, LawfulBy
<1>3. CASE RecordAllocation(c, k)
  <2>1. InStep("idle", inTrans[c], undo[k] # <<>>)
    BY <1>1, <1>3 DEF RecordAllocation, InStep, Open
  <2>. QED
    BY <1>1, <1>3, <2>1, RecordChange, LawfulBy
<1>. QED
  BY <1>2, <1>3

LEMMA CommandLawful ==
    ASSUME TypeInv, PairInv, UndoInv, Polite, NEW c \in Clients, NEW k \in DriverConns,
           Command(c, k)
    PROVE  Lawful(c, k)
<1>1. Uses(c, k)
  BY RestTyped
<1>. QED
  BY <1>1, BeginLawful, SavepointLawful, FinishLawful, InsertLawful DEF Command

\* A change touches one connection, and of the others at most the lock they
\* are waiting for.
LEMMA ChangeTouches ==
    ASSUME TypeOK, NEW k \in DriverConns, NEW img, NEW w, NEW fs, Change(k, img, w, fs)
    PROVE  /\ image'[Db(k)] = img /\ writer'[Db(k)] = w /\ undo'[k] = fs
           /\ \A d \in Dbs \ {Db(k)} : image'[d] = image[d] /\ writer'[d] = writer[d]
           /\ \A j \in DriverConns \ {k} : undo'[j] = undo[j]
BY PartsTyped DEF TypeOK, Change

LEMMA LawfulPairInv ==
    ASSUME TypeInv, PairInv, UndoInv, NEW c \in Clients, NEW k \in DriverConns,
           Lawful(c, k), UNCHANGED lease, Uses(c, k)
    PROVE  PairInv'
<1>1. PICK img \in Images, w \in Holders, fs \in Seq(Frames), place \in Places, flag \in BOOLEAN :
         /\ Change(k, img, w, fs) /\ Legal(k, img, w, fs)
         /\ Turn(c, place, flag) /\ InStep(place, flag, fs # <<>>)
  BY DEF Lawful
<1>2. /\ undo'[k] = fs /\ \A j \in DriverConns \ {k} : undo'[j] = undo[j]
      /\ fs # <<>> => fs[1].name = Begun
  BY <1>1, ChangeTouches DEF Legal, TypeInv
<1>3. /\ pc'[c] = place /\ inTrans'[c] = flag
      /\ \A b \in Clients \ {c} : pc'[b] = pc[b] /\ inTrans'[b] = inTrans[b]
  BY <1>1 DEF Turn, TypeInv, TypeOK
<1>4. \A b \in Clients, j \in DriverConns : (Uses(b, j))' <=> Uses(b, j)
  BY DEF Uses
<1>5. Exclusive'
  BY <1>4 DEF PairInv, Exclusive
<1>6. OpenInUse'
  <2>1. ASSUME NEW j \in DriverConns, Open(j)' PROVE \E b \in Clients : Uses(b, j)'
    BY <1>2, <1>4, <2>1 DEF PairInv, OpenInUse, Open
  <2>2. ASSUME NEW b \in Clients, ~Idle(b)' PROVE \E j \in DriverConns : Uses(b, j)'
    BY <1>3, <1>4, <2>2 DEF PairInv, OpenInUse, Idle
  <2>. QED
    BY <2>1, <2>2 DEF OpenInUse
<1>7. Flagged'
  <2>1. ASSUME NEW b \in Clients, NEW j \in DriverConns, Uses(b, j)'
        PROVE  InStep(pc'[b], inTrans'[b], undo'[j] # <<>>)
    <3>1. CASE b = c
      <4>1. j = k
        BY <1>4, <2>1, <3>1 DEF PairInv, Exclusive
      <4>. QED
        BY <1>1, <1>2, <1>3, <3>1, <4>1
    <3>2. CASE b # c
      <4>1. j # k /\ Uses(b, j)
        BY <1>4, <2>1, <3>2 DEF PairInv, Exclusive
      <4>2. InStep(pc[b], inTrans[b], undo[j] # <<>>)
        BY <4>1 DEF PairInv, Flagged, Open
      <4>. QED
        BY <1>2, <1>3, <3>2, <4>1, <4>2
    <3>. QED
      BY <3>1, <3>2
  <2>. QED
    BY <2>1 DEF Flagged, Open, InStep
<1>8. BegunFirst'
  BY <1>2 DEF PairInv, BegunFirst, Open
<1>. QED
  BY <1>5, <1>6, <1>7, <1>8 DEF PairInv

\* A legal change keeps the undo information and what was committed.
LEMMA LegalUndoInv ==
    ASSUME TypeOK, UndoInv, NEW k \in DriverConns, NEW img \in Images, NEW w \in Holders,
           NEW fs \in Seq(Frames), Change(k, img, w, fs), Legal(k, img, w, fs)
    PROVE  UndoInv' /\ \A d \in Dbs : Below(Committed(d), Committed(d)')
<1>1. /\ image'[Db(k)] = img /\ writer'[Db(k)] = w /\ undo'[k] = fs
      /\ \A d \in Dbs \ {Db(k)} : image'[d] = image[d] /\ writer'[d] = writer[d]
      /\ \A j \in DriverConns \ {k} : undo'[j] = undo[j]
  BY ChangeTouches
<1>2. k # NoConn /\ Db(k) \in Dbs
  BY CommittedHere, PartsTyped
<1>3. WritersOpen'
  <2>1. ASSUME NEW d \in Dbs, writer'[d] # NoConn
        PROVE  writer'[d] \in DriverConns /\ undo'[writer'[d]] # <<>> /\ Db(writer'[d]) = d
    <3>1. CASE d = Db(k) /\ w = k
      BY <1>1, <1>2, <3>1 DEF Legal
    <3>2. CASE writer'[d] = writer[d]
      <4>1. writer[d] \in DriverConns /\ undo[writer[d]] # <<>> /\ Db(writer[d]) = d
        BY <2>1, <3>2 DEF UndoInv, WritersOpen, Open
      <4>2. CASE writer[d] # k
        BY <1>1, <3>2, <4>1, <4>2
      <4>3. CASE writer[d] = k
        BY <1>1, <1>2, <3>1, <3>2, <4>1, <4>3
      <4>. QED
        BY <4>2, <4>3
    <3>3. CASE d = Db(k) /\ w \notin {NoConn, k}
      BY <1>1, <3>2, <3>3 DEF Legal
    <3>. QED
      BY <1>1, <2>1, <3>1, <3>2, <3>3
  <2>2. \A j : (Db(j))' = Db(j)
    BY DEF Db
  <2>. QED
    BY <2>1, <2>2 DEF WritersOpen, Open
<1>4. FramesGrow'
  <2>1. ASSUME NEW j \in DriverConns, writer'[Db(j)] = j
        PROVE  Chain(undo'[j], image'[Db(j)])
    <3>1. CASE j = k
      BY <1>1, <1>2, <2>1, <3>1 DEF Legal
    <3>2. CASE j # k /\ Db(j) = Db(k)
      <4>1. w = writer[Db(k)] /\ img = image[Db(k)]
        BY <1>1, <2>1, <3>2, SessionAssumption DEF Legal
      <4>. QED
        BY <1>1, <2>1, <3>2, <4>1 DEF UndoInv, FramesGrow
    <3>3. CASE Db(j) # Db(k)
      <4>1. Db(j) \in Dbs /\ j # k
        BY <3>3, PartsTyped
      <4>. QED
        BY <1>1, <2>1, <3>3, <4>1 DEF UndoInv, FramesGrow
    <3>. QED
      BY <3>1, <3>2, <3>3
  <2>2. \A j : (Db(j))' = Db(j)
    BY DEF Db
  <2>. QED
    BY <2>1, <2>2 DEF FramesGrow, Chain, Below
<1>5. ASSUME NEW d \in Dbs
      PROVE  Below(Committed(d), IF writer'[d] = NoConn THEN image'[d]
                                 ELSE undo'[writer'[d]][1].image)
  <2>1. Below(Committed(d), Committed(d))
    BY CommittedTyped, BelowOrder
  <2>2. CASE d = Db(k) /\ w \in {NoConn, k}
    BY <1>1, <1>2, <2>2 DEF Legal
  <2>3. CASE writer'[d] = writer[d] /\ image'[d] = image[d] /\ writer[d] # k
    BY <1>1, <2>1, <2>3 DEF Committed, UndoInv, WritersOpen
  <2>4. CASE d # Db(k)
    <3>1. writer[d] # k
      BY <1>2, <2>4 DEF UndoInv, WritersOpen
    <3>. QED
      BY <1>1, <2>3, <2>4, <3>1
  <2>. QED
    BY <1>1, <2>2, <2>3, <2>4 DEF Legal
<1>. QED
  BY <1>3, <1>4, <1>5 DEF UndoInv, Committed

-----------------------------------------------------------------------------
(* Rows that were acknowledged.                                            *)

\* A row put in alone is committed before it is acknowledged; one put in by a
\* transaction leaves it the write lock.
InsertedRow(c, k) ==
    Uses(c, k) /\ pc[c] = "inserted" =>
        IF inTrans[c] THEN writer[Db(k)] = k /\ newId[c] <= image[Db(k)].seq
        ELSE newId[c] \in Committed(Db(k)).rows /\ newId[c] <= Committed(Db(k)).seq

DurableInv ==
    /\ AckedOutsideIsDurable
    /\ \A c \in Clients, k \in DriverConns : InsertedRow(c, k)

\* The row of the session's own INSERT.
LEMMA InsertRow ==
    ASSUME TypeInv, PairInv, UndoInv, NEW c \in Clients, NEW k \in DriverConns,
           InsertExec(c, k)
    PROVE  InsertedRow(c, k)'
<1>1. /\ TypeOK /\ Change(k, Grown(k), TakenBy(k), FramesTaken(k))
      /\ Turn(c, "inserted", inTrans[c]) /\ Grown(k) \in Images
      /\ newId' = [newId EXCEPT ![c] = NextValue(k)] /\ NextValue(k) \in Ids
      /\ CanWrite(k) /\ Below(image[Db(k)], Grown(k))
  BY InsertChange DEF TypeInv
<1>2. TakenBy(k) = IF Open(k) THEN k ELSE NoConn
  BY <1>1, WriteLegal DEF PairInv
<1>3. image'[Db(k)] = Grown(k) /\ writer'[Db(k)] = TakenBy(k)
  BY <1>1, ChangeTouches
<1>4. newId'[c] = NextValue(k) /\ inTrans'[c] = inTrans[c]
  BY <1>1 DEF Turn, TypeOK
<1>5. /\ NextValue(k) \in Grown(k).rows /\ Grown(k).seq = NextValue(k)
      /\ NextValue(k) <= Grown(k).seq
  <2>1. NextValue(k) \in Nat
    BY <1>1, SeededTyped DEF Ids
  <2>. QED
    BY <2>1 DEF Grown
<1>6. inTrans[c] <=> Open(k)
  BY DEF PairInv, Flagged, InStep, InsertExec, Idle
<1>7. (Db(k))' = Db(k)
  BY DEF Db
<1>8. CASE Open(k)
  BY <1>2, <1>3, <1>4, <1>5, <1>6, <1>7, <1>8 DEF InsertedRow
<1>9. CASE ~Open(k)
  <2>1. (Committed(Db(k)))' = Grown(k)
    BY <1>2, <1>3, <1>7, <1>9 DEF Committed
  <2>. QED
    BY <1>4, <1>5, <1>6, <1>7, <1>9, <2>1 DEF InsertedRow
<1>. QED
  BY <1>8, <1>9

LEMMA CommittedTypesNext == (TypeOK /\ UndoInv)' => \A d \in Dbs : Committed(d)' \in Images
<1>1. TypeOK /\ UndoInv => \A d \in Dbs : Committed(d) \in Images
  BY CommittedTyped
<1>2. (TypeOK /\ UndoInv => \A d \in Dbs : Committed(d) \in Images)'
  BY <1>1, PTL
<1>. QED
  BY <1>2

\* Another session's row, which a change at k leaves as it is.
LEMMA OtherRow ==
    ASSUME TypeInv, TypeOK', UndoInv, NEW k \in DriverConns, NEW b \in Clients,
           NEW j \in DriverConns \ {k}, InsertedRow(b, j),
           NEW img \in Images, NEW w \in Holders, NEW fs \in Seq(Frames),
           Change(k, img, w, fs), Legal(k, img, w, fs), UNCHANGED lease,
           pc'[b] = pc[b], inTrans'[b] = inTrans[b], newId'[b] = newId[b]
    PROVE  InsertedRow(b, j)'
<1>1. /\ image'[Db(k)] = img /\ writer'[Db(k)] = w
      /\ \A d \in Dbs \ {Db(k)} : image'[d] = image[d] /\ writer'[d] = writer[d]
  BY ChangeTouches DEF TypeInv
<1>2. TypeOK /\ Db(j) \in Dbs /\ j # NoConn /\ (Db(j))' = Db(j)
  BY PartsTyped, SessionAssumption DEF TypeInv, Db
<1>3. writer[Db(j)] = j => writer'[Db(j)] = j /\ image'[Db(j)] = image[Db(j)]
  BY <1>1, <1>2 DEF Legal
<1>4. /\ Below(Committed(Db(j)), Committed(Db(j))') /\ Committed(Db(j)) \in Images
      /\ UndoInv'
  BY <1>2, LegalUndoInv, CommittedTyped
<1>5. Committed(Db(j))' \in Images
  BY <1>2, <1>4, CommittedTypesNext
<1>6. ASSUME Uses(b, j)', pc'[b] = "inserted", inTrans'[b]
      PROVE  writer'[Db(j)] = j /\ newId'[b] <= image'[Db(j)].seq
  BY <1>3, <1>6 DEF InsertedRow, Uses
<1>7. ASSUME Uses(b, j)', pc'[b] = "inserted", ~inTrans'[b]
      PROVE  newId'[b] \in Committed(Db(j))'.rows /\ newId'[b] <= Committed(Db(j))'.seq
  <2>1. newId[b] \in Committed(Db(j)).rows /\ newId[b] <= Committed(Db(j)).seq
    BY <1>7 DEF InsertedRow, Uses
  <2>2. newId[b] \in Nat
    BY SessionTyped, SeededTyped DEF TypeInv
  <2>. QED
    BY <1>4, <1>5, <2>1, <2>2, SeededTyped DEF Below, Images
<1>. QED
  BY <1>2, <1>6, <1>7 DEF InsertedRow

\* Only the acknowledgement of an INSERT adds to what clients were given.
LEMMA CommandGives ==
    ASSUME NEW c \in Clients, NEW k \in DriverConns, Command(c, k)
    PROVE  RecordAllocation(c, k) \/ UNCHANGED <<handed, durable, alloc>>
<1>1. ASSUME NEW s \in Savepoints,
             SetSavepoint(c, k, s) \/ ReleaseSavepoint(c, k, s) \/ RollbackTo(c, k, s)
      PROVE  UNCHANGED <<handed, durable, alloc>>
  BY <1>1 DEF SetSavepoint, ReleaseSavepoint, RollbackTo, history
<1>. QED
  BY <1>1 DEF Command, Begin, Commit, Rollback, FinishRollback, FinishChain,
              FinishRollbackTo, InsertExec, history

LEMMA CommandDurableInv ==
    ASSUME TypeInv, PairInv, UndoInv, DurableInv, Polite, NEW c \in Clients,
           NEW k \in DriverConns, Command(c, k)
    PROVE  DurableInv'
<1>1. /\ Lawful(c, k) /\ UNCHANGED lease /\ Uses(c, k) /\ TypeOK /\ TypeOK'
  BY CommandLawful, RestTyped, CommandTypeOK DEF TypeInv
<1>2. PICK img \in Images, w \in Holders, fs \in Seq(Frames), place \in Places, flag \in BOOLEAN :
         Change(k, img, w, fs) /\ Legal(k, img, w, fs)
  BY <1>1 DEF Lawful
<1>3. /\ UndoInv' /\ \A d \in Dbs : Below(Committed(d), Committed(d)')
  BY <1>1, <1>2, LegalUndoInv
<1>4. ASSUME NEW d \in Dbs PROVE durable'[d] \subseteq Committed(d)'.rows
  <2>1. durable[d] \subseteq Committed(d).rows
    BY DEF DurableInv, AckedOutsideIsDurable
  <2>2. Committed(d).rows \subseteq Committed(d)'.rows
    BY <1>3 DEF Below
  <2>3. CASE durable' = durable
    BY <2>1, <2>2, <2>3
  <2>4. CASE RecordAllocation(c, k)
    <3>1. durable' = [durable EXCEPT ![Db(k)] =
                        IF inTrans[c] THEN durable[Db(k)] ELSE durable[Db(k)] \cup {newId[c]}]
          /\ pc[c] = "inserted"
      BY <2>4 DEF RecordAllocation
    <3>2. InsertedRow(c, k)
      BY DEF DurableInv
    <3>3. ~inTrans[c] => newId[c] \in Committed(Db(k)).rows
      BY <1>1, <3>1, <3>2 DEF InsertedRow
    <3>4. durable'[d] \subseteq Committed(d).rows
      BY <1>1, <2>1, <3>1, <3>3, PartsTyped DEF TypeOK
    <3>. QED
      BY <2>2, <3>4
  <2>. QED
    BY <2>3, <2>4, CommandGives
<1>5. ASSUME NEW b \in Clients, NEW j \in DriverConns PROVE InsertedRow(b, j)'
  <2>1. (Uses(b, j))' <=> Uses(b, j)
    BY <1>1 DEF Uses
  <2>2. CASE ~Uses(b, j)
    BY <2>1, <2>2 DEF InsertedRow
  <2>3. CASE Uses(b, j) /\ b = c
    <3>1. j = k
      BY <1>1, <2>3 DEF PairInv, Exclusive
    <3>2. CASE pc'[c] = "inserted"
      BY <2>3, <3>1, <3>2, CommandMoves, InsertRow
    <3>3. CASE pc'[c] # "inserted"
      BY <2>3, <3>3 DEF InsertedRow
    <3>. QED
      BY <3>2, <3>3
  <2>4. CASE Uses(b, j) /\ b # c
    <3>1. j # k /\ Exclusive /\ InsertedRow(b, j)
      BY <1>1, <2>4 DEF PairInv, Exclusive, DurableInv
    <3>2. pc'[b] = pc[b] /\ inTrans'[b] = inTrans[b] /\ newId'[b] = newId[b]
      BY <2>4, CommandMoves
    <3>. QED
      BY <1>1, <1>2, <2>4, <3>1, <3>2, OtherRow
  <2>. QED
    BY <2>2, <2>3, <2>4
<1>. QED
  BY <1>4, <1>5 DEF DurableInv, AckedOutsideIsDurable

\* A session's coming and going: the connection is in no transaction, and the
\* session in no command.
LEMMA ConnectPairInv ==
    ASSUME TypeInv, PairInv, Polite, NEW c \in Clients, NEW k \in DriverConns,
           Connect(c, k) \/ Disconnect(c, k)
    PROVE  PairInv' /\ ~Open(k) /\ UNCHANGED <<writer, undo, pc, newId>>
<1>. USE DEF PairInv, TypeInv, TypeOK, LeaseModel!LeaseTypeOK
<1>1. UNCHANGED <<writer, undo, pc, newId>>
  BY DEF Connect, Disconnect, serverVars, sessionVars
<1>2. CASE Connect(c, k)
  <2>1. /\ \A b \in Clients : ~Uses(b, k)
        /\ \A j \in DriverConns : ~Uses(c, j)
        /\ lease' = lease \cup {<<c, k>>}
    BY <1>2 DEF Connect, LeaseModel!Grant, LeaseModel!Leased, LeaseModel!Leasing, Uses
  <2>2. ~Open(k) /\ Idle(c)
    BY <2>1 DEF OpenInUse
  <2>3. \A b \in Clients, j \in DriverConns : (Uses(b, j))' <=> Uses(b, j) \/ (b = c /\ j = k)
    BY <2>1 DEF Uses
  <2>4. inTrans'[c] = FALSE /\ \A b \in Clients \ {c} : inTrans'[b] = inTrans[b]
    BY <1>2 DEF Connect
  <2>5. Exclusive'
    BY <2>1, <2>3 DEF Exclusive
  <2>6. OpenInUse' /\ BegunFirst'
    BY <1>1, <2>3 DEF OpenInUse, BegunFirst, Open, Idle
  <2>7. Flagged'
    BY <1>1, <2>1, <2>2, <2>3, <2>4 DEF Flagged, InStep, Open, Idle
  <2>. QED
    BY <1>1, <2>2, <2>5, <2>6, <2>7
<1>3. CASE Disconnect(c, k)
  <2>1. /\ Idle(c) /\ ~Open(k) /\ Uses(c, k) /\ lease' = lease \ {<<c, k>>}
        /\ UNCHANGED inTrans
    BY <1>3 DEF Disconnect, LeaseModel!GiveBack, Polite, Uses, sessionVars
  <2>2. \A b \in Clients, j \in DriverConns :
           (Uses(b, j))' <=> Uses(b, j) /\ ~(b = c /\ j = k)
    BY <2>1 DEF Uses
  <2>3. Exclusive'
    BY <2>2 DEF Exclusive
  <2>4. OpenInUse'
    <3>1. ASSUME NEW j \in DriverConns, Open(j)' PROVE \E b \in Clients : Uses(b, j)'
      <4>1. PICK b \in Clients : Uses(b, j)
        BY <1>1, <3>1 DEF OpenInUse, Open
      <4>2. j # k
        BY <1>1, <2>1, <3>1 DEF Open
      <4>. QED
        BY <2>2, <4>1, <4>2
    <3>2. ASSUME NEW b \in Clients, ~Idle(b)' PROVE \E j \in DriverConns : Uses(b, j)'
      <4>1. PICK j \in DriverConns : Uses(b, j)
        BY <1>1, <3>2 DEF OpenInUse, Idle
      <4>2. b # c
        BY <1>1, <2>1, <3>2 DEF Idle
      <4>. QED
        BY <2>2, <4>1, <4>2
    <3>. QED
      BY <3>1, <3>2 DEF OpenInUse
  <2>5. Flagged' /\ BegunFirst'
    BY <1>1, <2>1, <2>2 DEF Flagged, BegunFirst, InStep, Open
  <2>. QED
    BY <1>1, <2>1, <2>3, <2>4, <2>5
<1>. QED
  BY <1>2, <1>3

\* A private database is rebuilt while its connection is in no transaction.
LEMMA ConnectUndoInv ==
    ASSUME TypeInv, PairInv, UndoInv, DurableInv, Polite,
           NEW c \in Clients, NEW k \in DriverConns, Connect(c, k) \/ Disconnect(c, k)
    PROVE  UndoInv' /\ DurableInv'
<1>. USE DEF TypeInv, TypeOK, LeaseModel!LeaseTypeOK
<1>1. PairInv' /\ ~Open(k) /\ UNCHANGED <<writer, undo, pc, newId>>
  BY ConnectPairInv
<1>2. \A j : (Db(j))' = Db(j)
  BY DEF Db
<1>3. /\ \A b \in Clients \ {c} : inTrans'[b] = inTrans[b]
      /\ \A b \in Clients, j \in DriverConns : Uses(b, j)' /\ ~Idle(b) => b # c /\ j # k /\ Uses(b, j)
  <2>1. CASE Connect(c, k)
    <3>1. /\ \A b \in Clients : ~Uses(b, k)
          /\ \A j \in DriverConns : ~Uses(c, j)
          /\ lease' = lease \cup {<<c, k>>} /\ inTrans' = [inTrans EXCEPT ![c] = FALSE]
      BY <2>1 DEF Connect, LeaseModel!Grant, LeaseModel!Leased, LeaseModel!Leasing, Uses
    <3>2. Idle(c)
      BY <3>1 DEF PairInv, OpenInUse
    <3>. QED
      BY <3>1, <3>2 DEF Uses
  <2>2. CASE Disconnect(c, k)
    <3>1. Idle(c) /\ Uses(c, k) /\ lease' = lease \ {<<c, k>>} /\ UNCHANGED inTrans
      BY <2>2 DEF Disconnect, LeaseModel!GiveBack, Uses, sessionVars
    <3>. QED
      BY <3>1 DEF Uses, PairInv, Exclusive
  <2>. QED
    BY <2>1, <2>2
<1>4. CASE UNCHANGED <<image, durable>>
  <2>1. UndoInv'
    BY <1>1, <1>2, <1>4 DEF UndoInv, WritersOpen, FramesGrow, Chain, Below, Open
  <2>2. \A d \in Dbs : Committed(d)' = Committed(d)
    BY <1>1, <1>4 DEF Committed
  <2>3. AckedOutsideIsDurable'
    BY <1>4, <2>2 DEF DurableInv, AckedOutsideIsDurable
  <2>4. ASSUME NEW b \in Clients, NEW j \in DriverConns PROVE InsertedRow(b, j)'
    <3>1. InsertedRow(b, j) /\ Db(j) \in Dbs
      BY PartsTyped DEF DurableInv
    <3>2. Committed(Db(j))' = Committed(Db(j)) /\ (Db(j))' = Db(j)
      BY <1>2, <2>2, <3>1
    <3>. QED
      BY <1>1, <1>3, <1>4, <3>1, <3>2 DEF InsertedRow, Idle
  <2>. QED
    BY <2>1, <2>3, <2>4 DEF DurableInv
<1>5. CASE /\ ~Shared /\ image' = [image EXCEPT ![k] = Seeded]
           /\ durable' = [durable EXCEPT ![k] = {}]
  <2>1. Dbs = DriverConns /\ \A j : Db(j) = j
    BY <1>5 DEF Dbs, Db
  <2>2. writer[k] = NoConn
    BY <1>1, <2>1 DEF UndoInv, WritersOpen
  <2>3. \A d \in Dbs \ {k} : image'[d] = image[d] /\ durable'[d] = durable[d]
    BY <1>5, <2>1
  <2>4. UndoInv'
    <3>1. WritersOpen'
      BY <1>1, <1>2 DEF UndoInv, WritersOpen, Open
    <3>2. FramesGrow'
      BY <1>1, <1>2, <2>1, <2>2, <2>3, SessionAssumption
         DEF UndoInv, FramesGrow, Chain, Below
    <3>. QED
      BY <3>1, <3>2 DEF UndoInv
  <2>5. \A d \in Dbs \ {k} : Committed(d)' = Committed(d)
    BY <1>1, <2>3 DEF Committed
  <2>6. AckedOutsideIsDurable'
    BY <1>5, <2>1, <2>3, <2>5 DEF DurableInv, AckedOutsideIsDurable
  <2>7. ASSUME NEW b \in Clients, NEW j \in DriverConns PROVE InsertedRow(b, j)'
    <3>1. InsertedRow(b, j) /\ Db(j) = j /\ (Db(j))' = j /\ j \in Dbs
      BY <1>2, <2>1 DEF DurableInv
    <3>2. j # k => Committed(j)' = Committed(j) /\ image'[j] = image[j]
      BY <2>1, <2>3, <2>5
    <3>. QED
      BY <1>1, <1>3, <3>1, <3>2 DEF InsertedRow, Idle
  <2>. QED
    BY <2>4, <2>6, <2>7 DEF DurableInv
<1>. QED
  BY <1>4, <1>5 DEF Connect, Disconnect, serverVars, history

LEMMA PoliteInit == Init => PairInv /\ UndoInv /\ DurableInv
<1>. SUFFICES ASSUME Init PROVE PairInv /\ UndoInv /\ DurableInv
  OBVIOUS
<1>1. /\ \A c, k : ~Uses(c, k)
      /\ \A c \in Clients : Idle(c)
      /\ \A k \in DriverConns : ~Open(k)
  BY DEF Init, LeaseModel!LeaseInit, Uses, Idle, Open
<1>2. PairInv
  BY <1>1 DEF PairInv, Exclusive, OpenInUse, Flagged, BegunFirst
<1>3. UndoInv
  <2>1. \A k \in DriverConns : Db(k) \in Dbs
    BY DEF Db, Dbs
  <2>. QED
    BY <2>1, SessionAssumption DEF Init, UndoInv, WritersOpen, FramesGrow
<1>4. DurableInv
  BY <1>1 DEF Init, DurableInv, AckedOutsideIsDurable, InsertedRow
<1>. QED
  BY <1>2, <1>3, <1>4

PoliteInv == TypeInv /\ PairInv /\ UndoInv /\ DurableInv

LEMMA PoliteInvStep ==
    ASSUME Polite PROVE PoliteInv /\ [Next]_vars => PoliteInv'
<1>. SUFFICES ASSUME PoliteInv, [Next]_vars PROVE PoliteInv'
  OBVIOUS
<1>. USE DEF PoliteInv
<1>1. TypeInv'
  BY TypeInvStep
<1>2. CASE UNCHANGED vars
  <2>1. UNCHANGED <<lease, image, writer, undo, alloc, inTrans, marked, pc, newId, handed, durable>>
    BY <1>2 DEF vars, serverVars, sessionVars, history
  <2>. USE <2>1
  <2>2. PairInv'
    BY DEF PairInv, Exclusive, OpenInUse, Flagged, BegunFirst, InStep, Open, Uses, Idle
  <2>3. UndoInv'
    BY DEF UndoInv, WritersOpen, FramesGrow, Chain, Below, Open, Db
  <2>4. DurableInv'
    BY DEF DurableInv, AckedOutsideIsDurable, InsertedRow, Committed, Uses, Db
  <2>. QED
    BY <1>1, <2>2, <2>3, <2>4
<1>3. ASSUME NEW c \in Clients, NEW k \in DriverConns, Connect(c, k) \/ Disconnect(c, k)
      PROVE  PoliteInv'
  BY <1>1, <1>3, ConnectPairInv, ConnectUndoInv
<1>4. ASSUME NEW c \in Clients, NEW k \in DriverConns, Command(c, k)
      PROVE  PoliteInv'
  <2>1. Lawful(c, k) /\ UNCHANGED lease /\ Uses(c, k) /\ TypeOK
    BY <1>4, CommandLawful, RestTyped DEF TypeInv
  <2>2. PairInv'
    BY <2>1, LawfulPairInv
  <2>3. UndoInv'
    BY <2>1, LegalUndoInv DEF Lawful
  <2>4. DurableInv'
    BY <1>4, CommandDurableInv
  <2>. QED
    BY <1>1, <2>2, <2>3, <2>4
<1>5. Next => \E c \in Clients, k \in DriverConns :
                 Connect(c, k) \/ Disconnect(c, k) \/ Command(c, k)
  BY Zenon DEF Next, Command
<1>. QED
  BY <1>2, <1>3, <1>4, <1>5

LEMMA PoliteInvariance == ASSUME Polite PROVE Spec => []PoliteInv
<1>1. Init => PoliteInv
  BY InitTypeOK, PoliteInit DEF PoliteInv, TypeInv, Init
<1>2. PoliteInv /\ [Next]_vars => PoliteInv'
  BY PoliteInvStep
<1>. QED
  BY <1>1, <1>2, PTL DEF Spec

\* For clients that open their transactions with BEGIN and end them before they
\* leave, SERVER_STATUS_IN_TRANS is set between commands exactly when the
\* session's SQLite connection is in a transaction, whatever commands of any
\* sessions came before.
THEOREM FlagIsTrue == ASSUME Polite PROVE Spec => []FlagTracksTransaction
<1>1. PoliteInv => FlagTracksTransaction
  BY DEF PoliteInv, PairInv, Flagged, InStep, FlagTracksTransaction, Idle
<1>. QED
  BY <1>1, PoliteInvariance, PTL

\* For such clients a row acknowledged outside a transaction is committed and
\* no session's rollback, whole, to a savepoint or chained, takes it back.
THEOREM AcknowledgedRowsStay == ASSUME Polite PROVE Spec => []AckedOutsideIsDurable
<1>1. PoliteInv => AckedOutsideIsDurable
  BY DEF PoliteInv, DurableInv
<1>. QED
  BY <1>1, PoliteInvariance, PTL

-----------------------------------------------------------------------------
(* AUTO_INCREMENT values of a shared database.                             *)

\* c has rolled back and sqlite_sequence is not restored.
Restoring(c) == marked[c] /\ pc[c] \in {"rolledBack", "chaining", "rolledBackTo"}

\* What was handed out is at most the allocation map's value, which is what a
\* marked session has to restore.
HandedInv ==
    /\ \A c \in Clients : marked[c] => alloc > 0
    /\ \A d \in Dbs : \A id \in handed[d] : id <= alloc

\* sqlite_sequence is behind the map only while a session is to restore it.
Behind == alloc <= image[SharedDb].seq \/ \E c \in Clients : Restoring(c)

\* A marked session has the write lock until its rollback, and from then to
\* its restore nobody has.
Undoing == {"rolledBack", "chaining"}

MarkedHasLock ==
    \A c \in Clients : marked[c] =>
        IF pc[c] \in Undoing THEN writer[SharedDb] = NoConn
        ELSE \E k \in DriverConns : Uses(c, k) /\ writer[SharedDb] = k

\* What an unmarked writer may roll back lost nothing that was handed out.
UnmarkedCovered ==
    \A c \in Clients, k \in DriverConns :
        Uses(c, k) /\ writer[SharedDb] = k /\ ~marked[c] => alloc <= undo[k][1].image.seq

SequenceInv == Behind /\ MarkedHasLock /\ UnmarkedCovered

\* While no INSERT has raced a restore:
ReuseInv == HandedInv /\ (~raced => SequenceInv)

LEMMA SharedHere ==
    ASSUME Shared PROVE Dbs = {SharedDb} /\ \A k : Db(k) = SharedDb
BY DEF Dbs, Db

\* What the change of a command that allocates nothing has to see to.
SeesTo(c, k) ==
    /\ UNCHANGED alloc
    /\ \/ alloc <= image'[SharedDb].seq
       \/ Restoring(c)'
       \/ image'[SharedDb] = image[SharedDb] /\ ~Restoring(c)
    /\ marked'[c] => IF pc'[c] \in Undoing THEN writer'[SharedDb] = NoConn
                     ELSE writer'[SharedDb] = k
    /\ writer'[SharedDb] = k /\ ~marked'[c] => alloc <= undo'[k][1].image.seq
    /\ writer[SharedDb] = NoConn /\ writer'[SharedDb] # NoConn =>
          \A b \in Clients \ {c} : ~(marked[b] /\ pc[b] \in Undoing)

LEMMA SeesToSequences ==
    ASSUME Shared, TypeInv, PairInv, UndoInv, SequenceInv, Polite,
           NEW c \in Clients, NEW k \in DriverConns, Command(c, k), SeesTo(c, k)
    PROVE  SequenceInv'
<1>. DEFINE W == writer[SharedDb]
<1>1. /\ Lawful(c, k) /\ UNCHANGED lease /\ Uses(c, k) /\ TypeOK
      /\ \A b \in Clients \ {c} : pc'[b] = pc[b] /\ marked'[b] = marked[b]
      /\ SharedDb \in Dbs /\ Db(k) = SharedDb /\ k # NoConn
  BY CommandLawful, RestTyped, CommandMoves, SharedHere, SessionAssumption DEF TypeInv
<1>2. /\ \A b \in Clients, j \in DriverConns : (Uses(b, j))' <=> Uses(b, j)
      /\ \A b \in Clients \ {c}, j \in DriverConns : Uses(b, j) => j # k
  BY <1>1 DEF Uses, PairInv, Exclusive
<1>3. PICK img \in Images, w \in Holders, fs \in Seq(Frames) :
         Change(k, img, w, fs) /\ Legal(k, img, w, fs)
  BY <1>1 DEF Lawful
<1>4. /\ image'[SharedDb] = img /\ writer'[SharedDb] = w
      /\ \A j \in DriverConns \ {k} : undo'[j] = undo[j]
      /\ (w \in {NoConn, k} /\ W \in {NoConn, k}) \/ w = W
  BY <1>1, <1>3, ChangeTouches DEF Legal
<1>5. Behind'
  <2>1. alloc' = alloc /\ (alloc <= image'[SharedDb].seq => alloc' <= image'[SharedDb].seq)
    BY DEF SeesTo
  <2>2. CASE alloc <= image'[SharedDb].seq
    BY <2>1, <2>2 DEF Behind
  <2>3. CASE Restoring(c)'
    BY <2>3 DEF Behind
  <2>4. CASE image'[SharedDb] = image[SharedDb] /\ ~Restoring(c)
    <3>1. CASE alloc <= image[SharedDb].seq
      BY <2>1, <2>4, <3>1 DEF Behind
    <3>2. CASE \E b \in Clients : Restoring(b)
      <4>1. PICK b \in Clients \ {c} : Restoring(b)
        BY <2>4, <3>2
      <4>2. Restoring(b)'
        BY <1>1, <4>1 DEF Restoring
      <4>. QED
        BY <4>2 DEF Behind
    <3>. QED
      BY <3>1, <3>2 DEF SequenceInv, Behind
  <2>. QED
    BY <2>2, <2>3, <2>4 DEF SeesTo
<1>6. MarkedHasLock'
  <2>1. ASSUME NEW b \in Clients, marked'[b]
        PROVE  IF pc'[b] \in Undoing THEN writer'[SharedDb] = NoConn
               ELSE \E j \in DriverConns : Uses(b, j)' /\ writer'[SharedDb] = j
    <3>1. CASE b = c
      BY <1>1, <1>2, <2>1, <3>1 DEF SeesTo
    <3>2. CASE b # c /\ pc[b] \in Undoing
      <4>1. W = NoConn
        BY <1>1, <2>1, <3>2 DEF SequenceInv, MarkedHasLock
      <4>2. w = NoConn
        BY <1>1, <1>4, <2>1, <3>2, <4>1 DEF SeesTo
      <4>. QED
        BY <1>1, <1>4, <3>2, <4>2
    <3>3. CASE b # c /\ pc[b] \notin Undoing
      <4>1. PICK j \in DriverConns : Uses(b, j) /\ W = j
        BY <1>1, <2>1, <3>3 DEF SequenceInv, MarkedHasLock
      <4>2. w = j
        BY <1>2, <1>4, <3>3, <4>1, SessionAssumption
      <4>. QED
        BY <1>1, <1>2, <1>4, <3>3, <4>1, <4>2
    <3>. QED
      BY <3>1, <3>2, <3>3
  <2>. QED
    BY <2>1 DEF MarkedHasLock, Undoing
<1>7. UnmarkedCovered'
  <2>1. ASSUME NEW b \in Clients, NEW j \in DriverConns,
               Uses(b, j)', writer'[SharedDb] = j, ~marked'[b]
        PROVE  alloc' <= undo'[j][1].image.seq
    <3>1. CASE b = c
      <4>1. j = k
        BY <1>1, <1>2, <2>1, <3>1 DEF PairInv, Exclusive
      <4>. QED
        BY <2>1, <3>1, <4>1 DEF SeesTo
    <3>2. CASE b # c
      <4>1. W = j /\ j # k /\ Uses(b, j) /\ ~marked[b]
        BY <1>1, <1>2, <1>4, <2>1, <3>2, SessionAssumption
      <4>2. alloc <= undo[j][1].image.seq
        BY <4>1 DEF SequenceInv, UnmarkedCovered
      <4>. QED
        BY <1>4, <4>1, <4>2 DEF SeesTo
    <3>. QED
      BY <3>1, <3>2
  <2>. QED
    BY <2>1 DEF UnmarkedCovered
<1>. QED
  BY <1>5, <1>6, <1>7 DEF SequenceInv

\* What a command finds of sequences and marks.
LEMMA SequenceFound ==
    ASSUME Shared, TypeInv, PairInv, UndoInv, HandedInv, SequenceInv,
           NEW c \in Clients, NEW k \in DriverConns, Uses(c, k)
    PROVE  /\ Db(k) = SharedDb /\ SharedDb \in Dbs /\ k # NoConn
           /\ writer[SharedDb] \in Holders /\ image[SharedDb] \in Images /\ alloc \in 0..MaxId
           /\ marked[c] <=> MustRestore(c)
           /\ marked[c] => IF pc[c] \in Undoing THEN writer[SharedDb] = NoConn
                           ELSE writer[SharedDb] = k
           /\ writer[SharedDb] = k /\ ~marked[c] => alloc <= undo[k][1].image.seq
           /\ writer[SharedDb] = k => /\ Open(k) /\ 1 \in DOMAIN undo[k]
                                      /\ Chain(undo[k], image[SharedDb])
           /\ pc[c] \in {"idle", "inserted"} => ~Restoring(c)
<1>1. /\ TypeOK /\ Db(k) = SharedDb /\ SharedDb \in Dbs
      /\ marked[c] \in BOOLEAN /\ alloc \in 0..MaxId
  BY SharedHere, SessionTyped DEF TypeInv
<1>2. /\ writer[SharedDb] \in Holders /\ image[SharedDb] \in Images /\ k # NoConn
      /\ writer[SharedDb] = k => /\ Open(k) /\ 1 \in DOMAIN undo[k]
                                 /\ Chain(undo[k], image[SharedDb])
  BY <1>1, PartsTyped, CommittedHere
<1>3. marked[c] <=> MustRestore(c)
  BY <1>1 DEF HandedInv, MustRestore
<1>4. marked[c] => IF pc[c] \in Undoing THEN writer[SharedDb] = NoConn
                   ELSE writer[SharedDb] = k
  <2>1. \A j \in DriverConns : Uses(c, j) => j = k
    BY DEF PairInv, Exclusive
  <2>. QED
    BY <2>1 DEF SequenceInv, MarkedHasLock
<1>5. writer[SharedDb] = k /\ ~marked[c] => alloc <= undo[k][1].image.seq
  BY DEF SequenceInv, UnmarkedCovered
<1>6. pc[c] \in {"idle", "inserted"} => ~Restoring(c)
  BY DEF Restoring
<1>. QED
  BY <1>1, <1>2, <1>3, <1>4, <1>5, <1>6

LEMMA BeginSeesTo ==
    ASSUME Shared, TypeInv, PairInv, UndoInv, HandedInv, SequenceInv,
           NEW c \in Clients, NEW k \in DriverConns, Uses(c, k),
           Begin(c, k) \/ Commit(c, k) \/ \E then \in Undoing : Rollback(c, k, then)
    PROVE  SeesTo(c, k)
<1>. DEFINE W == writer[SharedDb]
<1>1. /\ Db(k) = SharedDb /\ k # NoConn /\ TypeOK /\ pc[c] = "idle"
      /\ marked[c] => W = k
      /\ W = k /\ ~marked[c] => alloc <= undo[k][1].image.seq
      /\ W = k => Open(k)
      /\ ~Restoring(c)
  BY SequenceFound DEF TypeInv, Begin, Commit, Rollback, Idle, Undoing
<1>2. CASE Begin(c, k)
  <2>1. /\ UNCHANGED <<alloc, image, writer, marked, pc>> /\ pc'[c] = "idle"
        /\ Open(k) => undo' = undo
    BY <1>1, <1>2 DEF Begin
  <2>. QED
    BY <1>1, <2>1 DEF SeesTo, Undoing
<1>3. CASE Commit(c, k)
  <2>1. Change(k, image[Db(k)], Freed(k), <<>>) /\ Turn(c, "idle", FALSE)
    BY <1>1, <1>3, CommitChange
  <2>2. /\ UNCHANGED <<alloc, image>> /\ marked'[c] = FALSE
        /\ writer'[SharedDb] = IF W = k THEN NoConn ELSE W
    BY <1>1, <1>3, <2>1, ChangeTouches DEF Commit, Freed, TypeOK
  <2>. QED
    BY <1>1, <2>2 DEF SeesTo
<1>4. ASSUME NEW then \in Undoing, Rollback(c, k, then) PROVE SeesTo(c, k)
  <2>1. Change(k, Back(k, 1), Freed(k), <<>>) /\ Turn(c, then, inTrans[c])
    BY <1>1, <1>4, RollbackChange DEF Undoing
  <2>2. /\ UNCHANGED <<alloc, marked>> /\ pc'[c] = then
        /\ image'[SharedDb] = IF W = k THEN undo[k][1].image ELSE image[SharedDb]
        /\ writer'[SharedDb] = IF W = k THEN NoConn ELSE W
    BY <1>1, <1>4, <2>1, ChangeTouches DEF Rollback, Freed, Back, TypeOK, Turn
  <2>3. marked[c] => Restoring(c)'
    BY <2>2 DEF Restoring, Undoing
  <2>. QED
    BY <1>1, <2>2, <2>3 DEF SeesTo
<1>. QED
  BY <1>2, <1>3, <1>4

LEMMA SavepointSeesTo ==
    ASSUME Shared, TypeInv, PairInv, UndoInv, HandedInv, SequenceInv, Polite,
           NEW c \in Clients, NEW k \in DriverConns, Uses(c, k), NEW s \in Savepoints,
           SetSavepoint(c, k, s) \/ ReleaseSavepoint(c, k, s) \/ RollbackTo(c, k, s)
    PROVE  SeesTo(c, k)
<1>. DEFINE W == writer[SharedDb]
<1>1. /\ Db(k) = SharedDb /\ k # NoConn /\ TypeOK /\ pc[c] = "idle"
      /\ marked[c] => W = k
      /\ W = k /\ ~marked[c] => alloc <= undo[k][1].image.seq
      /\ W = k => Open(k) /\ Chain(undo[k], image[SharedDb])
      /\ ~Restoring(c) /\ BegunFirst
  BY SequenceFound
     DEF TypeInv, PairInv, SetSavepoint, ReleaseSavepoint, RollbackTo, Idle, Undoing
<1>2. UNCHANGED <<alloc, marked>>
  BY DEF SetSavepoint, ReleaseSavepoint, RollbackTo, sessionVars
<1>3. CASE SetSavepoint(c, k, s)
  <2>1. /\ UNCHANGED <<image, writer, pc>> /\ Open(k)
        /\ undo'[k] = Append(undo[k], Frame(k, s))
    BY <1>1, <1>3 DEF SetSavepoint, TypeOK, Polite, sessionVars
  <2>2. undo'[k][1] = undo[k][1]
    BY <1>1, <2>1, PartsTyped, FrameTyped, AppendProperties
  <2>. QED
    BY <1>1, <1>2, <2>1, <2>2 DEF SeesTo, Undoing
<1>4. CASE ReleaseSavepoint(c, k, s)
  <2>1. PICK i \in DOMAIN undo[k] :
           /\ undo[k][i].name = s
           /\ Change(k, image[Db(k)], IF i = 1 THEN Freed(k) ELSE writer[Db(k)],
                     SubSeq(undo[k], 1, i - 1))
           /\ i - 1 \in 0..Len(undo[k])
    BY <1>1, <1>4, ReleaseChange
  <2>2. i # 1 /\ 1 \in 1..(i - 1)
    <3>1. s # Begun
      BY SessionAssumption
    <3>. QED
      BY <1>1, <2>1, <3>1, PartsTyped DEF BegunFirst
  <2>3. undo'[k][1] = undo[k][1]
    <3>1. SubSeq(undo[k], 1, i - 1)[1] = undo[k][1]
      BY <1>1, <2>1, <2>2, CutTyped, PartsTyped
    <3>. QED
      BY <1>1, <2>1, <3>1 DEF Change, TypeOK
  <2>4. /\ writer'[SharedDb] = W /\ image'[SharedDb] = image[SharedDb] /\ UNCHANGED pc
    BY <1>1, <1>4, <2>1, <2>2, ChangeTouches DEF ReleaseSavepoint, sessionVars
  <2>. QED
    BY <1>1, <1>2, <2>3, <2>4 DEF SeesTo, Undoing
<1>5. CASE RollbackTo(c, k, s)
  <2>1. PICK i \in DOMAIN undo[k] :
           /\ Change(k, Back(k, i), writer[Db(k)], SubSeq(undo[k], 1, i))
           /\ Turn(c, "rolledBackTo", inTrans[c]) /\ i \in 1..Len(undo[k])
    BY <1>1, <1>5, RollbackToChange
  <2>2. 1 \in 1..i /\ i \in 0..Len(undo[k]) /\ 1 \in DOMAIN undo[k]
    BY <1>1, <2>1, PartsTyped
  <2>3. undo'[k][1] = undo[k][1]
    <3>1. SubSeq(undo[k], 1, i)[1] = undo[k][1]
      BY <1>1, <2>2, CutTyped, PartsTyped
    <3>. QED
      BY <1>1, <2>1, <3>1 DEF Change, TypeOK
  <2>4. /\ writer'[SharedDb] = W /\ pc'[c] = "rolledBackTo"
        /\ image'[SharedDb] = IF W = k THEN undo[k][i].image ELSE image[SharedDb]
    BY <1>1, <2>1, ChangeTouches DEF Back, Turn, TypeOK
  <2>5. marked[c] => Restoring(c)'
    BY <1>2, <2>4 DEF Restoring
  <2>6. W = k => undo[k][1].image.seq <= undo[k][i].image.seq
    BY <1>1, <2>1, <2>2 DEF Chain, Below
  <2>7. W = k /\ ~marked[c] => alloc <= undo[k][i].image.seq
    <3>1. /\ alloc \in 0..MaxId /\ undo[k][1].image \in Images
          /\ undo[k][i].image \in Images
      BY <1>1, <2>2, PartsTyped, SessionTyped
    <3>. QED
      BY <1>1, <2>6, <3>1, SeededTyped DEF Images
  <2>. QED
    BY <1>1, <1>2, <2>3, <2>4, <2>5, <2>7 DEF SeesTo, Undoing
<1>. QED
  BY <1>3, <1>4, <1>5

\* A restore brings sqlite_sequence level with the allocation map.
LEMMA RestoreRaises ==
    ASSUME Shared, TypeInv, PairInv, UndoInv, HandedInv, SequenceInv,
           NEW c \in Clients, NEW k \in DriverConns, Uses(c, k)
    PROVE  /\ marked[c] => alloc <= RestoredImage(c, k).seq
           /\ ~marked[c] => RestoredImage(c, k) = image[SharedDb]
           /\ RestoredImage(c, k).rows = image[SharedDb].rows
           /\ RestoredLock(c, k) = writer[SharedDb] /\ RestoredFrames(c, k) = undo[k]
           /\ MustRestore(c) => CanWrite(k)
<1>1. /\ Db(k) = SharedDb /\ image[SharedDb] \in Images /\ alloc \in 0..MaxId
      /\ marked[c] <=> MustRestore(c)
      /\ marked[c] => IF pc[c] \in Undoing THEN writer[SharedDb] = NoConn
                      ELSE writer[SharedDb] = k
      /\ k # NoConn
  BY SequenceFound
<1>2. /\ Raised(image[SharedDb], alloc).rows = image[SharedDb].rows
      /\ alloc <= Raised(image[SharedDb], alloc).seq
  BY <1>1, RaisedTyped
<1>3. pc[c] \in Undoing => ~Open(k)
  BY DEF PairInv, Flagged, InStep, Undoing
<1>4. marked[c] => ~Takes(k)
  BY <1>1, <1>3 DEF Takes
<1>. QED
  BY <1>1, <1>2, <1>4
     DEF RestoredImage, RestoredLock, RestoredFrames, TakenBy, FramesTaken, CanWrite

LEMMA FinishSeesTo ==
    ASSUME Shared, TypeInv, PairInv, UndoInv, HandedInv, SequenceInv,
           NEW c \in Clients, NEW k \in DriverConns, Uses(c, k),
           FinishRollback(c, k) \/ FinishChain(c, k) \/ FinishRollbackTo(c, k)
    PROVE  SeesTo(c, k)
<1>. DEFINE W == writer[SharedDb]
<1>1. /\ Db(k) = SharedDb /\ k # NoConn /\ TypeOK /\ marked[c] \in BOOLEAN
      /\ marked[c] => IF pc[c] \in Undoing THEN W = NoConn ELSE W = k
      /\ W = k /\ ~marked[c] => alloc <= undo[k][1].image.seq
      /\ W = k => Open(k)
  BY SequenceFound, SessionTyped DEF TypeInv
<1>2. /\ marked[c] => alloc <= RestoredImage(c, k).seq
      /\ ~marked[c] => RestoredImage(c, k) = image[SharedDb]
      /\ RestoredLock(c, k) = W /\ RestoredFrames(c, k) = undo[k]
      /\ MustRestore(c) => CanWrite(k)
  BY RestoreRaises
<1>3. UNCHANGED alloc
  BY DEF FinishRollback, FinishChain, FinishRollbackTo
<1>4. ~marked[c] => ~Restoring(c)
  BY DEF Restoring
<1>5. CASE FinishRollback(c, k)
  <2>1. ~Open(k)
    BY <1>5 DEF FinishRollback, PairInv, Flagged, InStep
  <2>2. /\ Change(k, RestoredImage(c, k), RestoredLock(c, k), RestoredFrames(c, k))
        /\ marked' = [marked EXCEPT ![c] = FALSE]
    BY <1>1, <1>2, <1>5, FinishRollbackChange
  <2>3. image'[SharedDb] = RestoredImage(c, k) /\ writer'[SharedDb] = W /\ marked'[c] = FALSE
    BY <1>1, <1>2, <2>2, ChangeTouches DEF TypeOK
  <2>. QED
    BY <1>1, <1>2, <1>3, <1>4, <2>1, <2>3 DEF SeesTo
<1>6. CASE FinishChain(c, k)
  <2>1. ~Open(k)
    BY <1>6 DEF FinishChain, PairInv, Flagged, InStep
  <2>2. /\ Change(k, RestoredImage(c, k), writer[Db(k)], <<Frame(k, Begun)>>)
        /\ marked' = [marked EXCEPT ![c] = FALSE]
    BY <1>1, <1>2, <1>6, FinishChainChange
  <2>3. image'[SharedDb] = RestoredImage(c, k) /\ writer'[SharedDb] = W /\ marked'[c] = FALSE
    BY <1>1, <2>2, ChangeTouches DEF TypeOK
  <2>. QED
    BY <1>1, <1>2, <1>3, <1>4, <2>1, <2>3 DEF SeesTo
<1>7. CASE FinishRollbackTo(c, k)
  <2>1. pc'[c] = "idle" /\ UNCHANGED marked /\ pc[c] \notin Undoing
    BY <1>1, <1>7 DEF FinishRollbackTo, TypeOK, Undoing
  <2>2. /\ image'[SharedDb] = RestoredImage(c, k) \/ (~marked[c] /\ image'[SharedDb] = image[SharedDb])
        /\ writer'[SharedDb] = W /\ undo'[k] = undo[k]
    <3>1. CASE Change(k, RestoredImage(c, k), RestoredLock(c, k), RestoredFrames(c, k))
      BY <1>1, <1>2, <3>1, ChangeTouches
    <3>2. CASE ~CanWrite(k) /\ Change(k, image[Db(k)], writer[Db(k)], undo[k])
      <4>1. ~marked[c]
        BY <1>1, <2>1, <3>2 DEF CanWrite
      <4>. QED
        BY <1>1, <3>2, <4>1, ChangeTouches
    <3>. QED
      BY <1>1, <1>7, <3>1, <3>2, FinishRollbackToChange
  <2>. QED
    BY <1>1, <1>2, <1>3, <1>4, <2>1, <2>2 DEF SeesTo, Undoing
<1>. QED
  BY <1>5, <1>6, <1>7

\* An INSERT that races no restore finds sqlite_sequence level with the map.
LEMMA InsertLevel ==
    ASSUME Shared, TypeInv, PairInv, UndoInv, HandedInv, SequenceInv,
           NEW c \in Clients, NEW k \in DriverConns, InsertExec(c, k), ~raced'
    PROVE  /\ alloc <= image[SharedDb].seq
           /\ \A b \in Clients \ {c} : ~(marked[b] /\ pc[b] \in Undoing)
<1>1. /\ CanWrite(k) /\ Uses(c, k) /\ pc[c] = "idle"
      /\ \A b \in Clients \ {c} : ~(pc[b] \in Undoing /\ MustRestore(b))
  BY DEF InsertExec, Idle, Undoing
<1>2. Db(k) = SharedDb /\ k # NoConn /\ ~Restoring(c)
  BY <1>1, SequenceFound
<1>3. \A b \in Clients : marked[b] => MustRestore(b)
  BY DEF HandedInv, MustRestore
<1>4. \A b \in Clients \ {c} : ~(marked[b] /\ pc[b] \in Undoing)
  BY <1>1, <1>3
<1>5. \A b \in Clients \ {c} : ~Restoring(b)
  <2>1. SUFFICES ASSUME NEW b \in Clients \ {c}, marked[b], pc[b] \notin Undoing PROVE FALSE
    BY <1>4 DEF Restoring
  <2>2. PICK j \in DriverConns : Uses(b, j) /\ writer[SharedDb] = j
    BY <2>1 DEF SequenceInv, MarkedHasLock
  <2>3. j = k
    BY <1>1, <1>2, <2>2, SessionAssumption DEF CanWrite
  <2>. QED
    BY <1>1, <2>2, <2>3 DEF PairInv, Exclusive
<1>. QED
  BY <1>2, <1>4, <1>5 DEF SequenceInv, Behind

LEMMA InsertSeesTo ==
    ASSUME Shared, TypeInv, PairInv, UndoInv, HandedInv, SequenceInv,
           NEW c \in Clients, NEW k \in DriverConns, InsertExec(c, k), ~raced'
    PROVE  SeesTo(c, k)
<1>. DEFINE W == writer[SharedDb]
<1>1. /\ Uses(c, k) /\ pc[c] = "idle" /\ UNCHANGED <<marked, alloc>> /\ CanWrite(k)
      /\ pc' = [pc EXCEPT ![c] = "inserted"]
  BY DEF InsertExec, Idle
<1>2. /\ Db(k) = SharedDb /\ SharedDb \in Dbs /\ k # NoConn /\ TypeOK
      /\ image[SharedDb] \in Images /\ alloc \in 0..MaxId
      /\ marked[c] => W = k
      /\ W = k /\ ~marked[c] => alloc <= undo[k][1].image.seq
      /\ W = k => Open(k)
  BY <1>1, SequenceFound DEF TypeInv, Undoing
<1>3. alloc <= image[SharedDb].seq /\ \A b \in Clients \ {c} : ~(marked[b] /\ pc[b] \in Undoing)
  BY InsertLevel
<1>4. /\ Change(k, Grown(k), TakenBy(k), FramesTaken(k)) /\ Below(image[Db(k)], Grown(k))
      /\ Grown(k) \in Images
  BY <1>2, InsertChange
<1>5. /\ image'[SharedDb] = Grown(k) /\ writer'[SharedDb] = TakenBy(k)
      /\ undo'[k] = FramesTaken(k) /\ pc'[c] = "inserted"
  BY <1>1, <1>2, <1>4, ChangeTouches DEF TypeOK
<1>6. alloc <= image'[SharedDb].seq
  <2>1. image[SharedDb].seq <= Grown(k).seq
    BY <1>2, <1>4 DEF Below
  <2>. QED
    BY <1>2, <1>3, <1>4, <1>5, <2>1, SeededTyped DEF Images
<1>7. TakenBy(k) = k /\ ~marked[c] => alloc <= FramesTaken(k)[1].image.seq
  <2>1. CASE Takes(k)
    <3>1. 1 \in DOMAIN undo[k] /\ undo[k] \in Seq(Frames)
      BY <1>2, <2>1, PartsTyped DEF Takes
    <3>2. Filled(undo[k], image[SharedDb])[1].image = image[SharedDb]
      BY <1>2, <3>1, FilledTyped
    <3>. QED
      BY <1>2, <1>3, <2>1, <3>2 DEF FramesTaken
  <2>2. CASE ~Takes(k)
    BY <1>2, <2>2 DEF FramesTaken, TakenBy
  <2>. QED
    BY <2>1, <2>2
<1>8. marked[c] => TakenBy(k) = k
  BY <1>2 DEF TakenBy
<1>. QED
  BY <1>1, <1>2, <1>3, <1>5, <1>6, <1>7, <1>8 DEF SeesTo, Undoing

\* The acknowledgement of an INSERT: a new maximum is in the image, which the
\* session's transaction may still take back, or is committed.
LEMMA RecordSequence ==
    ASSUME Shared, TypeInv, PairInv, UndoInv, DurableInv, HandedInv, SequenceInv,
           NEW c \in Clients, NEW k \in DriverConns, RecordAllocation(c, k)
    PROVE  SequenceInv'
<1>. DEFINE W == writer[SharedDb]
            I == image[SharedDb]
<1>1. /\ Uses(c, k) /\ pc[c] = "inserted" /\ UNCHANGED <<lease, image, writer, undo>>
      /\ pc' = [pc EXCEPT ![c] = "idle"]
      /\ \/ alloc < newId[c] /\ alloc' = newId[c]
            /\ marked' = [marked EXCEPT ![c] = marked[c] \/ inTrans[c]]
         \/ ~(alloc < newId[c]) /\ UNCHANGED <<alloc, marked>>
  <2>1. newId[c] > alloc <=> alloc < newId[c]
    BY SessionTyped, SeededTyped DEF TypeInv
  <2>. QED
    BY <2>1 DEF RecordAllocation
<1>2. /\ Db(k) = SharedDb /\ SharedDb \in Dbs /\ TypeOK /\ k # NoConn
      /\ I \in Images /\ alloc \in 0..MaxId /\ newId[c] \in 0..MaxId
      /\ marked[c] \in BOOLEAN /\ inTrans[c] \in BOOLEAN
      /\ marked[c] => W = k
      /\ ~Restoring(c)
  BY <1>1, SequenceFound, SessionTyped DEF TypeInv, Undoing
<1>3. /\ \A b \in Clients \ {c} : pc'[b] = pc[b] /\ marked'[b] = marked[b]
      /\ pc'[c] = "idle" /\ "idle" \notin Undoing
      /\ \A b \in Clients, j \in DriverConns : (Uses(b, j))' <=> Uses(b, j)
      /\ \A b \in Clients \ {c} : Restoring(b)' <=> Restoring(b)
  BY <1>1, <1>2 DEF TypeOK, Uses, Undoing, Restoring
<1>4. IF inTrans[c] THEN W = k /\ newId[c] <= I.seq ELSE newId[c] <= Committed(SharedDb).seq
  <2>1. InsertedRow(c, k)
    BY DEF DurableInv
  <2>. QED
    BY <1>1, <1>2, <2>1 DEF InsertedRow
<1>5. Committed(SharedDb) \in Images /\ Below(Committed(SharedDb), I)
  <2>1. Committed(SharedDb) \in Images /\ Below(I, I)
    BY <1>2, CommittedTyped, BelowOrder
  <2>2. W # NoConn => W \in DriverConns /\ Open(W) /\ Db(W) = SharedDb
    BY <1>2 DEF UndoInv, WritersOpen
  <2>3. W # NoConn => Below(undo[W][1].image, I)
    <3>1. SUFFICES ASSUME W # NoConn PROVE Below(undo[W][1].image, I)
      OBVIOUS
    <3>2. Chain(undo[W], I) /\ 1 \in DOMAIN undo[W]
      BY <1>2, <2>2, <3>1, CommittedHere
    <3>. QED
      BY <3>2 DEF Chain
  <2>. QED
    BY <2>1, <2>3 DEF Committed
<1>6. newId[c] <= I.seq
  <2>1. Committed(SharedDb).seq <= I.seq /\ Committed(SharedDb).seq \in Nat /\ I.seq \in Nat
        /\ newId[c] \in Nat
    BY <1>2, <1>5, SeededTyped DEF Below, Images
  <2>. QED
    BY <1>4, <2>1
<1>7. Behind'
  <2>1. CASE alloc' = newId[c]
    BY <1>1, <1>6, <2>1 DEF Behind
  <2>2. CASE alloc' = alloc
    <3>1. alloc <= I.seq \/ \E b \in Clients \ {c} : Restoring(b)
      BY <1>2 DEF SequenceInv, Behind
    <3>. QED
      BY <1>1, <1>3, <2>2, <3>1 DEF Behind
  <2>. QED
    BY <1>1, <2>1, <2>2
<1>8. MarkedHasLock'
  <2>1. ASSUME NEW b \in Clients, marked'[b]
        PROVE  IF pc'[b] \in Undoing THEN W = NoConn
               ELSE \E j \in DriverConns : Uses(b, j) /\ W = j
    <3>1. CASE b = c
      <4>1. marked[c] \/ inTrans[c]
        BY <1>1, <1>2, <2>1, <3>1 DEF TypeOK
      <4>. QED
        BY <1>1, <1>2, <1>3, <1>4, <3>1, <4>1
    <3>2. CASE b # c
      BY <1>3, <2>1, <3>2 DEF SequenceInv, MarkedHasLock
    <3>. QED
      BY <3>1, <3>2
  <2>. QED
    BY <1>1, <1>3, <2>1 DEF MarkedHasLock, Undoing
<1>9. UnmarkedCovered'
  <2>1. ASSUME NEW b \in Clients, NEW j \in DriverConns, Uses(b, j), W = j, ~marked'[b]
        PROVE  alloc' <= undo[j][1].image.seq
    <3>1. ~marked[b]
      BY <1>1, <1>2, <1>3, <2>1 DEF TypeOK
    <3>2. CASE alloc' = alloc
      BY <2>1, <3>1, <3>2 DEF SequenceInv, UnmarkedCovered
    <3>3. CASE alloc' = newId[c] /\ marked' = [marked EXCEPT ![c] = marked[c] \/ inTrans[c]]
      <4>1. ~inTrans[c]
        <5>1. CASE b = c
          BY <1>2, <2>1, <3>3, <5>1 DEF TypeOK
        <5>2. CASE b # c
          <6>1. j # k
            BY <1>1, <2>1, <5>2 DEF PairInv, Exclusive
          <6>. QED
            BY <1>4, <2>1, <6>1
        <5>. QED
          BY <5>1, <5>2
      <4>2. Committed(SharedDb) = undo[j][1].image
        BY <2>1, SessionAssumption DEF Committed
      <4>. QED
        BY <1>4, <3>3, <4>1, <4>2
    <3>. QED
      BY <1>1, <3>2, <3>3
  <2>. QED
    BY <1>1, <1>3, <2>1 DEF UnmarkedCovered
<1>. QED
  BY <1>7, <1>8, <1>9 DEF SequenceInv

\* No other command marks a session.
LEMMA CommandMarks ==
    ASSUME TypeInv, NEW c \in Clients, NEW k \in DriverConns, Command(c, k)
    PROVE  \/ RecordAllocation(c, k)
           \/ /\ \A b \in Clients : marked'[b] => marked[b]
              /\ UNCHANGED <<alloc, handed>>
<1>1. ASSUME NEW s \in Savepoints,
             SetSavepoint(c, k, s) \/ ReleaseSavepoint(c, k, s) \/ RollbackTo(c, k, s)
      PROVE  UNCHANGED marked
  BY <1>1 DEF SetSavepoint, ReleaseSavepoint, RollbackTo, sessionVars
<1>2. \/ RecordAllocation(c, k) \/ marked' = marked \/ marked' = [marked EXCEPT ![c] = FALSE]
  BY <1>1 DEF Command, Begin, Commit, Rollback, FinishRollback, FinishChain,
              FinishRollbackTo, InsertExec
<1>. QED
  BY <1>2, CommandGives DEF TypeInv, TypeOK

LEMMA CommandHandedInv ==
    ASSUME TypeInv, HandedInv, NEW c \in Clients, NEW k \in DriverConns, Command(c, k)
    PROVE  HandedInv'
<1>1. CASE RecordAllocation(c, k)
  <2>1. newId[c] \in Ids /\ alloc \in Nat /\ newId[c] \in Nat /\ TypeOK
        /\ Ids \subseteq Nat /\ 0 \notin Ids
    <3>1. newId[c] \in Ids /\ TypeOK
      BY <1>1 DEF TypeInv, RecordAllocation
    <3>2. alloc \in Nat /\ Ids \subseteq Nat /\ 0 \notin Ids
      BY <3>1, SeededTyped, SessionTyped DEF Ids
    <3>. QED
      BY <3>1, <3>2
  <2>2. /\ alloc <= alloc' /\ newId[c] <= alloc' /\ alloc' \in Nat
        /\ \A b \in Clients : marked'[b] => alloc' > 0
    <3>1. CASE newId[c] > alloc
      BY <1>1, <2>1, <3>1 DEF RecordAllocation
    <3>2. CASE ~(newId[c] > alloc)
      BY <1>1, <2>1, <3>2 DEF RecordAllocation, HandedInv
    <3>. QED
      BY <3>1, <3>2
  <2>3. ASSUME NEW d \in Dbs, NEW id \in handed'[d] PROVE id <= alloc'
    <3>1. id \in handed[d] \cup {newId[c]}
      BY <1>1, <2>1, PartsTyped DEF RecordAllocation, TypeOK
    <3>2. id \in handed[d] => id \in Nat /\ id <= alloc
      BY <2>1 DEF HandedInv, TypeOK
    <3>. QED
      BY <2>1, <2>2, <3>1, <3>2
  <2>. QED
    BY <2>2, <2>3 DEF HandedInv
<1>2. CASE (\A b \in Clients : marked'[b] => marked[b]) /\ UNCHANGED <<alloc, handed>>
  BY <1>2 DEF HandedInv
<1>. QED
  BY <1>1, <1>2, CommandMarks

LEMMA ConnectReuseInv ==
    ASSUME Shared, PoliteInv, Polite, ReuseInv, NEW c \in Clients, NEW k \in DriverConns,
           Connect(c, k) \/ Disconnect(c, k)
    PROVE  ReuseInv' /\ UNCHANGED <<image, raced>>
<1>. USE DEF PoliteInv
<1>1. ~Open(k) /\ UNCHANGED <<writer, undo, pc, newId>>
  BY ConnectPairInv
<1>2. /\ UNCHANGED <<image, alloc, handed, raced>>
  BY DEF Connect, Disconnect, serverVars, history
<1>3. writer[SharedDb] # k
  BY <1>1, SharedHere, SessionAssumption DEF UndoInv, WritersOpen
<1>4. /\ pc[c] = "idle" /\ \A b \in Clients : marked'[b] => marked[b]
      /\ \A b \in Clients \ {c} : marked'[b] = marked[b]
      /\ \A b \in Clients, j \in DriverConns : j # k => ((Uses(b, j))' <=> Uses(b, j))
  <2>1. CASE Connect(c, k)
    <3>1. /\ \A j \in DriverConns : ~Uses(c, j)
          /\ lease' = lease \cup {<<c, k>>} /\ marked' = [marked EXCEPT ![c] = FALSE]
      BY <2>1 DEF Connect, LeaseModel!Grant, LeaseModel!Leasing, Uses
    <3>. QED
      BY <3>1 DEF Uses, PairInv, OpenInUse, Idle, TypeInv, TypeOK
  <2>2. CASE Disconnect(c, k)
    <3>1. Idle(c) /\ lease' = lease \ {<<c, k>>} /\ UNCHANGED marked
      BY <2>2 DEF Disconnect, LeaseModel!GiveBack, sessionVars
    <3>. QED
      BY <3>1 DEF Uses, Idle
  <2>. QED
    BY <2>1, <2>2
<1>5. HandedInv'
  BY <1>2, <1>4 DEF ReuseInv, HandedInv
<1>6. ASSUME ~raced PROVE SequenceInv'
  <2>. USE <1>6 DEF ReuseInv, SequenceInv
  <2>1. Behind'
    <3>1. \A b \in Clients : Restoring(b) => Restoring(b)'
      BY <1>1, <1>4 DEF Restoring
    <3>. QED
      BY <1>2, <3>1 DEF Behind
  <2>2. MarkedHasLock'
    <3>1. ASSUME NEW b \in Clients, marked'[b]
          PROVE  IF pc[b] \in Undoing THEN writer[SharedDb] = NoConn
                 ELSE \E j \in DriverConns : Uses(b, j)' /\ writer[SharedDb] = j
      BY <1>3, <1>4, <3>1 DEF MarkedHasLock
    <3>. QED
      BY <1>1, <3>1 DEF MarkedHasLock, Undoing
  <2>3. UnmarkedCovered'
    <3>1. ASSUME NEW b \in Clients, NEW j \in DriverConns,
                 Uses(b, j)', writer[SharedDb] = j, ~marked'[b]
          PROVE  alloc <= undo[j][1].image.seq
      <4>1. j # k /\ Uses(b, j)
        BY <1>3, <1>4, <3>1
      <4>2. ~marked[b]
        <5>1. CASE b = c
          <6>1. marked[c] => \E i \in DriverConns : Uses(c, i) /\ writer[SharedDb] = i
            BY <1>4 DEF MarkedHasLock, Undoing
          <6>2. ASSUME Connect(c, k) PROVE ~Uses(c, j)
            BY <6>2 DEF Connect, LeaseModel!Grant, LeaseModel!Leasing, Uses
          <6>3. Disconnect(c, k) => UNCHANGED marked
            BY DEF Disconnect, sessionVars
          <6>. QED
            BY <3>1, <4>1, <5>1, <6>2, <6>3
        <5>2. CASE b # c
          BY <1>4, <3>1, <5>2
        <5>. QED
          BY <5>1, <5>2
      <4>. QED
        BY <3>1, <4>1, <4>2 DEF UnmarkedCovered
    <3>. QED
      BY <1>1, <1>2, <3>1 DEF UnmarkedCovered
  <2>. QED
    BY <2>1, <2>2, <2>3
<1>. QED
  BY <1>2, <1>5, <1>6 DEF ReuseInv

LEMMA RacedStays ==
    ASSUME NEW c \in Clients, NEW k \in DriverConns, Command(c, k)
    PROVE  raced => raced'
<1>1. ASSUME NEW s \in Savepoints,
             SetSavepoint(c, k, s) \/ ReleaseSavepoint(c, k, s) \/ RollbackTo(c, k, s)
      PROVE  UNCHANGED raced
  BY <1>1 DEF SetSavepoint, ReleaseSavepoint, RollbackTo, history
<1>2. InsertExec(c, k) => (raced => raced')
  BY Zenon DEF InsertExec
<1>. QED
  BY <1>1, <1>2 DEF Command, Begin, Commit, Rollback, FinishRollback, FinishChain,
                    FinishRollbackTo, RecordAllocation, history

LEMMA ReuseInvStep ==
    ASSUME Polite, Shared PROVE PoliteInv /\ ReuseInv /\ [Next]_vars => ReuseInv'
<1>. SUFFICES ASSUME PoliteInv, ReuseInv, [Next]_vars PROVE ReuseInv'
  OBVIOUS
<1>. USE DEF PoliteInv
<1>1. CASE UNCHANGED vars
  <2>1. UNCHANGED <<lease, image, writer, undo, alloc, marked, pc, handed, raced>>
    BY <1>1 DEF vars, serverVars, sessionVars, history
  <2>. QED
    BY <2>1 DEF ReuseInv, HandedInv, SequenceInv, Behind, Restoring, MarkedHasLock,
                UnmarkedCovered, Undoing, Uses
<1>2. ASSUME NEW c \in Clients, NEW k \in DriverConns, Connect(c, k) \/ Disconnect(c, k)
      PROVE  ReuseInv'
  BY <1>2, ConnectReuseInv
<1>3. ASSUME NEW c \in Clients, NEW k \in DriverConns, Command(c, k)
      PROVE  ReuseInv'
  <2>1. HandedInv' /\ Uses(c, k)
    BY <1>3, CommandHandedInv, RestTyped DEF ReuseInv
  <2>2. ASSUME ~raced' PROVE SequenceInv'
    <3>1. SequenceInv /\ HandedInv
      BY <1>3, <2>2, RacedStays DEF ReuseInv
    <3>2. CASE RecordAllocation(c, k)
      BY <3>1, <3>2, RecordSequence
    <3>3. CASE ~RecordAllocation(c, k)
      <4>1. SeesTo(c, k)
        BY <1>3, <2>1, <2>2, <3>1, <3>3,
           BeginSeesTo, SavepointSeesTo, FinishSeesTo, InsertSeesTo DEF Command, Undoing
      <4>. QED
        BY <1>3, <3>1, <4>1, SeesToSequences
    <3>. QED
      BY <3>2, <3>3
  <2>. QED
    BY <2>1, <2>2 DEF ReuseInv
<1>4. Next => \E c \in Clients, k \in DriverConns :
                 Connect(c, k) \/ Disconnect(c, k) \/ Command(c, k)
  BY Zenon DEF Next, Command
<1>. QED
  BY <1>1, <1>2, <1>3, <1>4

LEMMA ReuseInvariance == ASSUME Polite, Shared PROVE Spec => [](PoliteInv /\ ReuseInv)
<1>1. Init => PoliteInv /\ ReuseInv
  <2>. SUFFICES ASSUME Init PROVE PoliteInv /\ ReuseInv
    OBVIOUS
  <2>1. PoliteInv
    BY InitTypeOK, PoliteInit DEF PoliteInv, TypeInv, Init
  <2>2. HandedInv
    BY DEF Init, HandedInv
  <2>3. SequenceInv
    <3>1. writer[SharedDb] = NoConn /\ alloc = 0 /\ image[SharedDb].seq = 0
          /\ \A c \in Clients : ~marked[c]
      BY SharedHere DEF Init, Seeded
    <3>. QED
      BY <3>1, SessionAssumption DEF SequenceInv, Behind, MarkedHasLock, UnmarkedCovered
  <2>. QED
    BY <2>1, <2>2, <2>3 DEF ReuseInv
<1>2. PoliteInv /\ [Next]_vars => PoliteInv'
  BY PoliteInvStep
<1>3. PoliteInv /\ ReuseInv /\ [Next]_vars => ReuseInv'
  BY ReuseInvStep
<1>. QED
  BY <1>1, <1>2, <1>3, PTL DEF Spec

\* Rows come into a database by INSERT only.
LEMMA OnlyInsertsAdd ==
    ASSUME TypeInv, UndoInv, Shared, NEW c \in Clients, NEW k \in DriverConns, Command(c, k)
    PROVE  InsertExec(c, k) \/ Inserted(SharedDb) = {}
<1>1. /\ TypeOK /\ Db(k) = SharedDb /\ SharedDb \in Dbs /\ image[SharedDb] \in Images
      /\ alloc \in 0..MaxId /\ image \in [Dbs -> Images]
  BY SharedHere, SessionTyped, PartsTyped DEF TypeInv, TypeOK
<1>2. \A i \in DOMAIN undo[k] : Back(k, i).rows \subseteq image[SharedDb].rows
  BY <1>1, CommittedHere DEF Back, Chain, Below
<1>3. RestoredImage(c, k).rows = image[SharedDb].rows
  BY <1>1, RaisedTyped DEF RestoredImage
<1>4. CASE image' = image
  BY <1>4 DEF Inserted
<1>5. ASSUME NEW then \in Undoing, Rollback(c, k, then) PROVE Inserted(SharedDb) = {}
  <2>1. 1 \in DOMAIN undo[k]
    BY <1>1, <1>5, PartsTyped DEF Rollback
  <2>2. image'[SharedDb] = Back(k, 1)
    BY <1>1, <1>5, RollbackChange, ChangeTouches DEF Undoing
  <2>. QED
    BY <1>2, <2>1, <2>2 DEF Inserted
<1>6. ASSUME NEW s \in Savepoints, RollbackTo(c, k, s) PROVE Inserted(SharedDb) = {}
  <2>1. \E i \in DOMAIN undo[k] : image'[SharedDb] = Back(k, i)
    BY <1>1, <1>6, RollbackToChange, ChangeTouches
  <2>. QED
    BY <1>2, <2>1 DEF Inserted
<1>7. CASE FinishRollback(c, k) \/ FinishChain(c, k) \/ FinishRollbackTo(c, k)
  <2>1. image'[SharedDb] \in {image[SharedDb], RestoredImage(c, k)}
    <3>1. \A img, w, fs : Change(k, img, w, fs) => image'[SharedDb] = img
      BY <1>1 DEF Change
    <3>2. \/ \E w, fs : Change(k, RestoredImage(c, k), w, fs)
          \/ \E w, fs : Change(k, image[SharedDb], w, fs)
      <4>1. CASE FinishRollback(c, k)
        BY <1>1, <4>1, FinishRollbackChange
      <4>2. CASE FinishChain(c, k)
        BY <1>1, <4>2, FinishChainChange
      <4>3. CASE FinishRollbackTo(c, k)
        BY <1>1, <4>3, FinishRollbackToChange
      <4>. QED
        BY <1>7, <4>1, <4>2, <4>3
    <3>. QED
      BY <3>1, <3>2
  <2>. QED
    BY <1>3, <2>1 DEF Inserted
<1>8. ASSUME NEW s \in Savepoints, SetSavepoint(c, k, s) \/ ReleaseSavepoint(c, k, s)
      PROVE  image' = image
  BY <1>8 DEF SetSavepoint, ReleaseSavepoint
<1>. QED
  BY <1>4, <1>5, <1>6, <1>7, <1>8
     DEF Command, Undoing, Begin, Commit, RecordAllocation

\* With one database for all sessions, and clients that open transactions with
\* BEGIN and end them before they leave, an AUTO_INCREMENT value that a client
\* was given never comes back, unless an INSERT fell between another session's
\* ROLLBACK and its restore of sqlite_sequence.
THEOREM NoValueComesBack == ASSUME Polite, Shared PROVE Spec => NoReuseUnlessRaced
<1>1. ASSUME PoliteInv, ReuseInv, [Next]_vars
      PROVE  [raced' \/ \A d \in Dbs : handed[d] \cap Inserted(d) = {}]_vars
  <2>. USE DEF PoliteInv
  <2>1. SUFFICES ASSUME ~raced', Next PROVE handed[SharedDb] \cap Inserted(SharedDb) = {}
    BY <1>1, SharedHere
  <2>2. PICK c \in Clients, k \in DriverConns :
           Connect(c, k) \/ Disconnect(c, k) \/ Command(c, k)
    BY <2>1, Zenon DEF Next, Command
  <2>3. CASE Connect(c, k) \/ Disconnect(c, k)
    BY <1>1, <2>3, ConnectReuseInv DEF Inserted
  <2>4. CASE Command(c, k) /\ ~InsertExec(c, k)
    BY <1>1, <2>4, OnlyInsertsAdd
  <2>5. CASE InsertExec(c, k)
    <3>1. Command(c, k) /\ ~raced /\ SequenceInv /\ HandedInv
      BY <1>1, <2>1, <2>5, RacedStays DEF Command, ReuseInv
    <3>2. alloc <= image[SharedDb].seq
      BY <1>1, <2>1, <2>5, <3>1, InsertLevel
    <3>3. /\ TypeOK /\ Db(k) = SharedDb /\ SharedDb \in Dbs /\ image[SharedDb] \in Images
          /\ alloc \in 0..MaxId
      BY <1>1, SharedHere, SessionTyped, PartsTyped DEF TypeInv
    <3>4. image'[SharedDb] = Grown(k)
      BY <2>5, <3>3, InsertChange, ChangeTouches
    <3>5. Inserted(SharedDb) \subseteq {image[SharedDb].seq + 1}
      BY <3>3, <3>4 DEF Inserted, Grown, NextValue
    <3>6. \A id \in handed[SharedDb] : id \in Nat /\ id <= alloc
      BY <3>1, <3>3, SeededTyped DEF HandedInv, TypeOK, Ids
    <3>. QED
      BY <3>2, <3>3, <3>5, <3>6, SeededTyped DEF Images
  <2>. QED
    BY <2>2, <2>3, <2>4, <2>5
<1>. QED
  BY <1>1, ReuseInvariance, PTL DEF Spec, NoReuseUnlessRaced

=============================================================================
