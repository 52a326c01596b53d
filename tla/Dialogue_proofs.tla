--------------------------- MODULE Dialogue_proofs ---------------------------
(***************************************************************************)
(* Theorems about Dialogue, for clients with and without EOF packets, any  *)
(* number of columns, rows, parameters, statements and commands, and any   *)
(* modulus of the sequence numbers above two.                              *)
(*                                                                         *)
(* What is still to come from the server, on its way or not yet written,   *)
(* is one sequence of packets, Coming.  Turns says for each state of the   *)
(* client what Coming is: the rest of an answer, numbered from the number  *)
(* the client expects, or nothing.  A step of the server lengthens the     *)
(* sequence only when it is empty; a step of the client takes its head,    *)
(* and what remains is what the next state of the client wants.            *)
(*                                                                         *)
(* Agreement is about the statements.  The client changes its own table    *)
(* when it sends a command, the server its when it handles it; so the      *)
(* invariant has a table for every command on its way, the server's when   *)
(* it has handled the command, and the last one is the client's.           *)
(***************************************************************************)
EXTENDS Dialogue, TLAPS, Integers, SequenceTheorems

-----------------------------------------------------------------------------
(* The inductive invariant.                                                *)

\* What a client sends.
Bound == [types : Types \cup {Unbound}, long : [Params -> 0..MaxPieces]]
Commands ==
    [kind : {"response", "simple", "resetConn", "unsupported", "quit", "query", "prepare"}]
      \cup [kind : {"execute"}, id : Ids, types : Types \cup {Unbound}, args : Bound]
      \cup [kind : {"long"}, id : Ids, param : Params]
      \cup [kind : {"close", "reset"}, id : Ids]

\* Commands that are not answered, and those that are.
Silent == {"long", "close"}
Requests == {"simple", "resetConn", "unsupported", "query", "execute", "reset"}

\* What the client has still to read of a response.
Coming == toClient \o out

\* The handler writes exactly while there are packets of a response left, and
\* then is where it was to be.
Writing ==
    /\ srv = "writing" <=> out # <<>>
    /\ srv \in {"auth", "command", "closed"} => srv = then
    /\ srv = "greet" => then = "auth"

\* The packets of r are numbered from seq on.
InSequence(r, seq) == \A i \in 1..Len(r) : r[i].seq = (seq + i - 1) % SeqNumbers

Definitions == IF dep THEN 0 ELSE 1   \* EOF packets after column definitions

\* r is the rest of a result set: n definitions, e EOF packets, and rows up to
\* an EOF or an error, or, when it is cut, up to the close.
ResultComes(r, n, e, next) ==
    /\ n + e <= Len(r)
    /\ \A i \in 1..Len(r) :
          /\ i <= n => r[i].kind = "column"
          /\ n < i /\ i <= n + e => r[i].kind = "eof"
          /\ n + e < i /\ i < Len(r) => r[i].kind = "row"
    /\ next = "closed" => (n + e < Len(r) => r[Len(r)].kind = "row")
    /\ next # "closed" => n + e < Len(r) /\ r[Len(r)].kind \in {"eof", "err"}

\* r is the rest of the answer to a COM_STMT_PREPARE: n definitions, e EOF packets.
ParamsCome(r, n, e) ==
    /\ Len(r) = n + e
    /\ \A i \in 1..Len(r) : r[i].kind = (IF i <= n THEN "column" ELSE "eof")

Cut == then = "closed"

\* r is the answer to a request, nothing before a close, one packet or a result
\* set; or the answer to a COM_STMT_PREPARE, and the statement is as it says.
AnswerComes(r) ==
    \/ r = <<>> /\ Cut
    \/ Len(r) = 1 /\ r[1].kind \in {"ok", "err"} /\ ~Cut
    \/ /\ r # <<>> /\ r[1].kind = "count" /\ (r[1].n > 0 \/ strange)
       /\ ResultComes(Tail(r), r[1].n, Definitions, then)

PreparedComes(r) ==
    \/ Len(r) = 1 /\ r[1].kind = "err"
    \/ /\ r # <<>> /\ r[1].kind = "prepared"
       /\ r[1].id \in Ids /\ r[1].id < nextId
       /\ r[1].n \in 0..MaxParams /\ stmts[r[1].id] = Prepared(r[1].n)
       /\ ParamsCome(Tail(r), r[1].n, IF r[1].n > 0 THEN Definitions ELSE 0)

\* A request of these kinds is on its way, or it was read and is answered.
Asked(kinds) ==
    /\ srv = "command" /\ Coming = <<>> /\ cseq = 1
    /\ toServer # <<>> /\ toServer[Len(toServer)].kind \in kinds

Answered ==
    /\ toServer = <<>> /\ srv \notin {"greet", "auth"} /\ then \in {"command", "closed"}
    /\ InSequence(Coming, cseq) \/ strange

\* Where the server is and what comes from it, by what the client waits for.
Turns ==
    /\ cl = "greeting" =>
          /\ toServer = <<>>
          /\ \/ srv = "greet" /\ Coming = <<>>
             \/ srv \in {"writing", "auth"} /\ then = "auth" /\ Coming = <<Packet("greeting")>>
    /\ cl = "auth" =>
          /\ cseq = 2
          /\ \/ srv = "auth" /\ toServer = <<[kind |-> "response"]>> /\ Coming = <<>>
             \/ /\ Answered /\ InSequence(Coming, cseq) /\ Len(Coming) = 1
                /\ \/ Coming[1].kind = "ok" /\ ~Cut
                   \/ Coming[1].kind = "err" /\ Cut
    /\ cl = "header" => Asked(Requests) \/ (Answered /\ AnswerComes(Coming))
    /\ cl = "columns" => Answered /\ left > 0 /\ ResultComes(Coming, left, Definitions, then)
    /\ cl = "columnsEOF" => Answered /\ ResultComes(Coming, 0, 1, then)
    /\ cl = "rows" => Answered /\ ResultComes(Coming, 0, 0, then)
    /\ cl = "prepare" => Asked({"prepare"}) \/ (Answered /\ ~Cut /\ PreparedComes(Coming))
    /\ cl = "params" => Answered /\ ~Cut /\ left > 0 /\ ParamsCome(Coming, left, Definitions)
    /\ cl = "paramsEOF" => Answered /\ ~Cut /\ ParamsCome(Coming, 0, 1)
    /\ cl = "idle" =>
          /\ srv = "command" /\ Coming = <<>>
          /\ \A i \in 1..Len(toServer) : toServer[i].kind \in Silent
    /\ cl = "lost" => strange

\* Whatever is answered is sent last; a new statement has an id left.
InOrder ==
    /\ \A i \in 1..Len(toServer) : i < Len(toServer) => toServer[i].kind \in Silent
    /\ \A i \in 1..Len(toServer) : toServer[i].kind = "prepare" => nextId <= MaxPrepares

\* The server's statements when it has handled command c.
Handled(c, table) ==
    CASE c.kind = "execute" /\ table[c.id].open ->
            [table EXCEPT ![c.id] = AfterDecode(@, c.types)]
      [] c.kind = "long" /\ table[c.id].open -> [table EXCEPT ![c.id].long[c.param] = @ + 1]
      [] c.kind = "close" -> [table EXCEPT ![c.id] = Closed]
      [] c.kind = "reset" /\ table[c.id].open -> [table EXCEPT ![c.id].long = NoPieces]
      [] OTHER -> table

\* An execute comes with the arguments that the server will use.
RightlyBound(c, table) ==
    c.kind = "execute" /\ table[c.id].open =>
        LET types == AfterDecode(table[c.id], c.types).types IN
        \/ table[c.id].params > 0 /\ types = Unbound
        \/ Arguments(types, table[c.id].long) = c.args

\* What the client knows of its statements is so.
Known(table) ==
    \A i \in Ids : known[i].open => known[i] = table[i] /\ i < nextId

\* The server's statements as the commands on their way will make them.
Tables(h) ==
    /\ h \in [0..Len(toServer) -> StatementTable]
    /\ h[0] = stmts
    /\ \A i \in 0..Len(toServer) : ~h[i][0].open
    /\ \A i \in 1..Len(toServer) :
          /\ h[i] = Handled(toServer[i], h[i - 1])
          /\ RightlyBound(toServer[i], h[i - 1])

Agreement ==
    /\ ~misbound
    /\ \E h : Tables(h) /\ (cl \notin Ended => Known(h[Len(toServer)]))

Typed == TypeOK /\ toServer \in Seq(Commands)

DialogueInv == Typed /\ Writing /\ InOrder /\ Turns /\ Agreement

-----------------------------------------------------------------------------
(* Numbers modulo SeqNumbers.                                              *)

\* The remainder of a number that is written with one.
LEMMA Remainder ==
    ASSUME NEW N \in Nat, N > 2, NEW q \in Nat, NEW r \in 0..(N - 1)
    PROVE  (q * N + r) % N = r
OBVIOUS

\* Every number is written with its remainder.
LEMMA Quotient ==
    ASSUME NEW N \in Nat, N > 2, NEW x \in Nat
    PROVE  \E q \in Nat : x = q * N + (x % N)
<1>1. x = N * (x \div N) + (x % N) /\ x \div N \in Nat
  OBVIOUS
<1>2. PICK q \in Nat : q = x \div N
  BY <1>1
<1>3. N * q = q * N
  OBVIOUS
<1>. QED
  BY <1>1, <1>2, <1>3

\* A number may be reduced before something is added, as a byte that is counted up is.
LEMMA ModuloAdd ==
    ASSUME NEW N \in Nat, N > 2, NEW x \in Nat, NEW y \in Nat
    PROVE  ((x % N) + y) % N = (x + y) % N
<1>1. PICK r \in 0..(N - 1) : r = x % N
  OBVIOUS
<1>2. PICK q \in Nat : x = q * N + r
  BY <1>1, Quotient
<1>3. PICK z \in Nat : z = r + y
  OBVIOUS
<1>4. PICK s \in 0..(N - 1) : s = z % N
  OBVIOUS
<1>5. PICK p \in Nat : z = p * N + s
  BY <1>4, Quotient
<1>6. PICK t \in Nat : t = q + p
  OBVIOUS
<1>7. x + y = t * N + s
  <2>1. t * N = q * N + p * N
    BY <1>6
  <2>2. PICK a, b \in Nat : a = q * N /\ b = p * N
    OBVIOUS
  <2>. QED
    BY <1>2, <1>3, <1>5, <2>1, <2>2
<1>8. (x + y) % N = s
  BY <1>7, Remainder
<1>. QED
  BY <1>1, <1>3, <1>4, <1>8

\* Sequence numbers.
LEMMA SeqType ==
    /\ SeqNumbers \in Nat /\ SeqNumbers > 2
    /\ \A x \in Nat : x % SeqNumbers \in 0..(SeqNumbers - 1)
    /\ \A x \in 0..(SeqNumbers - 1) : x % SeqNumbers = x
    /\ 1 % SeqNumbers = 1 /\ 2 % SeqNumbers = 2
<1>1. PICK N \in Nat : N = SeqNumbers /\ N > 2
  BY DialogueAssumption
<1>2. \A x \in Nat : x % N \in 0..(N - 1)
  BY <1>1
<1>3. \A x \in 0..(N - 1) : x % N = x
  OBVIOUS
<1>4. 1 % N = 1 /\ 2 % N = 2
  BY <1>1
<1>. QED
  BY <1>1, <1>2, <1>3, <1>4

-----------------------------------------------------------------------------
(* Sequences of packets.                                                   *)

\* Handing over the head of b, the packet written, does not change the whole.
LEMMA WriteNext ==
    ASSUME NEW S, NEW a \in Seq(S), NEW b \in Seq(S), b # <<>>
    PROVE  /\ Append(a, Head(b)) \in Seq(S) /\ Tail(b) \in Seq(S)
           /\ Append(a, Head(b)) \o Tail(b) = a \o b
           /\ Tail(b) = <<>> <=> Len(b) = 1
<1>1. /\ Head(b) \in S /\ Tail(b) \in Seq(S) /\ Head(b) = b[1] /\ Len(Tail(b)) = Len(b) - 1
      /\ Len(b) \in Nat \ {0} /\ Len(a) \in Nat
      /\ \A i \in 1..Len(Tail(b)) : Tail(b)[i] = b[i + 1]
  BY HeadTailProperties, EmptySeq, LenProperties
<1>2. /\ Append(a, Head(b)) \in Seq(S) /\ Len(Append(a, Head(b))) = Len(a) + 1
      /\ \A i \in 1..Len(a) : Append(a, Head(b))[i] = a[i]
      /\ Append(a, Head(b))[Len(a) + 1] = Head(b)
  BY <1>1, AppendProperties
<1>. DEFINE u == Append(a, Head(b))
            v == Tail(b)
<1>. HIDE DEF u, v
<1>3. u \in Seq(S) /\ v \in Seq(S) /\ Len(u) = Len(a) + 1 /\ Len(v) = Len(b) - 1
      /\ (\A i \in 1..Len(a) : u[i] = a[i]) /\ u[Len(a) + 1] = b[1]
      /\ \A i \in 1..Len(v) : v[i] = b[i + 1]
  BY <1>1, <1>2 DEF u, v
<1>4. /\ u \o v \in Seq(S) /\ Len(u \o v) = Len(u) + Len(v)
      /\ \A i \in 1..(Len(u) + Len(v)) : (u \o v)[i] = IF i <= Len(u) THEN u[i] ELSE v[i - Len(u)]
      /\ a \o b \in Seq(S) /\ Len(a \o b) = Len(a) + Len(b)
      /\ \A i \in 1..(Len(a) + Len(b)) : (a \o b)[i] = IF i <= Len(a) THEN a[i] ELSE b[i - Len(a)]
  BY <1>3, ConcatProperties
<1>5. PICK m \in Nat, n \in Nat : m = Len(a) /\ n + 1 = Len(b)
  <2>1. PICK m \in Nat, k \in Nat \ {0} : m = Len(a) /\ k = Len(b)
    BY <1>1
  <2>2. k - 1 \in Nat /\ (k - 1) + 1 = k
    OBVIOUS
  <2>. QED
    BY <2>1, <2>2
<1>6. ASSUME NEW i \in 1..(m + n + 1) PROVE (u \o v)[i] = (a \o b)[i]
  <2>1. i \in 1..(Len(u) + Len(v)) /\ i \in 1..(Len(a) + Len(b))
    BY <1>3, <1>5
  <2>2. CASE i <= m
    BY <1>3, <1>4, <1>5, <2>1, <2>2
  <2>3. CASE i = m + 1
    BY <1>3, <1>4, <1>5, <2>1, <2>3
  <2>4. CASE i > m + 1
    <3>0. PICK j \in 1..n : i = j + (m + 1)
      <4>1. i - (m + 1) \in 1..n /\ i = (i - (m + 1)) + (m + 1)
        BY <2>4
      <4>. QED
        BY <4>1
    <3>1. (u \o v)[i] = v[j]
      <4>1. i - (m + 1) = j /\ ~(i <= m + 1)
        BY <3>0
      <4>. QED
        BY <1>3, <1>4, <1>5, <2>1, <4>1
    <3>2. v[j] = b[j + 1]
      BY <1>3, <1>5
    <3>3. (a \o b)[i] = b[j + 1]
      <4>1. i - m = j + 1 /\ ~(i <= m)
        BY <3>0
      <4>. QED
        BY <1>4, <1>5, <2>1, <4>1
    <3>. QED
      BY <3>1, <3>2, <3>3
  <2>5. i <= m \/ i = m + 1 \/ i > m + 1
    OBVIOUS
  <2>. QED
    BY <2>2, <2>3, <2>4, <2>5
<1>7. u \o v = a \o b
  <2>1. Len(u \o v) = m + n + 1 /\ Len(a \o b) = m + n + 1
    <3>1. Len(u) = m + 1 /\ Len(v) = n
      <4>1. (n + 1) - 1 = n
        OBVIOUS
      <4>. QED
        BY <1>3, <1>5, <4>1
    <3>2. (m + 1) + n = m + n + 1 /\ m + (n + 1) = m + n + 1
      OBVIOUS
    <3>. QED
      BY <1>4, <1>5, <3>1, <3>2
  <2>2. PICK s, t : s = u \o v /\ t = a \o b
    OBVIOUS
  <2>. QED
    BY <1>4, <1>6, <2>1, <2>2, SeqEqual
<1>8. v = <<>> <=> Len(b) = 1
  BY <1>3, <1>5, EmptySeq
<1>. QED
  BY <1>1, <1>2, <1>7, <1>8 DEF u, v

\* Taking the head of a, the packet read, takes the head of the whole.
LEMMA ReadNext ==
    ASSUME NEW S, NEW a \in Seq(S), NEW b \in Seq(S), a # <<>>
    PROVE  /\ Tail(a) \in Seq(S) /\ Head(a) \in S
           /\ a \o b \in Seq(S) /\ a \o b # <<>>
           /\ Tail(a) \o b = Tail(a \o b)
           /\ Head(a) = (a \o b)[1]
<1>1. /\ Head(a) \in S /\ Tail(a) \in Seq(S) /\ Head(a) = a[1] /\ Len(Tail(a)) = Len(a) - 1
      /\ Len(a) \in Nat \ {0} /\ Len(b) \in Nat
      /\ \A i \in 1..Len(Tail(a)) : Tail(a)[i] = a[i + 1]
  BY HeadTailProperties, EmptySeq, LenProperties
<1>2. PICK r, t : r = a \o b /\ t = Tail(a)
  OBVIOUS
<1>3. /\ r \in Seq(S) /\ Len(r) = Len(a) + Len(b)
      /\ \A i \in 1..(Len(a) + Len(b)) : r[i] = IF i <= Len(a) THEN a[i] ELSE b[i - Len(a)]
  BY <1>2, ConcatProperties
<1>4. r # <<>>
  BY <1>1, <1>3, EmptySeq
<1>5. /\ Tail(r) \in Seq(S) /\ Len(Tail(r)) = Len(r) - 1
      /\ \A i \in 1..Len(Tail(r)) : Tail(r)[i] = r[i + 1]
  BY <1>3, <1>4, HeadTailProperties
<1>6. /\ t \o b \in Seq(S) /\ Len(t \o b) = Len(t) + Len(b)
      /\ \A i \in 1..(Len(t) + Len(b)) : (t \o b)[i] = IF i <= Len(t) THEN t[i] ELSE b[i - Len(t)]
  BY <1>1, <1>2, ConcatProperties
<1>7. PICK m \in Nat, n \in Nat : m + 1 = Len(a) /\ n = Len(b) /\ Len(t) = m
  <2>1. PICK k \in Nat \ {0}, n \in Nat : k = Len(a) /\ n = Len(b)
    BY <1>1
  <2>2. k - 1 \in Nat /\ (k - 1) + 1 = k
    OBVIOUS
  <2>. QED
    BY <1>1, <1>2, <2>1, <2>2
<1>8. ASSUME NEW i \in 1..(m + n) PROVE (t \o b)[i] = Tail(r)[i]
  <2>1. i \in 1..(Len(t) + Len(b)) /\ i \in 1..Len(Tail(r)) /\ i + 1 \in 1..(Len(a) + Len(b))
    BY <1>3, <1>5, <1>7
  <2>2. CASE i <= m
    BY <1>1, <1>2, <1>3, <1>5, <1>6, <1>7, <2>1, <2>2
  <2>3. CASE i > m
    <3>1. (t \o b)[i] = b[i - m]
      BY <1>6, <1>7, <2>1, <2>3
    <3>2. Tail(r)[i] = b[(i + 1) - (m + 1)]
      <4>1. ~(i + 1 <= m + 1)
        BY <2>3
      <4>2. r[i + 1] = b[(i + 1) - (m + 1)]
        BY <1>3, <1>7, <2>1, <4>1
      <4>. QED
        BY <1>5, <2>1, <4>2
    <3>3. (i + 1) - (m + 1) = i - m
      OBVIOUS
    <3>. QED
      BY <3>1, <3>2, <3>3
  <2>4. i <= m \/ i > m
    OBVIOUS
  <2>. QED
    BY <2>2, <2>3, <2>4
<1>9. t \o b = Tail(r)
  BY <1>3, <1>5, <1>6, <1>7, <1>8, SeqEqual
<1>10. r[1] = a[1]
  BY <1>1, <1>3
<1>. QED
  BY <1>1, <1>2, <1>3, <1>4, <1>9, <1>10

\* The whole is empty when both parts are.
LEMMA NothingComing ==
    ASSUME NEW S, NEW a \in Seq(S), NEW b \in Seq(S)
    PROVE  /\ a \o b = <<>> <=> a = <<>> /\ b = <<>>
           /\ a = <<>> => a \o b = b
           /\ b = <<>> => a \o b = a
BY ConcatEqualIffEmpty, ConcatEmptySeq

\* The rest of a numbered sequence is numbered from the next number on.
LEMMA RestInSequence ==
    ASSUME NEW r \in Seq(Packets), r # <<>>, NEW c \in 0..(SeqNumbers - 1), InSequence(r, c)
    PROVE  r[1].seq = c /\ InSequence(Tail(r), (c + 1) % SeqNumbers)
<1>1. /\ Len(r) \in Nat \ {0} /\ Len(Tail(r)) = Len(r) - 1
      /\ \A i \in 1..Len(Tail(r)) : Tail(r)[i] = r[i + 1]
  BY EmptySeq, HeadTailProperties
<1>2. r[1].seq = (c + 1 - 1) % SeqNumbers
  BY <1>1 DEF InSequence
<1>3. c + 1 - 1 = c /\ c % SeqNumbers = c
  BY SeqType
<1>4. ASSUME NEW i \in 1..Len(Tail(r))
      PROVE  Tail(r)[i].seq = (((c + 1) % SeqNumbers) + i - 1) % SeqNumbers
  <2>1. i \in Nat \ {0} /\ i + 1 \in 1..Len(r) /\ c + 1 \in Nat /\ i - 1 \in Nat
    BY <1>1, SeqType
  <2>2. Tail(r)[i].seq = (c + (i + 1) - 1) % SeqNumbers
    BY <1>1, <2>1 DEF InSequence
  <2>3. c + (i + 1) - 1 = (c + 1) + (i - 1)
    BY <2>1, SeqType
  <2>4. ((c + 1) % SeqNumbers) + i - 1 = ((c + 1) % SeqNumbers) + (i - 1)
    <3>1. (c + 1) % SeqNumbers \in Nat
      BY <2>1, SeqType
    <3>. QED
      BY <2>1, <3>1
  <2>5. (((c + 1) % SeqNumbers) + (i - 1)) % SeqNumbers = ((c + 1) + (i - 1)) % SeqNumbers
    BY <2>1, SeqType, ModuloAdd
  <2>. QED
    BY <2>2, <2>3, <2>4, <2>5
<1>. QED
  BY <1>2, <1>3, <1>4 DEF InSequence
-----------------------------------------------------------------------------
(* The shapes of responses.                                                *)

\* Functions on 1..n are sequences.
LEMMA SeqOf ==
    ASSUME NEW S, NEW n \in Nat, NEW f \in [1..n -> S]
    PROVE  f \in Seq(S) /\ Len(f) = n
<1>2. f \in Seq(S)
  BY SeqDef
<1>3. DOMAIN f = 1..n /\ DOMAIN f = 1..Len(f) /\ Len(f) \in Nat
  BY <1>2, LenProperties
<1>4. PICK m \in Nat : m = Len(f)
  BY <1>3
<1>5. 1..n = 1..m
  BY <1>3, <1>4
<1>6. n = m
  BY <1>5
<1>. QED
  BY <1>2, <1>4, <1>6

\* What the writers make is a packet.
LEMMA PacketType ==
    ASSUME NEW kind \in Kinds, NEW n \in Nat, NEW id \in Nat
    PROVE  /\ Packet(kind) \in Packets
           /\ [Packet(kind) EXCEPT !.n = n] \in Packets
           /\ [Packet(kind) EXCEPT !.n = n, !.id = id] \in Packets
<1>1. 0 \in 0..(SeqNumbers - 1) /\ 0 \in Nat
  BY SeqType
<1>. QED
  BY <1>1 DEF Packet, Packets

\* A numbered sequence is the sequence but for its numbers.
LEMMA NumberedShape ==
    ASSUME NEW p \in Seq(Packets), NEW seq \in Nat \ {0}, NEW r, r = Numbered(p, seq)
    PROVE  /\ r \in Seq(Packets) /\ Len(r) = Len(p) /\ InSequence(r, seq)
           /\ \A i \in 1..Len(p) : r[i].kind = p[i].kind /\ r[i].n = p[i].n /\ r[i].id = p[i].id
<1>1. PICK n \in Nat : n = Len(p)
  BY LenProperties
<1>2. \A i \in 1..n : p[i] \in Packets
  BY <1>1, ElementOfSeq
<1>3. \A i \in 1..n : (seq + i - 1) % SeqNumbers \in 0..(SeqNumbers - 1)
  <2>. TAKE i \in 1..n
  <2>1. seq + i - 1 \in Nat
    OBVIOUS
  <2>. QED
    BY <2>1, SeqType
<1>4. /\ r = [i \in 1..n |-> r[i]]
      /\ \A i \in 1..n : r[i] = [p[i] EXCEPT !.seq = (seq + i - 1) % SeqNumbers]
  BY <1>1 DEF Numbered
<1>5. \A i \in 1..n :
        /\ r[i] \in Packets
        /\ r[i].kind = p[i].kind /\ r[i].n = p[i].n /\ r[i].id = p[i].id
        /\ r[i].seq = (seq + i - 1) % SeqNumbers
  <2>. TAKE i \in 1..n
  <2>1. PICK c \in 0..(SeqNumbers - 1) : c = (seq + i - 1) % SeqNumbers
    BY <1>3
  <2>2. p[i] \in Packets /\ r[i] = [p[i] EXCEPT !.seq = c]
    BY <1>2, <1>4, <2>1
  <2>3. PICK q \in Packets : q = p[i]
    BY <2>2
  <2>4. [q EXCEPT !.seq = c] \in Packets
    BY DEF Packets
  <2>5. /\ [q EXCEPT !.seq = c].kind = q.kind /\ [q EXCEPT !.seq = c].n = q.n
        /\ [q EXCEPT !.seq = c].id = q.id /\ [q EXCEPT !.seq = c].seq = c
    BY DEF Packets
  <2>. QED
    BY <2>1, <2>2, <2>3, <2>4, <2>5
<1>6. r \in Seq(Packets) /\ Len(r) = n
  <2>1. r \in [1..n -> Packets]
    BY <1>4, <1>5
  <2>. QED
    BY <2>1, SeqOf
<1>. QED
  BY <1>1, <1>5, <1>6 DEF InSequence

\* n times the same.
LEMMA RepeatShape ==
    ASSUME NEW S, NEW n \in Nat, NEW p \in S, NEW r, r = Repeat(n, p)
    PROVE  r \in Seq(S) /\ Len(r) = n
<1>1. r \in [1..n -> S]
  BY DEF Repeat
<1>. QED
  BY <1>1, SeqOf

\* A sequence of one.
LEMMA One ==
    ASSUME NEW S, NEW p \in S, NEW r, r = <<p>>
    PROVE  r \in Seq(S) /\ Len(r) = 1 /\ r[1] = p
OBVIOUS

\* Two sequences put together.
LEMMA Joined ==
    ASSUME NEW S, NEW m \in Nat, NEW n \in Nat, NEW a \in Seq(S), NEW b \in Seq(S),
           Len(a) = m, Len(b) = n, NEW c, c = a \o b
    PROVE  /\ c \in Seq(S) /\ Len(c) = m + n
           /\ \A i \in 1..(m + n) : c[i] = IF i <= m THEN a[i] ELSE b[i - m]
BY ConcatProperties

\* A packet, n column definitions, and e EOF packets.
Heading(r, first, n, e) ==
    /\ r \in Seq(Packets) /\ Len(r) = 1 + n + e /\ r[1] = first
    /\ \A i \in 1..(1 + n + e) :
          /\ 1 < i /\ i <= 1 + n => r[i].kind = "column"
          /\ 1 + n < i => r[i].kind = "eof"

\* First packet, definitions and EOF, put together.
LEMMA HeadingShape ==
    ASSUME NEW first \in Packets, NEW n \in Nat, NEW e \in {0, 1}, NEW end,
           end = (IF e = 0 THEN <<>> ELSE <<Packet("eof")>>), NEW r,
           r = <<first>> \o Repeat(n, Packet("column")) \o end
    PROVE  Heading(r, first, n, e)
<1>1. /\ Packet("column") \in Packets /\ Packet("eof") \in Packets
      /\ Packet("column").kind = "column" /\ Packet("eof").kind = "eof"
  BY PacketType DEF Kinds, Packet
<1>2. PICK a : a = <<first>>
  OBVIOUS
<1>3. a \in Seq(Packets) /\ Len(a) = 1 /\ a[1] = first
  BY <1>2, One
<1>4. PICK b : b = Repeat(n, Packet("column"))
  OBVIOUS
<1>5. b \in Seq(Packets) /\ Len(b) = n /\ \A i \in 1..n : b[i].kind = "column"
  <2>1. PICK col \in Packets : col = Packet("column") /\ col.kind = "column"
    BY <1>1
  <2>2. b = Repeat(n, col)
    BY <1>4, <2>1
  <2>3. b \in Seq(Packets) /\ Len(b) = n
    BY <2>2, RepeatShape
  <2>4. \A i \in 1..n : b[i] = col
    BY <2>2 DEF Repeat
  <2>. QED
    BY <2>1, <2>3, <2>4
<1>6. end \in Seq(Packets) /\ Len(end) = e /\ \A i \in 1..e : end[i].kind = "eof"
  <2>1. CASE e = 0
    <3>1. end = <<>>
      BY <2>1
    <3>2. end \in Seq(Packets) /\ Len(end) = 0
      BY <3>1, EmptySeq
    <3>. QED
      BY <2>1, <3>2
  <2>2. CASE e = 1
    <3>1. end = <<Packet("eof")>>
      BY <2>2
    <3>2. end \in Seq(Packets) /\ Len(end) = 1 /\ end[1] = Packet("eof")
      BY <1>1, <3>1, One
    <3>. QED
      BY <1>1, <2>2, <3>2
  <2>. QED
    BY <2>1, <2>2
<1>7. PICK c : c = a \o b
  OBVIOUS
<1>8. /\ c \in Seq(Packets) /\ Len(c) = 1 + n
      /\ \A i \in 1..(1 + n) : c[i] = IF i <= 1 THEN a[i] ELSE b[i - 1]
  <2>1. PICK k \in Nat : k = 1
    OBVIOUS
  <2>2. /\ c \in Seq(Packets) /\ Len(c) = k + n
        /\ \A i \in 1..(k + n) : c[i] = IF i <= k THEN a[i] ELSE b[i - k]
    <3>1. /\ a \in Seq(Packets) /\ b \in Seq(Packets) /\ Len(a) = k /\ Len(b) = n
          /\ c = a \o b
      BY <1>3, <1>5, <1>7, <2>1
    <3>. QED
      BY <3>1, Joined
  <2>. QED
    BY <2>1, <2>2
<1>9. /\ r \in Seq(Packets) /\ Len(r) = (1 + n) + e
      /\ \A i \in 1..((1 + n) + e) : r[i] = IF i <= 1 + n THEN c[i] ELSE end[i - (1 + n)]
  <2>1. r = c \o end
    BY <1>2, <1>4, <1>7
  <2>2. PICK k \in Nat : k = 1 + n
    OBVIOUS
  <2>3. PICK l \in Nat : l = e
    OBVIOUS
  <2>4. /\ r \in Seq(Packets) /\ Len(r) = k + l
        /\ \A i \in 1..(k + l) : r[i] = IF i <= k THEN c[i] ELSE end[i - k]
    <3>1. PICK z : z = end
      OBVIOUS
    <3>2. /\ c \in Seq(Packets) /\ z \in Seq(Packets) /\ Len(c) = k /\ Len(z) = l
      BY <1>6, <1>8, <2>2, <2>3, <3>1
    <3>3. PICK d : d = c \o z
      OBVIOUS
    <3>4. /\ d \in Seq(Packets) /\ Len(d) = k + l
          /\ \A i \in 1..(k + l) : d[i] = IF i <= k THEN c[i] ELSE z[i - k]
      BY <3>2, <3>3, Joined
    <3>5. r = d
      BY <2>1, <3>1, <3>3
    <3>. QED
      BY <3>1, <3>4, <3>5
  <2>. QED
    BY <2>2, <2>3, <2>4
<1>10. r[1] = first
  BY <1>3, <1>8, <1>9
<1>11. ASSUME NEW i \in 1..(1 + n + e), 1 < i, i <= 1 + n PROVE r[i].kind = "column"
  <2>1. r[i] = b[i - 1] /\ i - 1 \in 1..n
    BY <1>8, <1>9, <1>11
  <2>. QED
    BY <1>5, <2>1
<1>12. ASSUME NEW i \in 1..(1 + n + e), 1 + n < i PROVE r[i].kind = "eof"
  <2>1. r[i] = end[i - (1 + n)] /\ i - (1 + n) \in 1..e
    BY <1>9, <1>12
  <2>. QED
    BY <1>6, <2>1
<1>. QED
  BY <1>9, <1>10, <1>11, <1>12 DEF Heading
\* r starts with the head of a result set and m rows.
Rows(r, n, e, m) ==
    /\ r \in Seq(Packets) /\ 1 + n + e + m <= Len(r)
    /\ r[1].kind = "count" /\ r[1].n = n
    /\ \A i \in 1..(1 + n + e + m) :
          /\ 1 < i /\ i <= 1 + n => r[i].kind = "column"
          /\ 1 + n < i /\ i <= 1 + n + e => r[i].kind = "eof"
          /\ 1 + n + e < i => r[i].kind = "row"

\* Nothing but those, or one more packet.
OnlyRows(r, n, e, m) == Rows(r, n, e, m) /\ Len(r) = 1 + n + e + m
RowsAnd(r, n, e, m, p) == Rows(r, n, e, m) /\ Len(r) = 2 + n + e + m /\ r[Len(r)] = p

\* The rows behind a heading.
LEMMA RowsShape ==
    ASSUME NEW n \in Nat, NEW e \in {0, 1}, NEW m \in Nat, NEW first \in Packets,
           first.kind = "count", first.n = n, NEW h, Heading(h, first, n, e),
           NEW r, r = h \o Repeat(m, Packet("row"))
    PROVE  OnlyRows(r, n, e, m)
<1>1. PICK row \in Packets : row = Packet("row") /\ row.kind = "row"
  <2>1. "row" \in Kinds /\ 0 \in Nat
    BY DEF Kinds
  <2>2. Packet("row") \in Packets /\ Packet("row").kind = "row"
    BY <2>1, PacketType DEF Packet
  <2>. QED
    BY <2>2
<1>2. PICK b : b = Repeat(m, row)
  OBVIOUS
<1>3. b \in Seq(Packets) /\ Len(b) = m
  BY <1>2, RepeatShape
<1>4. \A i \in 1..m : b[i] = row
  BY <1>2 DEF Repeat
<1>5. PICK k \in Nat : k = 1 + n + e
  OBVIOUS
<1>6. h \in Seq(Packets) /\ Len(h) = k
  BY <1>5 DEF Heading
<1>7. PICK z, c : z = h /\ c = z \o b
  OBVIOUS
<1>8. /\ c \in Seq(Packets) /\ Len(c) = k + m
      /\ \A i \in 1..(k + m) : c[i] = IF i <= k THEN h[i] ELSE b[i - k]
  <2>1. /\ z \in Seq(Packets) /\ Len(z) = k
        /\ b \in Seq(Packets) /\ Len(b) = m /\ c = z \o b
    BY <1>3, <1>6, <1>7
  <2>2. /\ c \in Seq(Packets) /\ Len(c) = k + m
        /\ \A i \in 1..(k + m) : c[i] = IF i <= k THEN z[i] ELSE b[i - k]
    BY <2>1, Joined
  <2>. QED
    BY <1>7, <2>2
<1>9. c = r
  BY <1>1, <1>2, <1>7
<1>10. /\ h[1] = first
       /\ \A i \in 1..k :
             /\ 1 < i /\ i <= 1 + n => h[i].kind = "column"
             /\ 1 + n < i => h[i].kind = "eof"
  BY <1>5 DEF Heading
<1>11. ASSUME NEW i \in 1..(k + m)
       PROVE  /\ 1 < i /\ i <= 1 + n => c[i].kind = "column"
              /\ 1 + n < i /\ i <= k => c[i].kind = "eof"
              /\ k < i => c[i].kind = "row"
  <2>1. CASE i <= k
    <3>1. i \in 1..k /\ ~(k < i)
      BY <1>5, <2>1
    <3>2. c[i] = h[i]
      BY <1>8, <2>1
    <3>. QED
      BY <1>10, <3>1, <3>2
  <2>2. CASE k < i
    <3>1. PICK j \in 1..m : j = i - k
      BY <2>2
    <3>2. c[i] = b[j]
      <4>1. ~(i <= k)
        BY <1>5, <2>2
      <4>2. c[i] = IF i <= k THEN h[i] ELSE b[i - k]
        BY <1>8
      <4>. QED
        BY <3>1, <4>1, <4>2
    <3>. QED
      BY <1>1, <1>4, <1>5, <2>2, <3>2
  <2>. QED
    BY <2>1, <2>2
<1>12. c[1] = first
  BY <1>5, <1>8, <1>10
<1>13. PICK l \in Nat : l = k + m
  OBVIOUS
<1>14. l = 1 + n + e + m
  BY <1>5, <1>13
<1>. QED
  BY <1>5, <1>8, <1>9, <1>11, <1>12, <1>13, <1>14 DEF Rows, OnlyRows

\* The last packet behind the rows.
LEMMA RowsAndEnd ==
    ASSUME NEW n \in Nat, NEW e \in {0, 1}, NEW m \in Nat, NEW a,
           OnlyRows(a, n, e, m), NEW b \in Seq(Packets), Len(b) = 1, NEW r, r = a \o b
    PROVE  RowsAnd(r, n, e, m, b[1])
<1>1. PICK k \in Nat, l \in Nat : k = 1 + n + e + m /\ l = 1
  OBVIOUS
<1>2. a \in Seq(Packets) /\ Len(a) = k /\ Len(b) = l
  BY <1>1 DEF Rows, OnlyRows
<1>3. PICK y, z, c : y = a /\ z = b /\ c = y \o z
  OBVIOUS
<1>4. /\ c \in Seq(Packets) /\ Len(c) = k + l
      /\ \A i \in 1..(k + l) : c[i] = IF i <= k THEN a[i] ELSE b[i - k]
  <2>1. /\ y \in Seq(Packets) /\ Len(y) = k
        /\ z \in Seq(Packets) /\ Len(z) = l /\ c = y \o z
    BY <1>2, <1>3
  <2>2. /\ c \in Seq(Packets) /\ Len(c) = Len(y) + Len(z)
        /\ \A i \in 1..(Len(y) + Len(z)) : c[i] = IF i <= Len(y) THEN y[i] ELSE z[i - Len(y)]
    BY <2>1, ConcatProperties
  <2>. QED
    BY <1>3, <2>1, <2>2
<1>5. c = r
  BY <1>3
<1>6. \A i \in 1..k : c[i] = a[i]
  BY <1>4
<1>7. c[k + 1] = b[1]
  <2>1. k + 1 \in 1..(k + l) /\ ~(k + 1 <= k) /\ (k + 1) - k = 1
    BY <1>1
  <2>. QED
    BY <1>4, <2>1
<1>8. k >= 1 /\ c[1] = a[1] /\ k + l = k + 1 /\ k + 1 = 2 + n + e + m
  BY <1>1, <1>6
<1>9. Rows(c, n, e, m)
  BY <1>1, <1>4, <1>6, <1>8 DEF Rows, OnlyRows
<1>. QED
  BY <1>2, <1>4, <1>5, <1>6, <1>7, <1>8, <1>9 DEF RowsAnd

\* Numbering changes nothing but the numbers.
LEMMA NumberedRows ==
    ASSUME NEW n \in Nat, NEW e \in {0, 1}, NEW m \in Nat, NEW p, Rows(p, n, e, m),
           NEW r, r = Numbered(p, 1)
    PROVE  Rows(r, n, e, m)
<1>1. p \in Seq(Packets)
  BY DEF Rows
<1>2. PICK k \in Nat, l \in Nat : k = 1 + n + e + m /\ l = Len(p)
  <2>1. PICK k \in Nat : k = 1 + n + e + m
    OBVIOUS
  <2>2. PICK l \in Nat : l = Len(p)
    BY <1>1, LenProperties
  <2>. QED
    BY <2>1, <2>2
<1>3. PICK c : c = Numbered(p, 1)
  OBVIOUS
<1>4. /\ c \in Seq(Packets) /\ Len(c) = l
      /\ \A i \in 1..l : c[i].kind = p[i].kind /\ c[i].n = p[i].n
  BY <1>1, <1>2, <1>3, NumberedShape
<1>5. k <= l /\ 1 <= l /\ 1 \in 1..l
  BY <1>2 DEF Rows
<1>6. c[1].kind = "count" /\ c[1].n = n
  BY <1>4, <1>5 DEF Rows
<1>7. \A i \in 1..k : c[i].kind = p[i].kind
  BY <1>4, <1>5
<1>8. Rows(c, n, e, m)
  BY <1>2, <1>4, <1>5, <1>6, <1>7 DEF Rows
<1>. QED
  BY <1>3, <1>8

\* A result set that is cut.
LEMMA RowsCome ==
    ASSUME NEW n \in Nat, NEW e \in {0, 1}, NEW m \in Nat, NEW r, Rows(r, n, e, m),
           Len(r) = 1 + n + e + m
    PROVE  r # <<>> /\ ResultComes(Tail(r), n, e, "closed")
<1>1. PICK k \in Nat : k = n + e + m
  OBVIOUS
<1>2. r \in Seq(Packets) /\ Len(r) = k + 1
  BY <1>1 DEF Rows
<1>3. r # <<>>
  BY <1>2, EmptySeq
<1>4. PICK t : t = Tail(r)
  OBVIOUS
<1>5. t \in Seq(Packets) /\ Len(t) = k /\ \A i \in 1..k : t[i] = r[i + 1]
  <2>1. (k + 1) - 1 = k
    OBVIOUS
  <2>. QED
    BY <1>2, <1>3, <1>4, <2>1, HeadTailProperties
<1>6. ASSUME NEW i \in 1..k
      PROVE  /\ i <= n => t[i].kind = "column"
             /\ n < i /\ i <= n + e => t[i].kind = "eof"
             /\ n + e < i => t[i].kind = "row"
  <2>1. PICK j \in 1..(1 + n + e + m) : j = i + 1
    BY <1>1
  <2>2. t[i] = r[j]
    BY <1>5, <2>1
  <2>. QED
    BY <2>1, <2>2 DEF Rows
<1>7. n + e <= k
  BY <1>1
<1>8. n + e < k => t[k].kind = "row"
  BY <1>6
<1>9. ResultComes(t, n, e, "closed")
  BY <1>5, <1>6, <1>7, <1>8 DEF ResultComes
<1>. QED
  BY <1>3, <1>4, <1>9

\* A result set to its end.
LEMMA RowsAndEndCome ==
    ASSUME NEW n \in Nat, NEW e \in {0, 1}, NEW m \in Nat, NEW r, Rows(r, n, e, m),
           Len(r) = 2 + n + e + m, r[Len(r)].kind \in {"eof", "err"}
    PROVE  r # <<>> /\ ResultComes(Tail(r), n, e, "command")
<1>1. PICK k \in Nat : k = n + e + m
  OBVIOUS
<1>2. r \in Seq(Packets) /\ Len(r) = k + 2
  BY <1>1 DEF Rows
<1>3. r # <<>>
  BY <1>2, EmptySeq
<1>4. PICK t : t = Tail(r)
  OBVIOUS
<1>5. t \in Seq(Packets) /\ Len(t) = k + 1 /\ \A i \in 1..(k + 1) : t[i] = r[i + 1]
  <2>1. (k + 2) - 1 = k + 1
    OBVIOUS
  <2>. QED
    BY <1>2, <1>3, <1>4, <2>1, HeadTailProperties
<1>6. ASSUME NEW i \in 1..k
      PROVE  /\ i <= n => t[i].kind = "column"
             /\ n < i /\ i <= n + e => t[i].kind = "eof"
             /\ n + e < i => t[i].kind = "row"
  <2>1. PICK j \in 1..(1 + n + e + m) : j = i + 1
    BY <1>1
  <2>2. t[i] = r[j]
    BY <1>5, <2>1
  <2>. QED
    BY <2>1, <2>2 DEF Rows
<1>7. n + e < k + 1 /\ n + e <= k
  BY <1>1
<1>8. t[k + 1].kind \in {"eof", "err"}
  <2>1. k + 1 \in 1..(k + 1) /\ (k + 1) + 1 = k + 2
    OBVIOUS
  <2>2. t[k + 1] = r[k + 2]
    BY <1>5, <2>1
  <2>. QED
    BY <1>2, <2>2
<1>9. ResultComes(t, n, e, "command")
  <2>1. PICK l \in Nat : l = k + 1
    OBVIOUS
  <2>2. ASSUME NEW i \in 1..l
        PROVE  /\ i <= n => t[i].kind = "column"
               /\ n < i /\ i <= n + e => t[i].kind = "eof"
               /\ n + e < i /\ i < l => t[i].kind = "row"
    <3>1. CASE i <= k
      BY <1>6, <3>1
    <3>2. CASE i = l
      BY <1>7, <2>1, <3>2
    <3>. QED
      BY <2>1, <3>1, <3>2
  <2>. QED
    BY <1>5, <1>7, <1>8, <2>1, <2>2 DEF ResultComes
<1>. QED
  BY <1>3, <1>4, <1>9
\* DefinitionsEnd is as many packets as Definitions says.
LEMMA DefinitionsType ==
    ASSUME dep \in BOOLEAN
    PROVE  /\ Definitions \in {0, 1}
           /\ DefinitionsEnd = IF Definitions = 0 THEN <<>> ELSE <<Packet("eof")>>
BY DEF Definitions, DefinitionsEnd

\* An answer of one packet.
LEMMA SingleShape ==
    ASSUME NEW kind \in Kinds, NEW seq \in Nat \ {0}, NEW r, r = Numbered(<<Packet(kind)>>, seq)
    PROVE  /\ r \in Seq(Packets) /\ Len(r) = 1 /\ r # <<>> /\ r[1].kind = kind
           /\ InSequence(r, seq)
<1>1. PICK p \in Packets : p = Packet(kind) /\ p.kind = kind
  <2>1. 0 \in Nat
    OBVIOUS
  <2>2. Packet(kind) \in Packets /\ Packet(kind).kind = kind
    BY <2>1, PacketType DEF Packet
  <2>. QED
    BY <2>2
<1>2. PICK a : a = <<p>>
  OBVIOUS
<1>3. a \in Seq(Packets) /\ Len(a) = 1 /\ a[1] = p
  BY <1>2, One
<1>4. PICK c : c = Numbered(a, seq)
  OBVIOUS
<1>5. /\ c \in Seq(Packets) /\ Len(c) = Len(a) /\ InSequence(c, seq)
      /\ \A i \in 1..Len(a) : c[i].kind = a[i].kind
  BY <1>3, <1>4, NumberedShape
<1>6. c[1].kind = kind /\ Len(c) = 1
  BY <1>1, <1>3, <1>5
<1>7. c # <<>>
  BY <1>5, <1>6, EmptySeq
<1>8. c = r
  BY <1>1, <1>2, <1>4
<1>. QED
  BY <1>5, <1>6, <1>7, <1>8

\* Columns and rows.
LEMMA ColumnsAndRows ==
    ASSUME dep \in BOOLEAN, NEW n \in Nat, NEW m \in Nat, NEW r,
           r = Columns(n) \o Repeat(m, Packet("row"))
    PROVE  OnlyRows(r, n, Definitions, m)
<1>1. PICK e \in {0, 1} : e = Definitions
  BY DefinitionsType
<1>2. PICK first \in Packets :
         first = [Packet("count") EXCEPT !.n = n] /\ first.kind = "count" /\ first.n = n
  <2>1. "count" \in Kinds /\ 0 \in Nat
    BY DEF Kinds
  <2>2. [Packet("count") EXCEPT !.n = n] \in Packets
    BY <2>1, PacketType
  <2>3. /\ [Packet("count") EXCEPT !.n = n].kind = "count"
        /\ [Packet("count") EXCEPT !.n = n].n = n
    BY DEF Packet
  <2>. QED
    BY <2>2, <2>3
<1>3. PICK end : end = IF e = 0 THEN <<>> ELSE <<Packet("eof")>>
  OBVIOUS
<1>4. PICK h : h = <<first>> \o Repeat(n, Packet("column")) \o end
  OBVIOUS
<1>5. Heading(h, first, n, e)
  BY <1>3, <1>4, HeadingShape
<1>6. h = Columns(n)
  <2>1. DefinitionsEnd = end
    BY <1>1, <1>3, DefinitionsType
  <2>. QED
    BY <1>2, <1>4, <2>1 DEF Columns
<1>7. PICK s : s = h \o Repeat(m, Packet("row"))
  OBVIOUS
<1>8. OnlyRows(s, n, e, m)
  BY <1>2, <1>5, <1>7, RowsShape
<1>9. s = r
  BY <1>6, <1>7
<1>. QED
  BY <1>1, <1>8, <1>9

\* An answer to a request: numbered from 1, with a count of columns in front.
Counted(r, n, next) ==
    /\ r \in Seq(Packets) /\ r # <<>>
    /\ r[1].kind = "count" /\ r[1].n = n
    /\ ResultComes(Tail(r), n, Definitions, next)

\* HandleQuery's result that ends with the connection.
LEMMA CutShape ==
    ASSUME dep \in BOOLEAN, NEW n \in Nat, NEW m \in Nat, NEW r,
           r = Numbered(Columns(n) \o Repeat(m, Packet("row")), 1)
    PROVE  Counted(r, n, "closed") /\ InSequence(r, 1)
<1>1. PICK e \in {0, 1} : e = Definitions
  BY DefinitionsType
<1>2. PICK p : p = Columns(n) \o Repeat(m, Packet("row"))
  OBVIOUS
<1>3. OnlyRows(p, n, e, m) /\ Rows(p, n, e, m) /\ Len(p) = 1 + n + e + m
  BY <1>1, <1>2, ColumnsAndRows DEF OnlyRows
<1>4. PICK q : q = Numbered(p, 1)
  OBVIOUS
<1>5. Rows(q, n, e, m)
  BY <1>3, <1>4, NumberedRows
<1>6. q \in Seq(Packets) /\ Len(q) = Len(p) /\ InSequence(q, 1)
  <2>1. p \in Seq(Packets)
    BY <1>3 DEF Rows
  <2>. QED
    BY <1>4, <2>1, NumberedShape
<1>7. q # <<>> /\ ResultComes(Tail(q), n, e, "closed")
  BY <1>3, <1>5, <1>6, RowsCome
<1>8. q[1].kind = "count" /\ q[1].n = n
  BY <1>5 DEF Rows
<1>9. q = r
  BY <1>2, <1>4
<1>. QED
  BY <1>1, <1>6, <1>7, <1>8, <1>9 DEF Counted

\* writeResultSet and writeBinaryResultSet, both kinds of last packet.
LEMMA ResultSetShape ==
    ASSUME dep \in BOOLEAN, NEW n \in Nat, NEW m \in Nat, NEW r,
           r = Numbered(ResultSet(n, m), 1)
    PROVE  Counted(r, n, "command") /\ InSequence(r, 1)
<1>1. PICK e \in {0, 1} : e = Definitions
  BY DefinitionsType
<1>2. PICK a : a = Columns(n) \o Repeat(m, Packet("row"))
  OBVIOUS
<1>3. OnlyRows(a, n, e, m)
  BY <1>1, <1>2, ColumnsAndRows
<1>4. PICK b : b = <<Packet("eof")>>
  OBVIOUS
<1>5. b \in Seq(Packets) /\ Len(b) = 1 /\ b[1].kind = "eof"
  <2>1. "eof" \in Kinds /\ 0 \in Nat
    BY DEF Kinds
  <2>2. Packet("eof") \in Packets /\ Packet("eof").kind = "eof"
    BY <2>1, PacketType DEF Packet
  <2>. QED
    BY <1>4, <2>2, One
<1>6. PICK p : p = a \o b
  OBVIOUS
<1>7. Rows(p, n, e, m) /\ Len(p) = 2 + n + e + m /\ p[Len(p)] = b[1]
  <2>1. RowsAnd(p, n, e, m, b[1])
    BY <1>3, <1>5, <1>6, RowsAndEnd
  <2>. QED
    BY <2>1 DEF RowsAnd
<1>8. PICK q : q = Numbered(p, 1)
  OBVIOUS
<1>9. Rows(q, n, e, m)
  BY <1>7, <1>8, NumberedRows
<1>10. /\ q \in Seq(Packets) /\ Len(q) = Len(p) /\ InSequence(q, 1)
       /\ \A i \in 1..Len(p) : q[i].kind = p[i].kind
  <2>1. p \in Seq(Packets)
    BY <1>7 DEF Rows
  <2>. QED
    BY <1>8, <2>1, NumberedShape
<1>11. q[Len(q)].kind = "eof"
  <2>1. PICK k \in Nat : k = 2 + n + e + m
    OBVIOUS
  <2>2. k \in 1..Len(p) /\ Len(p) = k
    BY <1>7, <2>1
  <2>. QED
    BY <1>5, <1>7, <1>10, <2>2
<1>12. q # <<>> /\ ResultComes(Tail(q), n, e, "command")
  <2>1. Len(q) = 2 + n + e + m /\ q[Len(q)].kind \in {"eof", "err"}
    BY <1>7, <1>10, <1>11
  <2>. QED
    BY <1>9, <2>1, RowsAndEndCome
<1>13. q[1].kind = "count" /\ q[1].n = n
  BY <1>9 DEF Rows
<1>14. q = r
  BY <1>2, <1>4, <1>6, <1>8 DEF ResultSet
<1>. QED
  BY <1>1, <1>10, <1>12, <1>13, <1>14 DEF Counted

\* Rows up to one that is too long, and an error numbered 1 again.
LEMMA HugeRowShape ==
    ASSUME dep \in BOOLEAN, NEW n \in Nat, NEW m \in Nat, NEW r,
           r = Numbered(Columns(n) \o Repeat(m, Packet("row")), 1)
                 \o Numbered(<<Packet("err")>>, 1)
    PROVE  Counted(r, n, "command")
<1>1. PICK e \in {0, 1} : e = Definitions
  BY DefinitionsType
<1>2. PICK p : p = Columns(n) \o Repeat(m, Packet("row"))
  OBVIOUS
<1>3. OnlyRows(p, n, e, m) /\ Rows(p, n, e, m) /\ Len(p) = 1 + n + e + m
  BY <1>1, <1>2, ColumnsAndRows DEF OnlyRows
<1>4. PICK a : a = Numbered(p, 1)
  OBVIOUS
<1>5. Rows(a, n, e, m) /\ Len(a) = 1 + n + e + m
  <2>1. p \in Seq(Packets)
    BY <1>3 DEF Rows
  <2>2. Len(a) = Len(p)
    BY <1>4, <2>1, NumberedShape
  <2>. QED
    BY <1>3, <1>4, <2>2, NumberedRows
<1>6. PICK b : b = Numbered(<<Packet("err")>>, 1)
  OBVIOUS
<1>7. b \in Seq(Packets) /\ Len(b) = 1 /\ b[1].kind = "err"
  <2>1. "err" \in Kinds /\ 1 \in Nat \ {0}
    BY DEF Kinds
  <2>. QED
    BY <1>6, <2>1, SingleShape
<1>8. PICK q : q = a \o b
  OBVIOUS
<1>9. Rows(q, n, e, m) /\ Len(q) = 2 + n + e + m /\ q[Len(q)] = b[1]
  <2>1. OnlyRows(a, n, e, m)
    BY <1>5 DEF OnlyRows
  <2>2. RowsAnd(q, n, e, m, b[1])
    BY <1>7, <1>8, <2>1, RowsAndEnd
  <2>. QED
    BY <2>2 DEF RowsAnd
<1>10. q # <<>> /\ ResultComes(Tail(q), n, e, "command")
  <2>1. q[Len(q)].kind \in {"eof", "err"}
    BY <1>7, <1>9
  <2>. QED
    BY <1>9, <2>1, RowsAndEndCome
<1>11. q \in Seq(Packets) /\ q[1].kind = "count" /\ q[1].n = n
  BY <1>9 DEF Rows
<1>12. q = r
  BY <1>2, <1>4, <1>6, <1>8
<1>. QED
  BY <1>1, <1>10, <1>11, <1>12 DEF Counted

\* The answer to a COM_STMT_PREPARE: the statement, and its parameters.
PreparedReply(r, id, n) ==
    /\ r \in Seq(Packets) /\ r # <<>>
    /\ r[1].kind = "prepared" /\ r[1].id = id /\ r[1].n = n
    /\ ParamsCome(Tail(r), n, IF n > 0 THEN Definitions ELSE 0)

\* handleStmtPrepare.
LEMMA PrepareShape ==
    ASSUME dep \in BOOLEAN, NEW id \in Nat, NEW n \in Nat, NEW r,
           r = Numbered(PrepareReply(id, n), 1)
    PROVE  PreparedReply(r, id, n) /\ InSequence(r, 1)
<1>1. PICK e \in {0, 1} : e = IF n > 0 THEN Definitions ELSE 0
  BY DefinitionsType
<1>2. PICK first \in Packets :
         /\ first = [Packet("prepared") EXCEPT !.n = n, !.id = id]
         /\ first.kind = "prepared" /\ first.n = n /\ first.id = id
  <2>1. "prepared" \in Kinds
    BY DEF Kinds
  <2>2. [Packet("prepared") EXCEPT !.n = n, !.id = id] \in Packets
    BY <2>1, PacketType
  <2>3. /\ [Packet("prepared") EXCEPT !.n = n, !.id = id].kind = "prepared"
        /\ [Packet("prepared") EXCEPT !.n = n, !.id = id].n = n
        /\ [Packet("prepared") EXCEPT !.n = n, !.id = id].id = id
    BY DEF Packet
  <2>. QED
    BY <2>2, <2>3
<1>3. PICK end : end = IF e = 0 THEN <<>> ELSE <<Packet("eof")>>
  OBVIOUS
<1>4. PICK h : h = <<first>> \o Repeat(n, Packet("column")) \o end
  OBVIOUS
<1>5. Heading(h, first, n, e)
  BY <1>3, <1>4, HeadingShape
<1>6. h = PrepareReply(id, n)
  <2>1. end = IF n > 0 THEN DefinitionsEnd ELSE <<>>
    BY <1>1, <1>3, DefinitionsType
  <2>. QED
    BY <1>2, <1>4, <2>1 DEF PrepareReply
<1>7. PICK k \in Nat : k = n + e
  OBVIOUS
<1>8. h \in Seq(Packets) /\ Len(h) = k + 1 /\ h[1] = first
  BY <1>5, <1>7 DEF Heading
<1>9. PICK q : q = Numbered(h, 1)
  OBVIOUS
<1>10. /\ q \in Seq(Packets) /\ Len(q) = k + 1 /\ InSequence(q, 1)
       /\ \A i \in 1..(k + 1) : q[i].kind = h[i].kind /\ q[i].n = h[i].n /\ q[i].id = h[i].id
  <2>1. /\ q \in Seq(Packets) /\ Len(q) = Len(h) /\ InSequence(q, 1)
        /\ \A i \in 1..Len(h) : q[i].kind = h[i].kind /\ q[i].n = h[i].n /\ q[i].id = h[i].id
    BY <1>8, <1>9, NumberedShape
  <2>. QED
    BY <1>8, <2>1
<1>11. q # <<>>
  BY <1>10, EmptySeq
<1>12. PICK t : t = Tail(q)
  OBVIOUS
<1>13. t \in Seq(Packets) /\ Len(t) = k /\ \A i \in 1..k : t[i] = q[i + 1]
  <2>1. (k + 1) - 1 = k
    OBVIOUS
  <2>. QED
    BY <1>10, <1>11, <1>12, <2>1, HeadTailProperties
<1>14. ASSUME NEW i \in 1..k PROVE t[i].kind = IF i <= n THEN "column" ELSE "eof"
  <2>1. PICK j \in 1..(k + 1) : j = i + 1
    OBVIOUS
  <2>2. t[i].kind = h[j].kind
    BY <1>10, <1>13, <2>1
  <2>3. k + 1 = 1 + n + e
    BY <1>7
  <2>4. CASE i <= n
    <3>1. 1 < j /\ j <= 1 + n
      BY <2>1, <2>4
    <3>. QED
      BY <1>5, <2>2, <2>3, <2>4, <3>1 DEF Heading
  <2>5. CASE ~(i <= n)
    <3>1. 1 + n < j
      BY <2>1, <2>5
    <3>. QED
      BY <1>5, <2>2, <2>3, <2>5, <3>1 DEF Heading
  <2>. QED
    BY <2>4, <2>5
<1>15. ParamsCome(t, n, e)
  BY <1>7, <1>13, <1>14 DEF ParamsCome
<1>16. q[1].kind = "prepared" /\ q[1].n = n /\ q[1].id = id
  <2>1. 1 \in 1..(k + 1)
    OBVIOUS
  <2>. QED
    BY <1>2, <1>8, <1>10, <2>1
<1>17. q = r
  BY <1>6, <1>9
<1>. QED
  BY <1>1, <1>10, <1>11, <1>12, <1>15, <1>16, <1>17 DEF PreparedReply
-----------------------------------------------------------------------------
(* Responses read packet by packet.                                        *)

\* What remains of a sequence.
LEMMA RestOf ==
    ASSUME NEW S, NEW r \in Seq(S), NEW k \in Nat, Len(r) = k + 1, NEW t, t = Tail(r)
    PROVE  t \in Seq(S) /\ Len(t) = k /\ \A i \in 1..k : t[i] = r[i + 1]
<1>1. r # <<>>
  BY EmptySeq
<1>2. (k + 1) - 1 = k
  OBVIOUS
<1>. QED
  BY <1>1, <1>2, HeadTailProperties

\* A column definition is read where one is expected.
LEMMA DefinitionRead ==
    ASSUME NEW r \in Seq(Packets), NEW n \in Nat \ {0}, NEW e \in {0, 1}, NEW next,
           ResultComes(r, n, e, next)
    PROVE  r[1].kind = "column" /\ ResultComes(Tail(r), n - 1, e, next)
<1>1. PICK l \in Nat : l = Len(r)
  BY LenProperties
<1>2. PICK p \in Nat : p = n - 1
  OBVIOUS
<1>3. n = p + 1
  BY <1>2
<1>4. n + e <= l
  BY <1>1 DEF ResultComes
<1>5. PICK k \in Nat : l = k + 1
  <2>1. l - 1 \in Nat /\ (l - 1) + 1 = l
    BY <1>4
  <2>. QED
    BY <2>1
<1>6. PICK t : t = Tail(r)
  OBVIOUS
<1>7. Len(t) = k /\ \A i \in 1..k : t[i] = r[i + 1]
  <2>1. Len(r) = k + 1
    BY <1>1, <1>5
  <2>. QED
    BY <1>6, <2>1, RestOf
<1>8. /\ \A i \in 1..(k + 1) :
            /\ i <= p + 1 => r[i].kind = "column"
            /\ p + 1 < i /\ i <= p + 1 + e => r[i].kind = "eof"
            /\ p + 1 + e < i /\ i < k + 1 => r[i].kind = "row"
      /\ next = "closed" => (p + 1 + e < k + 1 => r[k + 1].kind = "row")
      /\ next # "closed" => p + 1 + e < k + 1 /\ r[k + 1].kind \in {"eof", "err"}
  BY <1>1, <1>3, <1>5 DEF ResultComes
<1>9. r[1].kind = "column"
  <2>1. 1 \in 1..(k + 1) /\ 1 <= p + 1
    OBVIOUS
  <2>. QED
    BY <1>8, <2>1
<1>10. ASSUME NEW i \in 1..k
       PROVE  /\ i <= p => t[i].kind = "column"
              /\ p < i /\ i <= p + e => t[i].kind = "eof"
              /\ p + e < i /\ i < k => t[i].kind = "row"
  <2>1. PICK j \in 1..(k + 1) : j = i + 1
    OBVIOUS
  <2>2. t[i] = r[j]
    BY <1>7, <2>1
  <2>. QED
    BY <1>8, <2>1, <2>2
<1>11. p + e < k => k \in 1..k /\ t[k] = r[k + 1]
  BY <1>7
<1>12. ResultComes(t, p, e, next)
  <2>1. p + e <= k
    BY <1>3, <1>4, <1>5
  <2>. QED
    BY <1>7, <1>8, <1>10, <1>11, <2>1 DEF ResultComes
<1>. QED
  BY <1>2, <1>6, <1>9, <1>12

\* The EOF packet is read after the definitions.
LEMMA DefinitionsEndRead ==
    ASSUME NEW r \in Seq(Packets), NEW next, ResultComes(r, 0, 1, next)
    PROVE  r[1].kind = "eof" /\ ResultComes(Tail(r), 0, 0, next)
<1>1. PICK l \in Nat : l = Len(r)
  BY LenProperties
<1>2. 1 <= l
  BY <1>1 DEF ResultComes
<1>3. PICK k \in Nat : l = k + 1
  <2>1. l - 1 \in Nat /\ (l - 1) + 1 = l
    BY <1>2
  <2>. QED
    BY <2>1
<1>4. PICK t : t = Tail(r)
  OBVIOUS
<1>5. Len(t) = k /\ \A i \in 1..k : t[i] = r[i + 1]
  <2>1. Len(r) = k + 1
    BY <1>1, <1>3
  <2>. QED
    BY <1>4, <2>1, RestOf
<1>6. /\ \A i \in 1..(k + 1) :
            /\ 0 < i /\ i <= 1 => r[i].kind = "eof"
            /\ 1 < i /\ i < k + 1 => r[i].kind = "row"
      /\ next = "closed" => (1 < k + 1 => r[k + 1].kind = "row")
      /\ next # "closed" => 1 < k + 1 /\ r[k + 1].kind \in {"eof", "err"}
  BY <1>1, <1>3 DEF ResultComes
<1>7. r[1].kind = "eof"
  <2>1. 1 \in 1..(k + 1)
    OBVIOUS
  <2>. QED
    BY <1>6, <2>1
<1>8. ASSUME NEW i \in 1..k PROVE i < k => t[i].kind = "row"
  <2>1. PICK j \in 1..(k + 1) : j = i + 1
    OBVIOUS
  <2>2. t[i] = r[j]
    BY <1>5, <2>1
  <2>. QED
    BY <1>6, <2>1, <2>2
<1>9. 0 < k => k \in 1..k /\ t[k] = r[k + 1]
  BY <1>5
<1>10. ResultComes(t, 0, 0, next)
  BY <1>5, <1>6, <1>8, <1>9 DEF ResultComes
<1>. QED
  BY <1>4, <1>7, <1>10

\* A row is read and more may come; or the last packet is.
LEMMA RowRead ==
    ASSUME NEW r \in Seq(Packets), r # <<>>, NEW next, ResultComes(r, 0, 0, next)
    PROVE  \/ r[1].kind = "row" /\ ResultComes(Tail(r), 0, 0, next)
           \/ r[1].kind \in {"eof", "err"} /\ Len(r) = 1 /\ next # "closed"
<1>1. PICK l \in Nat \ {0} : l = Len(r)
  BY EmptySeq
<1>2. PICK k \in Nat : l = k + 1
  <2>1. l - 1 \in Nat /\ (l - 1) + 1 = l
    OBVIOUS
  <2>. QED
    BY <2>1
<1>3. PICK t : t = Tail(r)
  OBVIOUS
<1>4. Len(t) = k /\ \A i \in 1..k : t[i] = r[i + 1]
  <2>1. Len(r) = k + 1
    BY <1>1, <1>2
  <2>. QED
    BY <1>3, <2>1, RestOf
<1>5. /\ \A i \in 1..(k + 1) : 0 < i /\ i < k + 1 => r[i].kind = "row"
      /\ next = "closed" => (0 < k + 1 => r[k + 1].kind = "row")
      /\ next # "closed" => 0 < k + 1 /\ r[k + 1].kind \in {"eof", "err"}
  BY <1>1, <1>2 DEF ResultComes
<1>6. CASE k = 0 /\ next # "closed"
  <2>1. k + 1 = 1 /\ Len(r) = 1
    BY <1>1, <1>2, <1>6
  <2>. QED
    BY <1>5, <1>6, <2>1
<1>7. CASE k = 0 /\ next = "closed"
  <2>1. k + 1 = 1
    BY <1>7
  <2>2. ResultComes(t, 0, 0, next)
    BY <1>4, <1>7 DEF ResultComes
  <2>. QED
    BY <1>3, <1>5, <1>7, <2>1, <2>2
<1>8. CASE k > 0
  <2>1. ASSUME NEW i \in 1..k PROVE i < k => t[i].kind = "row"
    <3>1. PICK j \in 1..(k + 1) : j = i + 1
      OBVIOUS
    <3>2. t[i] = r[j]
      BY <1>4, <3>1
    <3>. QED
      BY <1>5, <3>1, <3>2
  <2>2. k \in 1..k /\ t[k] = r[k + 1]
    BY <1>4, <1>8
  <2>3. ResultComes(t, 0, 0, next)
    BY <1>4, <1>5, <1>8, <2>1, <2>2 DEF ResultComes
  <2>4. r[1].kind = "row"
    <3>1. 1 \in 1..(k + 1) /\ 1 < k + 1
      BY <1>8
    <3>. QED
      BY <1>5, <3>1
  <2>. QED
    BY <1>3, <2>3, <2>4
<1>. QED
  BY <1>6, <1>7, <1>8

\* A parameter's definition is read where one is expected.
LEMMA ParamRead ==
    ASSUME NEW r \in Seq(Packets), NEW n \in Nat \ {0}, NEW e \in {0, 1}, ParamsCome(r, n, e)
    PROVE  r[1].kind = "column" /\ ParamsCome(Tail(r), n - 1, e)
<1>1. PICK p \in Nat : p = n - 1
  OBVIOUS
<1>2. n = p + 1
  BY <1>1
<1>3. PICK k \in Nat : k = p + e
  OBVIOUS
<1>4. Len(r) = k + 1
  BY <1>2, <1>3 DEF ParamsCome
<1>5. PICK t : t = Tail(r)
  OBVIOUS
<1>6. Len(t) = k /\ \A i \in 1..k : t[i] = r[i + 1]
  BY <1>4, <1>5, RestOf
<1>7. \A i \in 1..(k + 1) : r[i].kind = (IF i <= p + 1 THEN "column" ELSE "eof")
  BY <1>2, <1>4 DEF ParamsCome
<1>8. ASSUME NEW i \in 1..k PROVE t[i].kind = (IF i <= p THEN "column" ELSE "eof")
  <2>1. PICK j \in 1..(k + 1) : j = i + 1
    OBVIOUS
  <2>2. t[i] = r[j] /\ (j <= p + 1 <=> i <= p)
    BY <1>6, <2>1
  <2>. QED
    BY <1>7, <2>2
<1>9. r[1].kind = "column"
  <2>1. 1 \in 1..(k + 1) /\ 1 <= p + 1
    OBVIOUS
  <2>. QED
    BY <1>7, <2>1
<1>10. ParamsCome(t, p, e)
  BY <1>3, <1>6, <1>8 DEF ParamsCome
<1>. QED
  BY <1>1, <1>5, <1>9, <1>10

\* The EOF packet is read after the parameters, and is the last.
LEMMA ParamsEndRead ==
    ASSUME NEW r \in Seq(Packets), ParamsCome(r, 0, 1)
    PROVE  r[1].kind = "eof" /\ Len(r) = 1
<1>1. Len(r) = 1
  BY DEF ParamsCome
<1>2. 1 \in 1..Len(r) /\ ~(1 <= 0)
  BY <1>1
<1>. QED
  BY <1>1, <1>2 DEF ParamsCome
-----------------------------------------------------------------------------
(* The statements of both sides.                                           *)

\* The fields of a command.
LEMMA CommandTypes ==
    ASSUME NEW c \in Commands
    PROVE  /\ c.kind \in {"execute", "long", "close", "reset"} => c.id \in Ids
           /\ c.kind = "execute" => c.types \in Types \cup {Unbound} /\ c.args \in Bound
           /\ c.kind = "long" => c.param \in Params
BY DEF Commands

\* The fields of a statement.
LEMMA StatementTypes ==
    ASSUME NEW t \in StatementTable, NEW i \in Ids
    PROVE  /\ t[i].open \in BOOLEAN /\ t[i].params \in 0..MaxParams
           /\ t[i].types \in Types \cup {Unbound} /\ t[i].long \in [Params -> 0..MaxPieces]
           /\ DOMAIN t = Ids
BY DEF StatementTable

\* The constants, and the statements that a table is made of.
LEMMA ClosedType ==
    /\ MaxPrepares \in Nat /\ MaxParams \in Nat /\ MaxPieces \in Nat /\ MaxCommands \in Nat
    /\ MaxColumns \in Nat /\ MaxRows \in Nat
    /\ 0 \in Ids /\ NoPieces \in [Params -> 0..MaxPieces]
    /\ \A n \in 0..MaxParams :
          Prepared(n) \in [open : BOOLEAN, params : 0..MaxParams, types : Types \cup {Unbound},
                           long : [Params -> 0..MaxPieces]]
    /\ Closed \in [open : BOOLEAN, params : 0..MaxParams, types : Types \cup {Unbound},
                   long : [Params -> 0..MaxPieces]]
    /\ ~Closed.open
<1>1. /\ MaxPrepares \in Nat /\ MaxParams \in Nat /\ MaxPieces \in Nat /\ MaxCommands \in Nat
      /\ MaxColumns \in Nat /\ MaxRows \in Nat
  BY DialogueAssumption
<1>2. 0 \in Ids /\ 0 \in 0..MaxPieces /\ 0 \in 0..MaxParams
  BY <1>1 DEF Ids
<1>3. NoPieces \in [Params -> 0..MaxPieces]
  BY <1>2 DEF NoPieces
<1>4. /\ Closed \in [open : BOOLEAN, params : 0..MaxParams, types : Types \cup {Unbound},
                     long : [Params -> 0..MaxPieces]]
      /\ ~Closed.open
  BY <1>2, <1>3 DEF Closed
<1>5. \A n \in 0..MaxParams :
          Prepared(n) \in [open : BOOLEAN, params : 0..MaxParams, types : Types \cup {Unbound},
                           long : [Params -> 0..MaxPieces]]
  BY <1>3 DEF Closed, Prepared
<1>. QED
  BY <1>1, <1>2, <1>3, <1>4, <1>5

\* A command that is handled opens no statement, and keeps to the bounds.
LEMMA HandledType ==
    ASSUME NEW t \in StatementTable, ~t[0].open, NEW c \in Commands,
           c.kind = "long" /\ t[c.id].open => t[c.id].long[c.param] < MaxPieces
    PROVE  /\ Handled(c, t) \in StatementTable /\ ~Handled(c, t)[0].open
           /\ \A i \in Ids : Handled(c, t)[i].open => t[i].open
<1>1. CASE c.kind = "execute" /\ t[c.id].open
  <2>1. PICK i \in Ids : i = c.id
    BY <1>1, CommandTypes
  <2>2. PICK ty \in Types \cup {Unbound} : ty = c.types
    BY <1>1, CommandTypes
  <2>3. PICK s : s = AfterDecode(t[i], ty)
    OBVIOUS
  <2>4. /\ s \in [open : BOOLEAN, params : 0..MaxParams, types : Types \cup {Unbound},
                  long : [Params -> 0..MaxPieces]]
        /\ s.open = t[i].open
    BY <2>3, ClosedType DEF AfterDecode, StatementTable
  <2>5. Handled(c, t) = [t EXCEPT ![i] = s]
    BY <1>1, <2>1, <2>2, <2>3 DEF Handled, AfterDecode
  <2>. QED
    BY <2>4, <2>5, ClosedType DEF StatementTable
<1>2. CASE c.kind = "long" /\ t[c.id].open
  <2>1. PICK i \in Ids : i = c.id
    BY <1>2, CommandTypes
  <2>2. PICK p \in Params : p = c.param
    BY <1>2, CommandTypes
  <2>3. PICK k \in 0..MaxPieces : k = t[i].long[p]
    BY StatementTypes
  <2>4. k + 1 \in 0..MaxPieces
    BY <1>2, <2>1, <2>2, <2>3, ClosedType
  <2>5. PICK s : s = [t[i] EXCEPT !.long = [t[i].long EXCEPT ![p] = k + 1]]
    OBVIOUS
  <2>6. /\ s \in [open : BOOLEAN, params : 0..MaxParams, types : Types \cup {Unbound},
                  long : [Params -> 0..MaxPieces]]
        /\ s.open = t[i].open
    BY <2>4, <2>5 DEF StatementTable
  <2>7. Handled(c, t) = [t EXCEPT ![i] = s]
    BY <1>2, <2>1, <2>2, <2>3, <2>5 DEF Handled
  <2>. QED
    BY <2>6, <2>7, ClosedType DEF StatementTable
<1>3. CASE c.kind = "close"
  <2>1. PICK i \in Ids : i = c.id
    BY <1>3, CommandTypes
  <2>2. Handled(c, t) = [t EXCEPT ![i] = Closed]
    BY <1>3, <2>1 DEF Handled
  <2>. QED
    BY <2>2, ClosedType DEF StatementTable
<1>4. CASE c.kind = "reset" /\ t[c.id].open
  <2>1. PICK i \in Ids : i = c.id
    BY <1>4, CommandTypes
  <2>2. PICK s : s = [t[i] EXCEPT !.long = NoPieces]
    OBVIOUS
  <2>3. /\ s \in [open : BOOLEAN, params : 0..MaxParams, types : Types \cup {Unbound},
                  long : [Params -> 0..MaxPieces]]
        /\ s.open = t[i].open
    BY <2>2, ClosedType DEF StatementTable
  <2>4. Handled(c, t) = [t EXCEPT ![i] = s]
    BY <1>4, <2>1, <2>2 DEF Handled
  <2>. QED
    BY <2>3, <2>4, ClosedType DEF StatementTable
<1>5. CASE /\ ~(c.kind = "execute" /\ t[c.id].open) /\ ~(c.kind = "long" /\ t[c.id].open)
           /\ c.kind # "close" /\ ~(c.kind = "reset" /\ t[c.id].open)
  BY <1>5 DEF Handled
<1>. QED
  BY <1>1, <1>2, <1>3, <1>4, <1>5

\* Nothing is sent, and nothing that was sent is read.
LEMMA AgreementKept ==
    ASSUME Agreement, UNCHANGED <<stmts, nextId, toServer, known, misbound>>,
           cl' = cl \/ cl' \in Ended
    PROVE  Agreement'
BY DEF Agreement, Tables, Known

\* With no command on its way, the client knows the server's statements as they are.
LEMMA AgreementNow ==
    ASSUME Agreement, Typed
    PROVE  /\ ~stmts[0].open /\ stmts \in StatementTable
           /\ toServer = <<>> /\ cl \notin Ended => Known(stmts)
<1>1. PICK h : Tables(h) /\ (cl \notin Ended => Known(h[Len(toServer)]))
  BY DEF Agreement
<1>2. Len(toServer) \in Nat
  BY LenProperties DEF Typed
<1>3. 0 \in 0..Len(toServer)
  BY <1>2
<1>4. h[0] = stmts /\ ~h[0][0].open
  BY <1>1, <1>3 DEF Tables
<1>5. toServer = <<>> => Len(toServer) = 0
  OBVIOUS
<1>. QED
  BY <1>1, <1>4, <1>5 DEF Typed, TypeOK

\* The server reads the next command, and changes its statements as foreseen.
LEMMA AgreementRead ==
    ASSUME Agreement, Typed, toServer # <<>>
    PROVE  /\ RightlyBound(Head(toServer), stmts)
           /\ Handled(Head(toServer), stmts) \in StatementTable
           /\ /\ toServer' = Tail(toServer)
              /\ stmts' = Handled(Head(toServer), stmts) /\ ~misbound'
              /\ UNCHANGED <<known, nextId, cl>>
              => Agreement'
<1>1. PICK h : Tables(h) /\ (cl \notin Ended => Known(h[Len(toServer)]))
  BY DEF Agreement
<1>2. PICK n \in Nat : Len(toServer) = n + 1
  <2>1. Len(toServer) \in Nat \ {0}
    BY EmptySeq DEF Typed
  <2>2. Len(toServer) - 1 \in Nat /\ (Len(toServer) - 1) + 1 = Len(toServer)
    BY <2>1
  <2>. QED
    BY <2>2
<1>3. PICK s \in Seq(Commands), t \in Seq(Commands) : s = toServer /\ t = Tail(toServer)
  BY HeadTailProperties DEF Typed
<1>4. /\ Len(s) = n + 1 /\ Len(t) = n /\ Head(s) = s[1] /\ Head(toServer) = s[1]
      /\ \A i \in 1..n : t[i] = s[i + 1]
  BY <1>2, <1>3, RestOf
<1>5. /\ h \in [0..(n + 1) -> StatementTable] /\ h[0] = stmts
      /\ \A i \in 0..(n + 1) : ~h[i][0].open
      /\ \A i \in 1..(n + 1) : h[i] = Handled(s[i], h[i - 1]) /\ RightlyBound(s[i], h[i - 1])
  BY <1>1, <1>2, <1>3 DEF Tables
<1>6. /\ 1 \in 1..(n + 1) /\ 1 \in 0..(n + 1) /\ 1 - 1 = 0 /\ n + 1 \in 0..(n + 1)
      /\ 0 \in 0..n /\ n \in 0..n /\ 0 + 1 = 1
  OBVIOUS
<1>7. h[1] = Handled(s[1], stmts) /\ RightlyBound(s[1], stmts) /\ h[1] \in StatementTable
  BY <1>5, <1>6
<1>8. ASSUME toServer' = Tail(toServer), stmts' = Handled(Head(toServer), stmts), ~misbound',
             UNCHANGED <<known, nextId, cl>>
      PROVE  Agreement'
  <2>1. PICK g : g = [i \in 0..n |-> h[i + 1]]
    OBVIOUS
  <2>2. \A i \in 0..n : g[i] = h[i + 1] /\ i + 1 \in 0..(n + 1)
    BY <2>1
  <2>3. g \in [0..n -> StatementTable]
    BY <1>5, <2>1, <2>2
  <2>4. \A i \in 0..n : ~g[i][0].open
    BY <1>5, <2>2
  <2>5. ASSUME NEW i \in 1..n
        PROVE  g[i] = Handled(t[i], g[i - 1]) /\ RightlyBound(t[i], g[i - 1])
    <3>1. i + 1 \in 1..(n + 1) /\ i \in 0..n /\ i - 1 \in 0..n /\ (i - 1) + 1 = (i + 1) - 1
      OBVIOUS
    <3>2. g[i] = h[i + 1] /\ g[i - 1] = h[(i + 1) - 1] /\ t[i] = s[i + 1]
      BY <1>4, <2>2, <3>1
    <3>. QED
      BY <1>5, <3>1, <3>2
  <2>6. g[0] = stmts' /\ g[n] = h[n + 1]
    BY <1>4, <1>6, <1>7, <1>8, <2>2
  <2>7. toServer' = t /\ Len(toServer') = n
    BY <1>3, <1>4, <1>8
  <2>8. Tables(g)'
    BY <2>3, <2>4, <2>5, <2>6, <2>7 DEF Tables
  <2>9. cl' \notin Ended => Known(g[Len(toServer)])'
    <3>1. SUFFICES ASSUME cl \notin Ended PROVE Known(g[n])'
      BY <1>8, <2>7
    <3>2. Known(h[n + 1])
      BY <1>1, <1>2, <3>1
    <3>3. ASSUME NEW i \in Ids, known[i].open PROVE known[i] = g[n][i] /\ i < nextId
      BY <2>6, <3>2, <3>3 DEF Known
    <3>. QED
      BY <1>8, <3>3 DEF Known
  <2>. QED
    BY <1>8, <2>8, <2>9 DEF Agreement
<1>. QED
  BY <1>4, <1>7, <1>8

\* The client sends a command, and changes its idea of its statements likewise.
LEMMA AgreementSend ==
    ASSUME Agreement, Typed, cl \notin Ended, NEW c \in Commands,
           toServer' = Append(toServer, c), UNCHANGED <<stmts, nextId, misbound>>,
           \A t \in StatementTable :
               ~t[0].open /\ Known(t) =>
                   /\ RightlyBound(c, t)
                   /\ Handled(c, t) \in StatementTable /\ ~Handled(c, t)[0].open
                   /\ cl' \notin Ended =>
                        \A i \in Ids : known'[i].open =>
                            known'[i] = Handled(c, t)[i] /\ i < nextId
    PROVE  Agreement'
<1>1. PICK h : Tables(h) /\ Known(h[Len(toServer)])
  BY DEF Agreement
<1>2. PICK n \in Nat : Len(toServer) = n
  BY LenProperties DEF Typed
<1>3. PICK s \in Seq(Commands), u \in Seq(Commands) : s = toServer /\ u = toServer'
  BY AppendProperties DEF Typed
<1>4. Len(u) = n + 1 /\ u[n + 1] = c /\ \A i \in 1..n : u[i] = s[i]
  <2>1. u = Append(s, c) /\ Len(s) = n
    BY <1>2, <1>3
  <2>. QED
    BY <2>1, AppendProperties
<1>5. /\ h \in [0..n -> StatementTable] /\ h[0] = stmts /\ Known(h[n])
      /\ \A i \in 0..n : ~h[i][0].open
      /\ \A i \in 1..n : h[i] = Handled(s[i], h[i - 1]) /\ RightlyBound(s[i], h[i - 1])
  BY <1>1, <1>2, <1>3 DEF Tables
<1>6. n \in 0..n /\ 0 \in 0..n /\ n + 1 \in 0..(n + 1) /\ n + 1 \notin 0..n /\ (n + 1) - 1 = n
  OBVIOUS
<1>7. PICK t \in StatementTable : t = h[n] /\ ~t[0].open /\ Known(t)
  BY <1>5, <1>6
<1>8. PICK x \in StatementTable : x = Handled(c, t) /\ ~x[0].open
  BY <1>7
<1>9. PICK g : g = [i \in 0..(n + 1) |-> IF i <= n THEN h[i] ELSE x]
  OBVIOUS
<1>10. /\ \A i \in 0..n : g[i] = h[i]
       /\ g[n + 1] = x
  BY <1>9
<1>11. g \in [0..(n + 1) -> StatementTable]
  BY <1>5, <1>9
<1>12. ASSUME NEW i \in 0..(n + 1) PROVE ~g[i][0].open
  <2>1. i \in 0..n \/ i = n + 1
    OBVIOUS
  <2>. QED
    BY <1>5, <1>8, <1>10, <2>1
<1>13. ASSUME NEW i \in 1..(n + 1)
       PROVE  g[i] = Handled(u[i], g[i - 1]) /\ RightlyBound(u[i], g[i - 1])
  <2>1. CASE i \in 1..n
    <3>1. i \in 0..n /\ i - 1 \in 0..n
      BY <2>1
    <3>2. g[i] = h[i] /\ g[i - 1] = h[i - 1] /\ u[i] = s[i]
      BY <1>4, <1>10, <2>1, <3>1
    <3>. QED
      BY <1>5, <2>1, <3>2
  <2>2. CASE i = n + 1
    <3>1. g[i] = x /\ g[i - 1] = t /\ u[i] = c
      BY <1>4, <1>6, <1>7, <1>10, <2>2
    <3>. QED
      BY <1>7, <1>8, <3>1
  <2>. QED
    BY <2>1, <2>2
<1>14. g[0] = stmts' /\ Len(toServer') = n + 1 /\ toServer' = u
  BY <1>3, <1>4, <1>5, <1>6, <1>10
<1>15. Tables(g)'
  BY <1>11, <1>12, <1>13, <1>14 DEF Tables
<1>16. cl' \notin Ended => Known(g[Len(toServer)])'
  <2>1. SUFFICES ASSUME cl' \notin Ended PROVE Known(g[n + 1])'
    BY <1>14
  <2>2. ASSUME NEW i \in Ids, known'[i].open PROVE known'[i] = g[n + 1][i] /\ i < nextId
    BY <1>7, <1>8, <1>10, <2>1, <2>2
  <2>. QED
    BY <2>2 DEF Known
<1>17. ~misbound'
  BY DEF Agreement
<1>. QED
  BY <1>15, <1>16, <1>17 DEF Agreement
-----------------------------------------------------------------------------
(* The server reads a command.                                             *)

\* What the handler may rely on when it has read a command, by what the client waits for.
LEMMA ReadTurn ==
    ASSUME Typed, Writing, InOrder, Turns, NEW kind, Reads("command", kind)
    PROVE  /\ srv = "command" /\ then = "command" /\ out = <<>>
           /\ toServer # <<>> /\ toServer' = Tail(toServer)
           /\ Head(toServer) \in Commands /\ Head(toServer).kind = kind
           /\ kind \notin Silent => toServer' = <<>>
           /\ cl \in {"header", "prepare", "idle"} \cup Ended
           /\ cl \in {"header", "prepare"} => toClient = <<>> /\ cseq = 1
           /\ cl = "idle" => toClient = <<>>
           /\ cl = "header" => Asked(Requests) /\ (kind \notin Silent => kind \in Requests)
           /\ cl = "prepare" => Asked({"prepare"}) /\ (kind \notin Silent => kind = "prepare")
           /\ cl = "idle" => kind \in Silent
<1>1. /\ srv = "command" /\ toServer # <<>> /\ Head(toServer).kind = kind
      /\ toServer' = Tail(toServer)
  BY DEF Reads
<1>2. PICK s \in Seq(Commands) : s = toServer
  BY DEF Typed
<1>3. /\ s # <<>> /\ Head(s) \in Commands /\ Head(s) = s[1] /\ Tail(s) \in Seq(Commands)
      /\ Len(s) \in Nat \ {0} /\ Len(Tail(s)) = Len(s) - 1
  BY <1>1, <1>2, EmptySeq, HeadTailProperties
<1>4. PICK n \in Nat \ {0} : n = Len(s)
  BY <1>3
<1>5. 1 \in 1..n /\ s[1].kind = kind
  BY <1>1, <1>2, <1>3
<1>6. kind \notin Silent => n = 1 /\ Tail(s) = <<>>
  <2>1. kind \notin Silent => ~(1 < n)
    BY <1>2, <1>4, <1>5 DEF InOrder
  <2>2. n = 1 => Len(Tail(s)) = 0
    BY <1>3, <1>4
  <2>3. Len(Tail(s)) = 0 => Tail(s) = <<>>
    BY <1>3, EmptySeq
  <2>. QED
    BY <2>1, <2>2, <2>3
<1>7. out = <<>> /\ then = "command"
  BY <1>1 DEF Writing
<1>8. ~Answered
  BY <1>1 DEF Answered
<1>9. cl \notin {"greeting", "auth", "columns", "columnsEOF", "rows", "params", "paramsEOF"}
  BY <1>1, <1>8 DEF Turns
<1>10. cl \in {"header", "prepare", "idle"} \cup Ended
  BY <1>9 DEF Typed, TypeOK, Waiting
<1>11. /\ cl = "header" => Asked(Requests)
       /\ cl = "prepare" => Asked({"prepare"})
       /\ cl = "idle" => Coming = <<>> /\ \A i \in 1..Len(toServer) : toServer[i].kind \in Silent
  BY <1>8 DEF Turns
<1>12. cl \in {"header", "prepare", "idle"} => toClient = <<>>
  <2>1. cl \in {"header", "prepare", "idle"} => Coming = <<>>
    BY <1>11 DEF Asked
  <2>. QED
    BY <2>1, NothingComing DEF Typed, TypeOK, Coming
<1>13. cl \in {"header", "prepare"} => cseq = 1
  BY <1>11 DEF Asked
<1>14. cl = "header" /\ kind \notin Silent => kind \in Requests
  BY <1>2, <1>4, <1>5, <1>6, <1>11 DEF Asked
<1>15. cl = "prepare" /\ kind \notin Silent => kind = "prepare"
  BY <1>2, <1>4, <1>5, <1>6, <1>11 DEF Asked
<1>16. cl = "idle" => kind \in Silent
  BY <1>2, <1>4, <1>5, <1>11
<1>. QED
  BY <1>1, <1>2, <1>3, <1>6, <1>7, <1>10, <1>11, <1>12, <1>13, <1>14, <1>15, <1>16

\* It answers.
LEMMA Reply ==
    ASSUME Typed, Writing, InOrder, Turns, NEW kind, Reads("command", kind), kind \notin Silent,
           UNCHANGED <<dep, toClient, client>>, out' \in Seq(Packets), strange => strange',
           \/ srv' = "writing" /\ out' # <<>> /\ then' \in {"command", "closed"}
           \/ Closes,
           kind \in Requests => (InSequence(out, 1) \/ strange)' /\ AnswerComes(out)',
           kind = "prepare" => (InSequence(out, 1) \/ strange)' /\ ~Cut' /\ PreparedComes(out)'
    PROVE  Writing' /\ InOrder' /\ Turns'
<1>1. /\ toServer' = <<>> /\ cl \in {"header", "prepare"} \cup Ended
      /\ cl \in {"header", "prepare"} => toClient = <<>> /\ cseq = 1
      /\ cl = "header" => kind \in Requests
      /\ cl = "prepare" => kind = "prepare"
  BY ReadTurn DEF Ended
<1>2. cl' = cl /\ cseq' = cseq /\ toClient' = toClient
  BY DEF client
<1>3. Writing'
  BY DEF Writing, Closes
<1>4. InOrder'
  <2>1. Len(toServer') = 0
    BY <1>1
  <2>. QED
    BY <2>1 DEF InOrder
<1>5. cl \in {"header", "prepare"} => Coming' = out'
  <2>1. cl \in {"header", "prepare"} => toClient' = <<>> /\ toClient' \in Seq(Packets)
    BY <1>1, <1>2, EmptySeq
  <2>. QED
    BY <2>1, NothingComing DEF Coming
<1>6. cl \in {"header", "prepare"} => Answered'
  <2>1. srv' \notin {"greet", "auth"} /\ then' \in {"command", "closed"}
    BY DEF Closes
  <2>2. cl \in {"header", "prepare"} => (InSequence(out, 1) \/ strange)'
    BY <1>1
  <2>3. cl \in {"header", "prepare"} => (InSequence(Coming, cseq) \/ strange)'
    BY <1>1, <1>2, <1>5, <2>2
  <2>. QED
    BY <1>1, <2>1, <2>3 DEF Answered
<1>7. cl = "header" => AnswerComes(Coming)'
  BY <1>1, <1>5 DEF AnswerComes
<1>8. cl = "prepare" => ~Cut' /\ PreparedComes(Coming)'
  BY <1>1, <1>5 DEF PreparedComes
<1>9. cl' = "lost" => strange'
  BY <1>2 DEF Turns
<1>. QED
  BY <1>1, <1>2, <1>3, <1>4, <1>6, <1>7, <1>8, <1>9 DEF Turns, Ended

\* It does not answer.
LEMMA NoReply ==
    ASSUME Typed, Writing, InOrder, Turns, NEW kind, Reads("command", kind), kind \in Silent,
           UNCHANGED <<dep, srv, out, then, nextId, toClient, client, strange>>
    PROVE  Writing' /\ InOrder' /\ Turns'
<1>1. /\ srv = "command" /\ toServer # <<>> /\ toServer' = Tail(toServer)
      /\ Head(toServer).kind = kind
      /\ cl \in {"header", "prepare", "idle"} \cup Ended
      /\ cl = "header" => Asked(Requests)
      /\ cl = "prepare" => Asked({"prepare"})
  BY ReadTurn
<1>2. /\ cl' = cl /\ cseq' = cseq /\ toClient' = toClient /\ Coming' = Coming /\ srv' = srv
  BY DEF client, Coming
<1>3. PICK s \in Seq(Commands), t \in Seq(Commands) : s = toServer /\ t = toServer'
  BY <1>1, HeadTailProperties DEF Typed
<1>4. PICK n \in Nat : Len(s) = n + 1
  <2>1. Len(s) \in Nat \ {0}
    BY <1>1, <1>3, EmptySeq
  <2>2. Len(s) - 1 \in Nat /\ (Len(s) - 1) + 1 = Len(s)
    BY <2>1
  <2>. QED
    BY <2>2
<1>5. Len(t) = n /\ (\A i \in 1..n : t[i] = s[i + 1]) /\ Head(s) = s[1]
  <2>1. t = Tail(s) /\ s # <<>>
    BY <1>1, <1>3
  <2>. QED
    BY <1>4, <2>1, RestOf, HeadTailProperties
<1>6. Writing'
  BY DEF Writing
<1>7. InOrder'
  <2>1. /\ \A i \in 1..(n + 1) : i < n + 1 => s[i].kind \in Silent
        /\ \A i \in 1..(n + 1) : s[i].kind = "prepare" => nextId <= MaxPrepares
    BY <1>3, <1>4 DEF InOrder
  <2>2. ASSUME NEW i \in 1..n
        PROVE  /\ i < n => t[i].kind \in Silent
               /\ t[i].kind = "prepare" => nextId <= MaxPrepares
    <3>1. i + 1 \in 1..(n + 1) /\ (i < n => i + 1 < n + 1) /\ t[i] = s[i + 1]
      BY <1>5
    <3>. QED
      BY <2>1, <3>1
  <2>. QED
    BY <1>3, <1>5, <2>2 DEF InOrder
<1>8. ASSUME NEW kinds, Asked(kinds), kinds \cap Silent = {} PROVE Asked(kinds)'
  <2>1. s[n + 1].kind \in kinds
    BY <1>3, <1>4, <1>8 DEF Asked
  <2>2. n # 0
    BY <1>1, <1>3, <1>5, <1>8, <2>1
  <2>3. t[n] = s[n + 1] /\ t # <<>>
    BY <1>5, <2>2
  <2>. QED
    BY <1>2, <1>3, <1>5, <1>8, <2>1, <2>3 DEF Asked
<1>9. /\ cl = "header" => Asked(Requests)'
      /\ cl = "prepare" => Asked({"prepare"})'
  <2>1. Requests \cap Silent = {} /\ {"prepare"} \cap Silent = {}
    BY DEF Requests, Silent
  <2>. QED
    BY <1>1, <1>8, <2>1 DEF Requests
<1>10. cl = "idle" => /\ srv = "command" /\ Coming = <<>>
                      /\ \A i \in 1..n : t[i].kind \in Silent
  <2>1. SUFFICES ASSUME cl = "idle"
                 PROVE  /\ srv = "command" /\ Coming = <<>>
                        /\ \A i \in 1..n : t[i].kind \in Silent
    OBVIOUS
  <2>2. srv = "command" /\ Coming = <<>> /\ \A i \in 1..(n + 1) : s[i].kind \in Silent
    BY <1>3, <1>4, <2>1 DEF Turns
  <2>3. ASSUME NEW i \in 1..n PROVE t[i].kind \in Silent
    <3>1. i + 1 \in 1..(n + 1) /\ t[i] = s[i + 1]
      BY <1>5
    <3>. QED
      BY <2>2, <3>1
  <2>. QED
    BY <2>2, <2>3
<1>11. cl' = "lost" => strange'
  BY <1>2 DEF Turns
<1>. QED
  BY <1>1, <1>2, <1>3, <1>5, <1>6, <1>7, <1>9, <1>10, <1>11 DEF Turns, Ended
-----------------------------------------------------------------------------
(* The steps of the server.                                                *)

\* What a handler of a request writes is an answer, in sequence unless strange.
Answers ==
    /\ out' \in Seq(Packets) /\ (strange => strange') /\ strange' \in BOOLEAN
    /\ \/ srv' = "writing" /\ out' # <<>> /\ then' \in {"command", "closed"}
       \/ Closes
    /\ (InSequence(out, 1) \/ strange)'
    /\ AnswerComes(out)'

\* OK and ERR answer every request, and ERR a COM_STMT_PREPARE.
LEMMA ShortAnswer ==
    ASSUME Typed, ReplyOK \/ ReplyErr
    PROVE  /\ UNCHANGED strange => Answers
           /\ ReplyErr => PreparedComes(out)'
           /\ out' \in Seq(Packets) /\ srv' = "writing" /\ out' # <<>> /\ then' = "command"
           /\ InSequence(out, 1)' /\ ~Cut'
<1>1. PICK kind \in {"ok", "err"} :
         /\ out' = Numbered(<<Packet(kind)>>, 1)
         /\ ReplyErr => kind = "err"
  <2>1. CASE ReplyErr
    BY <2>1 DEF ReplyErr, Replies, Writes
  <2>2. CASE ReplyOK /\ ~ReplyErr
    BY <2>2 DEF ReplyOK, Replies, Writes
  <2>. QED
    BY <2>1, <2>2
<1>2. srv' = "writing" /\ then' = "command"
  BY DEF ReplyOK, ReplyErr, Replies, Writes
<1>3. PICK r : r = Numbered(<<Packet(kind)>>, 1)
  OBVIOUS
<1>4. /\ r \in Seq(Packets) /\ Len(r) = 1 /\ r # <<>> /\ r[1].kind = kind
      /\ InSequence(r, 1)
  <2>1. kind \in Kinds /\ 1 \in Nat \ {0}
    BY DEF Kinds
  <2>. QED
    BY <1>3, <2>1, SingleShape
<1>5. out' = r
  BY <1>1, <1>3
<1>6. InSequence(out, 1)' /\ ~Cut'
  BY <1>2, <1>4, <1>5 DEF Cut
<1>7. AnswerComes(out)'
  BY <1>4, <1>5, <1>6 DEF AnswerComes
<1>8. ReplyErr => PreparedComes(out)'
  BY <1>1, <1>4, <1>5 DEF PreparedComes
<1>. QED
  BY <1>2, <1>4, <1>5, <1>6, <1>7, <1>8 DEF Answers, Typed, TypeOK

\* So does the end of the connection.
LEMMA NoAnswer ==
    ASSUME Typed, Closes, UNCHANGED strange
    PROVE  Answers
<1>1. out' = <<>> /\ Cut' /\ out' \in Seq(Packets)
  BY EmptySeq DEF Closes, Cut
<1>2. AnswerComes(out)'
  BY <1>1 DEF AnswerComes
<1>3. InSequence(out, 1)'
  BY <1>1 DEF InSequence
<1>. QED
  BY <1>1, <1>2, <1>3 DEF Answers, Typed, TypeOK

\* A result set does, when its columns are counted.
LEMMA LongAnswer ==
    ASSUME Typed, NEW n \in Nat, then' \in {"command", "closed"}, Counted(out', n, then'),
           srv' = "writing", strange => strange', strange' \in BOOLEAN, n = 0 => strange',
           InSequence(out, 1)' \/ strange', UNCHANGED dep
    PROVE  Answers
<1>1. Definitions' = Definitions
  BY DEF Definitions
<1>2. AnswerComes(out)'
  <2>1. /\ out' # <<>> /\ out'[1].kind = "count" /\ out'[1].n = n
        /\ ResultComes(Tail(out'), n, Definitions, then')
    BY DEF Counted
  <2>2. n > 0 \/ strange'
    OBVIOUS
  <2>. QED
    BY <1>1, <2>1, <2>2 DEF AnswerComes
<1>. QED
  BY <1>2 DEF Answers, Counted

\* Whole or cut.
LEMMA ResultAnswer ==
    ASSUME Typed, NEW n \in 0..MaxColumns, NEW m \in 0..MaxRows,
           \/ Replies(ResultSet(n, m)) \/ RepliesThenCloses(Columns(n) \o Repeat(m, Packet("row"))),
           strange' = (strange \/ n = 0), UNCHANGED dep
    PROVE  Answers
<1>1. n \in Nat /\ m \in Nat /\ dep \in BOOLEAN
  BY ClosedType DEF Typed, TypeOK
<1>2. /\ srv' = "writing" /\ then' \in {"command", "closed"}
      /\ Counted(out', n, then') /\ InSequence(out', 1)
  <2>1. CASE Replies(ResultSet(n, m))
    <3>1. out' = Numbered(ResultSet(n, m), 1) /\ then' = "command" /\ srv' = "writing"
      BY <2>1 DEF Replies, Writes
    <3>2. PICK r : r = Numbered(ResultSet(n, m), 1)
      OBVIOUS
    <3>3. Counted(r, n, "command") /\ InSequence(r, 1)
      BY <1>1, <3>2, ResultSetShape
    <3>. QED
      BY <3>1, <3>2, <3>3
  <2>2. CASE RepliesThenCloses(Columns(n) \o Repeat(m, Packet("row")))
    <3>1. /\ out' = Numbered(Columns(n) \o Repeat(m, Packet("row")), 1) /\ then' = "closed"
          /\ srv' = "writing"
      BY <2>2 DEF RepliesThenCloses, Writes
    <3>2. PICK r : r = Numbered(Columns(n) \o Repeat(m, Packet("row")), 1)
      OBVIOUS
    <3>3. Counted(r, n, "closed") /\ InSequence(r, 1)
      BY <1>1, <3>2, CutShape
    <3>. QED
      BY <3>1, <3>2, <3>3
  <2>. QED
    BY <2>1, <2>2
<1>3. strange' \in BOOLEAN /\ (strange => strange') /\ (n = 0 => strange')
  BY DEF Typed, TypeOK
<1>. QED
  BY <1>1, <1>2, <1>3, LongAnswer

\* Whatever comes of an execution, a huge row included.
LEMMA ExecuteAnswer ==
    ASSUME Typed, ExecuteReply, UNCHANGED dep
    PROVE  Answers
<1>1. CASE (ReplyOK \/ ReplyErr) /\ UNCHANGED strange
  BY <1>1, ShortAnswer
<1>2. CASE Closes /\ UNCHANGED strange
  BY <1>2, NoAnswer
<1>3. ASSUME NEW n \in 0..MaxColumns, NEW m \in 0..MaxRows,
             Replies(ResultSet(n, m)), strange' = (strange \/ n = 0)
      PROVE  Answers
  BY <1>3, ResultAnswer
<1>4. ASSUME NEW n \in 0..MaxColumns, NEW m \in 0..MaxRows,
             Writes(Numbered(Columns(n) \o Repeat(m, Packet("row")), 1)
                      \o Numbered(<<Packet("err")>>, 1), "command"),
             strange' = TRUE
      PROVE  Answers
  <2>1. n \in Nat /\ m \in Nat /\ dep \in BOOLEAN
    BY ClosedType DEF Typed, TypeOK
  <2>2. PICK r : r = Numbered(Columns(n) \o Repeat(m, Packet("row")), 1)
                       \o Numbered(<<Packet("err")>>, 1)
    OBVIOUS
  <2>3. Counted(r, n, "command")
    BY <2>1, <2>2, HugeRowShape
  <2>4. out' = r /\ then' = "command" /\ srv' = "writing"
    BY <1>4, <2>2 DEF Writes
  <2>. QED
    BY <1>4, <2>1, <2>3, <2>4, LongAnswer
<1>. QED
  BY <1>1, <1>2, <1>3, <1>4 DEF ExecuteReply

\* A request handled.
LEMMA Requested ==
    ASSUME DialogueInv, NEW kind \in Requests \cup {"quit"}, Reads("command", kind), Answers,
           stmts' = Handled(Head(toServer), stmts), ~misbound',
           UNCHANGED <<dep, nextId, toClient, client>>, misbound' \in BOOLEAN
    PROVE  DialogueInv'
<1>1. Typed /\ Writing /\ InOrder /\ Turns /\ Agreement
  BY DEF DialogueInv
<1>2. kind \notin Silent /\ kind # "prepare"
  BY DEF Requests, Silent
<1>3. Writing' /\ InOrder' /\ Turns'
  BY <1>1, <1>2, Reply DEF Answers
<1>4. toServer # <<>> /\ toServer' = Tail(toServer) /\ toServer' = <<>>
  BY <1>1, <1>2, ReadTurn
<1>5. Agreement'
  BY <1>1, <1>4, AgreementRead DEF client
<1>6. stmts' \in StatementTable
  BY <1>1, <1>4, AgreementRead
<1>7. Typed'
  <2>1. toServer' \in Seq(Commands)
    BY <1>4, EmptySeq
  <2>2. srv' \in {"writing", "closed"} /\ then' \in {"command", "closed"}
    BY DEF Answers, Closes
  <2>3. out' \in Seq(Packets) /\ strange' \in BOOLEAN
    BY DEF Answers
  <2>. QED
    BY <1>1, <1>6, <2>1, <2>2, <2>3 DEF Typed, TypeOK, client
<1>. QED
  BY <1>3, <1>5, <1>7 DEF DialogueInv

\* The other commands change no statement.
LEMMA HandledOther ==
    ASSUME NEW c, NEW t, c.kind \notin {"execute", "long", "close", "reset"}
    PROVE  Handled(c, t) = t
BY DEF Handled

LEMMA PlainRequests ==
    ASSUME DialogueInv, HandleSimple \/ HandleUnsupported \/ HandleQuit \/ HandleQuery
    PROVE  DialogueInv'
<1>1. Typed /\ ~misbound /\ misbound \in BOOLEAN
  BY DEF DialogueInv, Agreement, Typed, TypeOK
<1>2. PICK kind \in {"simple", "resetConn", "unsupported", "quit", "query"} :
         Reads("command", kind)
  BY DEF HandleSimple, HandleUnsupported, HandleQuit, HandleQuery
<1>3. UNCHANGED <<dep, stmts, nextId, toClient, client, misbound>>
  BY DEF HandleSimple, HandleUnsupported, HandleQuit, HandleQuery
<1>4. Answers
  <2>1. CASE HandleSimple \/ HandleUnsupported
    <3>1. (ReplyOK \/ ReplyErr) /\ UNCHANGED strange
      BY <2>1 DEF HandleSimple, HandleUnsupported
    <3>. QED
      BY <1>1, <3>1, ShortAnswer
  <2>2. CASE HandleQuit
    <3>1. Closes /\ UNCHANGED strange
      BY <2>2 DEF HandleQuit
    <3>. QED
      BY <1>1, <3>1, NoAnswer
  <2>3. CASE HandleQuery
    <3>1. CASE (ReplyOK \/ ReplyErr) /\ UNCHANGED strange
      BY <1>1, <3>1, ShortAnswer
    <3>2. CASE Closes /\ UNCHANGED strange
      BY <1>1, <3>2, NoAnswer
    <3>3. ASSUME NEW cols \in 0..MaxColumns, NEW rws \in 0..MaxRows,
                 \/ Replies(ResultSet(cols, rws))
                 \/ RepliesThenCloses(Columns(cols) \o Repeat(rws, Packet("row"))),
                 strange' = (strange \/ cols = 0)
          PROVE  Answers
      BY <1>1, <1>3, <3>3, ResultAnswer
    <3>. QED
      BY <2>3, <3>1, <3>2, <3>3 DEF HandleQuery
  <2>. QED
    BY <2>1, <2>2, <2>3
<1>5. Head(toServer).kind = kind
  BY <1>2 DEF Reads
<1>6. stmts' = Handled(Head(toServer), stmts)
  BY <1>3, <1>5, HandledOther
<1>7. kind \in Requests \cup {"quit"}
  BY DEF Requests
<1>. QED
  BY <1>1, <1>2, <1>3, <1>4, <1>6, <1>7, Requested
LEMMA HandleExecuteStep ==
    ASSUME DialogueInv, HandleExecute
    PROVE  DialogueInv'
<1>1. Typed /\ ~misbound /\ misbound \in BOOLEAN /\ Writing /\ InOrder /\ Turns /\ Agreement
  BY DEF DialogueInv, Agreement, Typed, TypeOK
<1>2. Reads("command", "execute") /\ UNCHANGED <<dep, nextId, toClient, client>>
  BY DEF HandleExecute
<1>3. PICK c : c = Head(toServer)
  OBVIOUS
<1>4. c \in Commands /\ c.kind = "execute" /\ toServer # <<>>
  BY <1>1, <1>2, <1>3, ReadTurn
<1>5. RightlyBound(c, stmts)
  BY <1>1, <1>3, <1>4, AgreementRead
<1>6. stmts' = Handled(c, stmts) /\ Answers /\ ~misbound'
  <2>1. CASE ~stmts[c.id].open
    <3>1. ReplyErr /\ UNCHANGED <<stmts, misbound, strange>>
      BY <1>3, <2>1 DEF HandleExecute
    <3>2. Handled(c, stmts) = stmts
      BY <1>4, <2>1 DEF Handled
    <3>. QED
      BY <1>1, <3>1, <3>2, ShortAnswer
  <2>2. CASE stmts[c.id].open
    <3>1. PICK decoded : decoded = AfterDecode(stmts[c.id], c.types)
      OBVIOUS
    <3>2. /\ stmts' = [stmts EXCEPT ![c.id] = decoded]
          /\ IF stmts[c.id].params > 0 /\ decoded.types = Unbound
             THEN ReplyErr /\ UNCHANGED <<misbound, strange>>
             ELSE /\ ExecuteReply
                  /\ misbound' = (misbound \/
                        Arguments(decoded.types, stmts[c.id].long) # c.args)
      BY <1>3, <2>2, <3>1 DEF HandleExecute
    <3>3. stmts' = Handled(c, stmts)
      BY <1>4, <2>2, <3>1, <3>2 DEF Handled
    <3>4. CASE stmts[c.id].params > 0 /\ decoded.types = Unbound
      <4>1. ReplyErr /\ UNCHANGED <<misbound, strange>>
        BY <3>2, <3>4
      <4>. QED
        BY <1>1, <3>3, <4>1, ShortAnswer
    <3>5. CASE ~(stmts[c.id].params > 0 /\ decoded.types = Unbound)
      <4>1. /\ ExecuteReply
            /\ misbound' = (misbound \/ Arguments(decoded.types, stmts[c.id].long) # c.args)
        BY <3>2, <3>5
      <4>2. Arguments(decoded.types, stmts[c.id].long) = c.args
        BY <1>4, <1>5, <2>2, <3>1, <3>5 DEF RightlyBound
      <4>3. Answers
        BY <1>1, <1>2, <4>1, ExecuteAnswer
      <4>. QED
        BY <1>1, <3>3, <4>1, <4>2, <4>3
    <3>. QED
      BY <3>4, <3>5
  <2>. QED
    BY <2>1, <2>2
<1>7. "execute" \in Requests \cup {"quit"} /\ misbound' \in BOOLEAN
  <2>1. misbound' = FALSE \/ misbound' \in BOOLEAN
    BY <1>1, <1>3 DEF HandleExecute
  <2>. QED
    BY <2>1 DEF Requests
<1>. QED
  BY <1>2, <1>3, <1>6, <1>7, Requested

LEMMA HandleResetStep ==
    ASSUME DialogueInv, HandleReset
    PROVE  DialogueInv'
<1>1. Typed /\ ~misbound /\ misbound \in BOOLEAN /\ Writing /\ InOrder /\ Turns
  BY DEF DialogueInv, Agreement, Typed, TypeOK
<1>2. /\ Reads("command", "reset")
      /\ UNCHANGED <<dep, nextId, toClient, client, misbound, strange>>
  BY DEF HandleReset
<1>3. PICK c : c = Head(toServer)
  OBVIOUS
<1>4. c.kind = "reset"
  BY <1>1, <1>2, <1>3, ReadTurn
<1>5. stmts' = Handled(c, stmts) /\ Answers
  <2>1. CASE stmts[c.id].open
    <3>1. ReplyOK /\ stmts' = [stmts EXCEPT ![c.id].long = NoPieces]
      BY <1>3, <2>1 DEF HandleReset
    <3>2. stmts' = Handled(c, stmts)
      BY <1>4, <2>1, <3>1 DEF Handled
    <3>. QED
      BY <1>1, <1>2, <3>1, <3>2, ShortAnswer
  <2>2. CASE ~stmts[c.id].open
    <3>1. ReplyErr /\ UNCHANGED stmts
      BY <1>3, <2>2 DEF HandleReset
    <3>2. Handled(c, stmts) = stmts
      BY <1>4, <2>2 DEF Handled
    <3>. QED
      BY <1>1, <1>2, <3>1, <3>2, ShortAnswer
  <2>. QED
    BY <2>1, <2>2
<1>6. "reset" \in Requests \cup {"quit"}
  BY DEF Requests
<1>. QED
  BY <1>1, <1>2, <1>3, <1>5, <1>6, Requested

\* Long data and closing: the statements change, and nothing is written.
LEMMA SilentSteps ==
    ASSUME DialogueInv, HandleSendLong \/ HandleClose
    PROVE  DialogueInv'
<1>1. Typed /\ ~misbound /\ misbound \in BOOLEAN /\ Writing /\ InOrder /\ Turns /\ Agreement
  BY DEF DialogueInv, Agreement, Typed, TypeOK
<1>2. PICK kind \in Silent : Reads("command", kind)
  BY DEF HandleSendLong, HandleClose, Silent
<1>3. UNCHANGED <<dep, srv, out, then, nextId, toClient, client, misbound, strange>>
  BY DEF HandleSendLong, HandleClose
<1>4. Writing' /\ InOrder' /\ Turns'
  BY <1>1, <1>2, <1>3, NoReply
<1>5. toServer # <<>> /\ toServer' = Tail(toServer)
  BY <1>1, <1>2, ReadTurn
<1>6. stmts' = Handled(Head(toServer), stmts)
  <2>1. PICK c : c = Head(toServer)
    OBVIOUS
  <2>2. CASE HandleSendLong
    <3>1. c.kind = "long"
      BY <2>1, <2>2 DEF HandleSendLong, Reads
    <3>2. stmts' = IF stmts[c.id].open
                   THEN [stmts EXCEPT ![c.id].long[c.param] = @ + 1] ELSE stmts
      BY <2>1, <2>2 DEF HandleSendLong
    <3>. QED
      BY <2>1, <3>1, <3>2 DEF Handled
  <2>3. CASE HandleClose
    <3>1. c.kind = "close" /\ stmts' = [stmts EXCEPT ![c.id] = Closed]
      BY <2>1, <2>3 DEF HandleClose, Reads
    <3>. QED
      BY <2>1, <3>1 DEF Handled
  <2>. QED
    BY <2>2, <2>3
<1>7. Agreement' /\ stmts' \in StatementTable
  BY <1>1, <1>3, <1>5, <1>6, AgreementRead DEF client
<1>8. Typed'
  <2>1. toServer' \in Seq(Commands)
    BY <1>1, <1>5, HeadTailProperties DEF Typed
  <2>. QED
    BY <1>1, <1>3, <1>7, <2>1 DEF Typed, TypeOK, client
<1>. QED
  BY <1>4, <1>7, <1>8 DEF DialogueInv

\* Agreement when no command is on its way.
LEMMA FreshAgreement ==
    ASSUME toServer' = <<>>, stmts' \in StatementTable, ~stmts'[0].open, ~misbound',
           cl' \notin Ended => Known(stmts)'
    PROVE  Agreement'
<1>1. PICK h : h = [i \in 0..0 |-> stmts']
  OBVIOUS
<1>2. Len(toServer') = 0 /\ h \in [0..0 -> StatementTable] /\ h[0] = stmts'
  BY <1>1
<1>3. (\A i \in 0..0 : ~h[i][0].open) /\ 1..0 = {}
  BY <1>1
<1>4. Tables(h)'
  BY <1>2, <1>3 DEF Tables
<1>5. cl' \notin Ended => Known(h[Len(toServer)])'
  BY <1>2
<1>. QED
  BY <1>4, <1>5 DEF Agreement

\* The statements when the one command on its way does not change them.
LEMMA AgreementLast ==
    ASSUME Agreement, Typed, toServer # <<>>, Tail(toServer) = <<>>,
           Handled(Head(toServer), stmts) = stmts
    PROVE  cl \notin Ended => Known(stmts)
<1>1. PICK h : Tables(h) /\ (cl \notin Ended => Known(h[Len(toServer)]))
  BY DEF Agreement
<1>2. Len(toServer) = 1 /\ Head(toServer) = toServer[1]
  <2>1. PICK t : t = Tail(toServer)
    OBVIOUS
  <2>2. /\ Len(toServer) \in Nat \ {0} /\ Len(t) = Len(toServer) - 1
        /\ Head(toServer) = toServer[1]
    BY <2>1, EmptySeq, HeadTailProperties DEF Typed
  <2>3. t = <<>>
    BY <2>1
  <2>4. Len(t) = 0
    BY <2>3
  <2>. QED
    BY <2>2, <2>4
<1>3. h[0] = stmts /\ h[1] = Handled(toServer[1], h[0])
  <2>1. 1 \in 1..1 /\ 1 - 1 = 0
    OBVIOUS
  <2>. QED
    BY <1>1, <1>2, <2>1 DEF Tables
<1>. QED
  BY <1>1, <1>2, <1>3

LEMMA HandlePrepareStep ==
    ASSUME DialogueInv, HandlePrepare
    PROVE  DialogueInv'
<1>1. Typed /\ ~misbound /\ misbound \in BOOLEAN /\ Writing /\ InOrder /\ Turns /\ Agreement
  BY DEF DialogueInv, Agreement, Typed, TypeOK
<1>2. /\ Reads("command", "prepare")
      /\ UNCHANGED <<dep, toClient, client, misbound, strange>>
  BY DEF HandlePrepare
<1>3. /\ toServer # <<>> /\ toServer' = Tail(toServer) /\ toServer' = <<>>
      /\ Head(toServer).kind = "prepare"
  BY <1>1, <1>2, ReadTurn DEF Silent
<1>4. Handled(Head(toServer), stmts) = stmts
  BY <1>3, HandledOther
<1>5. ~stmts[0].open /\ stmts \in StatementTable /\ (cl \notin Ended => Known(stmts))
  BY <1>1, <1>3, <1>4, AgreementLast, AgreementNow
<1>6. nextId <= MaxPrepares /\ nextId \in 1..MaxPrepares
  <2>1. Len(toServer) \in Nat \ {0} /\ Head(toServer) = toServer[1]
    BY <1>1, <1>3, EmptySeq, HeadTailProperties DEF Typed
  <2>2. 1 \in 1..Len(toServer) /\ toServer[1].kind = "prepare"
    BY <1>3, <2>1
  <2>3. nextId <= MaxPrepares
    BY <1>1, <2>2 DEF InOrder
  <2>. QED
    BY <1>1, <2>3, ClosedType DEF Typed, TypeOK
<1>7. /\ out' \in Seq(Packets) /\ srv' = "writing" /\ out' # <<>> /\ then' = "command"
      /\ InSequence(out, 1)' /\ ~Cut' /\ PreparedComes(out)'
      /\ stmts' \in StatementTable /\ ~stmts'[0].open /\ nextId' \in 1..(MaxPrepares + 1)
      /\ cl \notin Ended => Known(stmts)'
  <2>1. CASE ReplyErr /\ UNCHANGED <<stmts, nextId>>
    <3>1. /\ out' \in Seq(Packets) /\ srv' = "writing" /\ out' # <<>> /\ then' = "command"
          /\ InSequence(out, 1)' /\ ~Cut' /\ PreparedComes(out)'
      BY <1>1, <2>1, ShortAnswer
    <3>2. cl \notin Ended => Known(stmts)'
      BY <1>2, <1>5, <2>1 DEF Known, client
    <3>. QED
      BY <1>1, <1>5, <2>1, <3>1, <3>2 DEF Typed, TypeOK
  <2>2. ASSUME NEW n \in 0..MaxParams, Replies(PrepareReply(nextId, n)),
               stmts' = [stmts EXCEPT ![nextId] = Prepared(n)], nextId' = nextId + 1
        PROVE  /\ out' \in Seq(Packets) /\ srv' = "writing" /\ out' # <<>> /\ then' = "command"
               /\ InSequence(out, 1)' /\ ~Cut' /\ PreparedComes(out)'
               /\ stmts' \in StatementTable /\ ~stmts'[0].open /\ nextId' \in 1..(MaxPrepares + 1)
               /\ cl \notin Ended => Known(stmts)'
    <3>1. PICK id \in 1..MaxPrepares : id = nextId
      BY <1>6
    <3>2. id \in Ids /\ id # 0 /\ id \in Nat /\ n \in Nat /\ id + 1 \in 1..(MaxPrepares + 1)
      BY ClosedType DEF Ids
    <3>3. PICK r : r = Numbered(PrepareReply(id, n), 1)
      OBVIOUS
    <3>4. /\ r \in Seq(Packets) /\ r # <<>> /\ InSequence(r, 1)
          /\ r[1].kind = "prepared" /\ r[1].id = id /\ r[1].n = n
          /\ ParamsCome(Tail(r), n, IF n > 0 THEN Definitions ELSE 0)
      <4>1. dep \in BOOLEAN
        BY <1>1 DEF Typed, TypeOK
      <4>2. PreparedReply(r, id, n) /\ InSequence(r, 1)
        BY <3>2, <3>3, <4>1, PrepareShape
      <4>. QED
        BY <4>2 DEF PreparedReply
    <3>5. out' = r /\ srv' = "writing" /\ then' = "command"
      BY <2>2, <3>1, <3>3 DEF Replies, Writes
    <3>6. /\ stmts' \in StatementTable /\ stmts'[id] = Prepared(n)
          /\ \A i \in Ids : i # id => stmts'[i] = stmts[i]
      BY <1>5, <2>2, <3>1, <3>2, ClosedType DEF StatementTable
    <3>7. ~stmts'[0].open
      BY <1>5, <3>2, <3>6, ClosedType
    <3>8. PreparedComes(out)'
      <4>1. Definitions' = Definitions
        BY <1>2 DEF Definitions
      <4>2. id < nextId' /\ nextId' \in 1..(MaxPrepares + 1)
        BY <2>2, <3>1, <3>2
      <4>. QED
        BY <3>2, <3>4, <3>5, <3>6, <4>1, <4>2 DEF PreparedComes
    <3>9. cl \notin Ended => Known(stmts)'
      <4>1. known' = known /\ nextId' = id + 1
        BY <1>2, <2>2, <3>1 DEF client
      <4>2. SUFFICES ASSUME cl \notin Ended, NEW i \in Ids, known[i].open
                     PROVE  known[i] = stmts'[i] /\ i < id + 1
        BY <4>1 DEF Known
      <4>3. known[i] = stmts[i] /\ i < id
        BY <1>5, <3>1, <4>2 DEF Known
      <4>4. i # id /\ i < id + 1
        BY <4>3 DEF Ids
      <4>. QED
        BY <3>6, <4>3, <4>4
    <3>10. InSequence(out, 1)' /\ ~Cut'
      BY <3>4, <3>5 DEF Cut
    <3>11. nextId' \in 1..(MaxPrepares + 1)
      BY <2>2, <3>1, <3>2
    <3>. QED
      BY <3>4, <3>5, <3>6, <3>7, <3>8, <3>9, <3>10, <3>11
  <2>. QED
    BY <2>1, <2>2 DEF HandlePrepare
<1>8. Writing' /\ InOrder' /\ Turns'
  <2>1. "prepare" \notin Silent /\ "prepare" \notin Requests
    BY DEF Silent, Requests
  <2>. QED
    BY <1>1, <1>2, <1>7, <2>1, Reply
<1>9. Agreement'
  <2>1. toServer' = <<>> /\ stmts' \in StatementTable /\ ~stmts'[0].open /\ ~misbound'
    BY <1>1, <1>2, <1>3, <1>7
  <2>2. cl' \notin Ended => Known(stmts)'
    BY <1>2, <1>7 DEF client
  <2>. QED
    BY <2>1, <2>2, FreshAgreement
<1>10. Typed'
  <2>1. toServer' \in Seq(Commands)
    BY <1>3, EmptySeq
  <2>. QED
    BY <1>1, <1>2, <1>7, <2>1 DEF Typed, TypeOK, client
<1>. QED
  BY <1>8, <1>9, <1>10 DEF DialogueInv
\* What the client waits for is the same, seen from the packets still coming.
LEMMA TurnsKept ==
    ASSUME Turns, Coming' = Coming, srv' = srv \/ (srv = "writing" /\ srv' = then),
           UNCHANGED <<dep, then, stmts, nextId, toServer, client, strange>>
    PROVE  Turns'
BY DEF Turns, Asked, Answered, AnswerComes, PreparedComes, Cut, Definitions, client

LEMMA GreetStep ==
    ASSUME DialogueInv, Greet
    PROVE  DialogueInv'
<1>1. Typed /\ Writing /\ InOrder /\ Turns /\ Agreement
  BY DEF DialogueInv
<1>2. /\ srv = "greet" /\ srv' = "writing" /\ out' = <<Packet("greeting")>> /\ then' = "auth"
      /\ UNCHANGED <<dep, stmts, nextId, toServer, toClient, client, misbound, strange>>
  BY DEF Greet, Writes
<1>3. out' \in Seq(Packets) /\ out' # <<>>
  <2>1. "greeting" \in Kinds /\ 0 \in Nat
    BY DEF Kinds
  <2>2. PICK p \in Packets : p = Packet("greeting")
    BY <2>1, PacketType
  <2>. QED
    BY <1>2, <2>2
<1>4. Typed'
  BY <1>1, <1>2, <1>3 DEF Typed, TypeOK, client
<1>5. Writing'
  BY <1>2, <1>3 DEF Writing
<1>6. InOrder'
  BY <1>1, <1>2 DEF InOrder
<1>7. Agreement'
  BY <1>1, <1>2, AgreementKept DEF client
<1>8. cl \in {"greeting"} \cup Ended
  BY <1>1, <1>2 DEF Turns, Asked, Answered, Typed, TypeOK, Waiting
<1>9. cl = "greeting" => toServer' = <<>> /\ Coming' = <<Packet("greeting")>>
  <2>1. SUFFICES ASSUME cl = "greeting"
                 PROVE  toServer' = <<>> /\ Coming' = <<Packet("greeting")>>
    OBVIOUS
  <2>2. toServer = <<>> /\ Coming = <<>>
    BY <1>1, <1>2, <2>1 DEF Turns
  <2>3. toClient = <<>>
    BY <1>1, <2>2, NothingComing DEF Coming, Typed, TypeOK
  <2>4. Coming' = out'
    BY <1>2, <1>3, <2>3, NothingComing, EmptySeq DEF Coming
  <2>. QED
    BY <1>2, <2>2, <2>4
<1>10. Turns'
  <2>1. cl' = cl /\ (cl = "lost" => strange')
    BY <1>1, <1>2 DEF client, Turns
  <2>. QED
    BY <1>2, <1>8, <1>9, <2>1 DEF Turns, Ended
<1>. QED
  BY <1>4, <1>5, <1>6, <1>7, <1>10 DEF DialogueInv

LEMMA WritePacketStep ==
    ASSUME DialogueInv, WritePacket
    PROVE  DialogueInv'
<1>1. Typed /\ Writing /\ InOrder /\ Turns /\ Agreement
  BY DEF DialogueInv
<1>2. /\ srv = "writing" /\ out # <<>>
      /\ toClient' = Append(toClient, Head(out)) /\ out' = Tail(out)
      /\ srv' = (IF Len(out) = 1 THEN then ELSE srv)
      /\ UNCHANGED <<dep, then, stmts, nextId, toServer, client, misbound, strange>>
  BY DEF WritePacket
<1>3. /\ toClient \in Seq(Packets) /\ out \in Seq(Packets)
      /\ then \in {"auth", "command", "closed"}
  BY <1>1 DEF Typed, TypeOK
<1>4. /\ toClient' \in Seq(Packets) /\ out' \in Seq(Packets) /\ Coming' = Coming
      /\ out' = <<>> <=> Len(out) = 1
  BY <1>2, <1>3, WriteNext DEF Coming
<1>5. Typed'
  BY <1>1, <1>2, <1>4 DEF Typed, TypeOK, client
<1>6. Writing'
  BY <1>2, <1>3, <1>4 DEF Writing
<1>7. InOrder'
  BY <1>1, <1>2 DEF InOrder
<1>8. Agreement'
  BY <1>1, <1>2, AgreementKept DEF client
<1>9. Turns'
  BY <1>1, <1>2, <1>4, TurnsKept
<1>. QED
  BY <1>5, <1>6, <1>7, <1>8, <1>9 DEF DialogueInv

\* The order of the commands remains when one is read.
LEMMA InOrderRead ==
    ASSUME Typed, InOrder, toServer # <<>>, toServer' = Tail(toServer), UNCHANGED nextId
    PROVE  InOrder' /\ toServer' \in Seq(Commands)
<1>1. PICK s \in Seq(Commands), t \in Seq(Commands) : s = toServer /\ t = toServer'
  BY HeadTailProperties DEF Typed
<1>2. PICK n \in Nat : Len(s) = n + 1
  <2>1. Len(s) \in Nat \ {0}
    BY <1>1, EmptySeq
  <2>2. Len(s) - 1 \in Nat /\ (Len(s) - 1) + 1 = Len(s)
    BY <2>1
  <2>. QED
    BY <2>2
<1>3. Len(t) = n /\ (\A i \in 1..n : t[i] = s[i + 1])
  BY <1>1, <1>2, RestOf
<1>4. /\ \A i \in 1..(n + 1) : i < n + 1 => s[i].kind \in Silent
      /\ \A i \in 1..(n + 1) : s[i].kind = "prepare" => nextId <= MaxPrepares
  BY <1>1, <1>2 DEF InOrder
<1>5. ASSUME NEW i \in 1..n
      PROVE  /\ i < n => t[i].kind \in Silent
             /\ t[i].kind = "prepare" => nextId <= MaxPrepares
  <2>1. i + 1 \in 1..(n + 1) /\ (i < n => i + 1 < n + 1) /\ t[i] = s[i + 1]
    BY <1>3
  <2>. QED
    BY <1>4, <2>1
<1>. QED
  BY <1>1, <1>3, <1>5 DEF InOrder

LEMMA AuthenticateStep ==
    ASSUME DialogueInv, Authenticate
    PROVE  DialogueInv'
<1>1. Typed /\ Writing /\ InOrder /\ Turns /\ Agreement
  BY DEF DialogueInv
<1>2. /\ srv = "auth" /\ toServer # <<>> /\ toServer' = Tail(toServer)
      /\ Head(toServer).kind = "response"
      /\ UNCHANGED <<dep, stmts, nextId, toClient, client, misbound, strange>>
  BY DEF Authenticate, Reads
<1>3. PICK kind \in {"ok", "err"} :
         /\ srv' = "writing" /\ out' = Numbered(<<Packet(kind)>>, 2)
         /\ then' = IF kind = "ok" THEN "command" ELSE "closed"
  <2>1. CASE Writes(Numbered(<<Packet("ok")>>, 2), "command")
    BY <2>1 DEF Writes
  <2>2. CASE Writes(Numbered(<<Packet("err")>>, 2), "closed")
    BY <2>2 DEF Writes
  <2>. QED
    BY <2>1, <2>2 DEF Authenticate
<1>4. PICK r : r = Numbered(<<Packet(kind)>>, 2)
  OBVIOUS
<1>5. /\ r \in Seq(Packets) /\ Len(r) = 1 /\ r # <<>> /\ r[1].kind = kind /\ InSequence(r, 2)
  <2>1. kind \in Kinds /\ 2 \in Nat \ {0}
    BY DEF Kinds
  <2>. QED
    BY <1>4, <2>1, SingleShape
<1>6. out' = r
  BY <1>3, <1>4
<1>7. InOrder' /\ toServer' \in Seq(Commands)
  BY <1>1, <1>2, InOrderRead
<1>8. Typed'
  BY <1>1, <1>2, <1>3, <1>5, <1>6, <1>7 DEF Typed, TypeOK, client
<1>9. Writing'
  BY <1>3, <1>5, <1>6 DEF Writing
<1>10. Agreement'
  <2>1. Handled(Head(toServer), stmts) = stmts
    BY <1>2, HandledOther
  <2>2. ~misbound
    BY <1>1 DEF Agreement
  <2>. QED
    BY <1>1, <1>2, <2>1, <2>2, AgreementRead DEF client
<1>11. cl \in {"auth"} \cup Ended
  BY <1>1, <1>2 DEF Turns, Asked, Answered, Typed, TypeOK, Waiting
<1>12. cl = "auth" =>
          /\ toServer' = <<>> /\ cseq' = 2 /\ Coming' = r
  <2>1. SUFFICES ASSUME cl = "auth" PROVE toServer' = <<>> /\ cseq' = 2 /\ Coming' = r
    OBVIOUS
  <2>2. cseq = 2 /\ toServer = <<[kind |-> "response"]>> /\ Coming = <<>>
    BY <1>1, <1>2, <2>1 DEF Turns, Answered
  <2>3. toClient = <<>>
    BY <1>1, <2>2, NothingComing DEF Coming, Typed, TypeOK
  <2>4. Coming' = out'
    <3>1. toClient' = <<>> /\ toClient' \in Seq(Packets) /\ out' \in Seq(Packets)
      BY <1>2, <1>5, <1>6, <2>3, EmptySeq
    <3>. QED
      BY <3>1, NothingComing DEF Coming
  <2>5. Tail(toServer) = <<>>
    BY <2>2
  <2>. QED
    BY <1>2, <1>6, <2>2, <2>4, <2>5 DEF client
<1>13. Turns'
  <2>1. cl' = cl /\ (cl = "lost" => strange')
    BY <1>1, <1>2 DEF client, Turns
  <2>2. cl = "auth" => Answered' /\ InSequence(Coming, cseq)' /\ Len(Coming') = 1
                       /\ ((Coming'[1].kind = "ok" /\ ~Cut') \/ (Coming'[1].kind = "err" /\ Cut'))
    <3>1. SUFFICES ASSUME cl = "auth"
                   PROVE  Answered' /\ InSequence(Coming, cseq)' /\ Len(Coming') = 1
                          /\ ((Coming'[1].kind = "ok" /\ ~Cut') \/ (Coming'[1].kind = "err" /\ Cut'))
      OBVIOUS
    <3>2. toServer' = <<>> /\ cseq' = 2 /\ Coming' = r
      BY <1>12, <3>1
    <3>3. InSequence(Coming, cseq)' /\ Len(Coming') = 1 /\ Coming'[1].kind = kind
      BY <1>5, <3>2
    <3>4. (kind = "ok" /\ ~Cut') \/ (kind = "err" /\ Cut')
      <4>1. (kind = "ok" /\ then' = "command") \/ (kind = "err" /\ then' = "closed")
        BY <1>3
      <4>2. Cut' <=> then' = "closed"
        BY DEF Cut
      <4>. QED
        BY <4>1, <4>2
    <3>5. Answered'
      BY <1>3, <3>2, <3>3 DEF Answered
    <3>. QED
      BY <3>3, <3>4, <3>5
  <2>. QED
    BY <1>11, <1>12, <2>1, <2>2 DEF Turns, Ended
<1>. QED
  BY <1>7, <1>8, <1>9, <1>10, <1>13 DEF DialogueInv

LEMMA ConnectionFailsStep ==
    ASSUME DialogueInv, ConnectionFails
    PROVE  DialogueInv'
<1>1. Typed /\ Writing /\ InOrder /\ Turns /\ Agreement
  BY DEF DialogueInv
<1>2. /\ cl \in {"gone", "lost"} /\ srv' = "closed" /\ out' = <<>> /\ then' = "closed"
      /\ UNCHANGED <<dep, stmts, nextId, toServer, toClient, client, misbound, strange>>
  BY DEF ConnectionFails, Closes
<1>3. Typed'
  BY <1>1, <1>2, EmptySeq DEF Typed, TypeOK, client
<1>4. Writing'
  BY <1>2 DEF Writing
<1>5. InOrder'
  BY <1>1, <1>2 DEF InOrder
<1>6. Agreement'
  BY <1>1, <1>2, AgreementKept DEF client
<1>7. Turns'
  BY <1>1, <1>2 DEF Turns, client
<1>. QED
  BY <1>3, <1>4, <1>5, <1>6, <1>7 DEF DialogueInv
-----------------------------------------------------------------------------
(* The client sends a command.                                             *)

\* A command on its way, and the client waits for what answers it.
LEMMA SendTurns ==
    ASSUME DialogueInv, NEW c \in Commands, NEW next, Sends(c, next),
           next \in {"header", "prepare", "idle", "gone"},
           next = "header" => c.kind \in Requests,
           next = "prepare" => c.kind = "prepare",
           next = "idle" => c.kind \in Silent,
           c.kind = "prepare" => nextId <= MaxPrepares,
           known' \in StatementTable, UNCHANGED <<dep, server, toClient, left, misbound, strange>>
    PROVE  Typed' /\ Writing' /\ InOrder' /\ Turns'
<1>1. Typed /\ Writing /\ InOrder /\ Turns
  BY DEF DialogueInv
<1>2. /\ cl = "idle" /\ sent < MaxCommands /\ toServer' = Append(toServer, c)
      /\ sent' = sent + 1 /\ cl' = next /\ cseq' = 1
  BY DEF Sends
<1>3. PICK s \in Seq(Commands), u \in Seq(Commands) : s = toServer /\ u = toServer'
  BY <1>1, <1>2, AppendProperties DEF Typed
<1>4. PICK n \in Nat : n = Len(s)
  BY LenProperties
<1>5. Len(u) = n + 1 /\ u[n + 1] = c /\ \A i \in 1..n : u[i] = s[i]
  <2>1. u = Append(s, c)
    BY <1>2, <1>3
  <2>. QED
    BY <1>4, <2>1, AppendProperties
<1>6. /\ srv = "command" /\ Coming = <<>>
      /\ \A i \in 1..n : s[i].kind \in Silent
  BY <1>1, <1>2, <1>3, <1>4 DEF Turns
<1>7. ASSUME NEW i \in 1..n PROVE u[i].kind \in Silent
  BY <1>5, <1>6
<1>8. /\ srv' = srv /\ out' = out /\ then' = then /\ nextId' = nextId /\ stmts' = stmts
      /\ Coming' = Coming
  BY DEF server, Coming
<1>9. Typed'
  <2>1. sent' \in 0..MaxCommands /\ cseq' \in 0..(SeqNumbers - 1)
    BY <1>1, <1>2, ClosedType, SeqType DEF Typed, TypeOK
  <2>2. cl' \in Waiting \cup {"idle"} \cup Ended
    BY <1>2 DEF Waiting, Ended
  <2>. QED
    BY <1>1, <1>3, <1>8, <2>1, <2>2 DEF Typed, TypeOK
<1>10. Writing'
  BY <1>1, <1>8 DEF Writing
<1>11. InOrder'
  <2>1. ASSUME NEW i \in 1..(n + 1)
        PROVE  /\ i < n + 1 => u[i].kind \in Silent
               /\ u[i].kind = "prepare" => nextId <= MaxPrepares
    <3>1. CASE i \in 1..n
      BY <1>7, <3>1 DEF Silent
    <3>2. CASE i = n + 1
      BY <1>5, <3>2
    <3>. QED
      BY <3>1, <3>2
  <2>. QED
    BY <1>3, <1>5, <1>8, <2>1 DEF InOrder
<1>12. ASSUME NEW kinds, c.kind \in kinds PROVE Asked(kinds)'
  <2>1. u # <<>>
    BY <1>5, EmptySeq
  <2>. QED
    BY <1>2, <1>3, <1>5, <1>6, <1>8, <1>12, <2>1 DEF Asked
<1>13. /\ cl' = "header" => Asked(Requests)'
       /\ cl' = "prepare" => Asked({"prepare"})'
  BY <1>2, <1>12
<1>14. cl' = "idle" => \A i \in 1..(n + 1) : u[i].kind \in Silent
  <2>1. ASSUME cl' = "idle", NEW i \in 1..(n + 1) PROVE u[i].kind \in Silent
    <3>1. i \in 1..n \/ i = n + 1
      OBVIOUS
    <3>. QED
      BY <1>2, <1>5, <1>7, <2>1, <3>1
  <2>. QED
    BY <2>1
<1>15. Turns'
  <2>1. cl' \in {"header", "prepare", "idle", "gone"}
    BY <1>2
  <2>. QED
    BY <1>3, <1>5, <1>6, <1>8, <1>13, <1>14, <2>1 DEF Turns
<1>. QED
  BY <1>9, <1>10, <1>11, <1>15

\* A command without a statement.
LEMMA SendOther ==
    ASSUME DialogueInv, NEW c \in Commands, c.kind \notin {"execute", "long", "close", "reset"},
           NEW next, Sends(c, next), next \in {"header", "prepare", "gone"},
           next = "header" => c.kind \in Requests,
           next = "prepare" => c.kind = "prepare",
           c.kind = "prepare" => nextId <= MaxPrepares,
           known' \in StatementTable,
           \A i \in Ids : known'[i].open => known'[i] = known[i] /\ known[i].open
    PROVE  DialogueInv'
<1>1. Agreement /\ Typed /\ cl = "idle" /\ cl \notin Ended
  BY DEF DialogueInv, Sends, Ended
<1>2. /\ UNCHANGED <<dep, server, toClient, left, misbound, strange>>
      /\ UNCHANGED <<stmts, nextId, misbound>> /\ toServer' = Append(toServer, c)
  BY DEF Sends, server
<1>3. Typed' /\ Writing' /\ InOrder' /\ Turns'
  BY <1>2, SendTurns
<1>4. ASSUME NEW t \in StatementTable, ~t[0].open, Known(t)
      PROVE  /\ RightlyBound(c, t)
             /\ Handled(c, t) \in StatementTable /\ ~Handled(c, t)[0].open
             /\ cl' \notin Ended =>
                  \A i \in Ids : known'[i].open => known'[i] = Handled(c, t)[i] /\ i < nextId
  <2>1. Handled(c, t) = t
    BY HandledOther
  <2>2. RightlyBound(c, t)
    BY DEF RightlyBound
  <2>3. \A i \in Ids : known'[i].open => known'[i] = t[i] /\ i < nextId
    BY <1>4 DEF Known
  <2>. QED
    BY <1>4, <2>1, <2>2, <2>3
<1>5. Agreement'
  BY <1>1, <1>2, <1>4, AgreementSend
<1>. QED
  BY <1>3, <1>5 DEF DialogueInv

LEMMA PlainSends ==
    ASSUME DialogueInv, SendPlain \/ SendResetConn \/ SendPrepare
    PROVE  DialogueInv'
<1>1. known \in StatementTable
  BY DEF DialogueInv, Typed, TypeOK
<1>2. \A kind \in {"simple", "resetConn", "unsupported", "query", "quit", "prepare"} :
         [kind |-> kind] \in Commands
  BY DEF Commands
<1>3. CASE SendPlain
  <2>1. known' = known
    BY <1>3 DEF SendPlain
  <2>2. ASSUME NEW kind \in {"simple", "unsupported", "query"}, Sends([kind |-> kind], "header")
        PROVE  DialogueInv'
    <3>1. PICK c \in Commands : c = [kind |-> kind] /\ c.kind = kind
      BY <1>2
    <3>2. /\ Sends(c, "header") /\ c.kind \notin {"execute", "long", "close", "reset"}
          /\ c.kind \in Requests /\ c.kind # "prepare"
      BY <2>2, <3>1 DEF Requests
    <3>. QED
      BY <1>1, <2>1, <3>2, SendOther
  <2>3. CASE Sends([kind |-> "quit"], "gone")
    <3>1. PICK c \in Commands : c = [kind |-> "quit"] /\ c.kind = "quit"
      BY <1>2
    <3>2. Sends(c, "gone") /\ c.kind \notin {"execute", "long", "close", "reset"}
      BY <2>3, <3>1
    <3>. QED
      BY <1>1, <2>1, <3>1, <3>2, SendOther
  <2>. QED
    BY <1>3, <2>2, <2>3 DEF SendPlain
<1>4. CASE SendResetConn
  <2>1. known' \in StatementTable /\ \A i \in Ids : ~known'[i].open
    BY <1>4, ClosedType DEF SendResetConn, StatementTable
  <2>2. PICK c \in Commands : c = [kind |-> "resetConn"] /\ c.kind = "resetConn"
    BY <1>2
  <2>3. /\ Sends(c, "header") /\ c.kind \notin {"execute", "long", "close", "reset"}
        /\ c.kind \in Requests /\ c.kind # "prepare"
    BY <1>4, <2>2 DEF Requests, SendResetConn
  <2>. QED
    BY <2>1, <2>3, SendOther
<1>5. CASE SendPrepare
  <2>1. PICK c \in Commands : c = [kind |-> "prepare"] /\ c.kind = "prepare"
    BY <1>2
  <2>2. /\ Sends(c, "prepare") /\ c.kind \notin {"execute", "long", "close", "reset"}
        /\ nextId <= MaxPrepares /\ known' = known
    BY <1>5, <2>1 DEF SendPrepare
  <2>. QED
    BY <1>1, <2>1, <2>2, SendOther
<1>. QED
  BY <1>3, <1>4, <1>5

\* Command c about statement id, which is k to the client and then s, is fit for
\* a server that has the statement.
Fits(c, id, k, s) ==
    \A t \in StatementTable :
        ~t[0].open /\ t[id].open /\ k = t[id] =>
            /\ RightlyBound(c, t)
            /\ c.kind = "long" => t[id].long[c.param] < MaxPieces
            /\ s.open => s = Handled(c, t)[id]
            /\ \A i \in Ids : i # id => Handled(c, t)[i] = t[i]

\* A command about a statement.
LEMMA SendStatement ==
    ASSUME DialogueInv, NEW c \in Commands, c.kind \in {"execute", "long", "close", "reset"},
           NEW next, Sends(c, next), next \in {"header", "idle"},
           next = "header" => c.kind \in Requests, next = "idle" => c.kind \in Silent,
           NEW id \in Ids, c.id = id, NEW k, k = known[id], k.open \/ id = 0, NEW s,
           known' = [known EXCEPT ![id] = s], s.open => k.open, Fits(c, id, k, s),
           s \in [open : BOOLEAN, params : 0..MaxParams, types : Types \cup {Unbound},
                  long : [Params -> 0..MaxPieces]]
    PROVE  DialogueInv'
<1>1. Agreement /\ Typed /\ cl = "idle" /\ cl \notin Ended
  BY DEF DialogueInv, Sends, Ended
<1>2. /\ UNCHANGED <<dep, server, toClient, left, misbound, strange>>
      /\ UNCHANGED <<stmts, nextId, misbound>> /\ toServer' = Append(toServer, c)
  BY DEF Sends, server
<1>3. known' \in StatementTable
  BY <1>1 DEF Typed, TypeOK, StatementTable
<1>4. known'[id] = s /\ \A i \in Ids : i # id => known'[i] = known[i]
  BY <1>1 DEF Typed, TypeOK, StatementTable
<1>5. Typed' /\ Writing' /\ InOrder' /\ Turns'
  BY <1>2, <1>3, SendTurns
<1>6. ASSUME NEW t \in StatementTable, ~t[0].open, Known(t)
      PROVE  /\ RightlyBound(c, t)
             /\ Handled(c, t) \in StatementTable /\ ~Handled(c, t)[0].open
             /\ cl' \notin Ended =>
                  \A i \in Ids : known'[i].open => known'[i] = Handled(c, t)[i] /\ i < nextId
  <2>1. CASE known[id].open
    <3>1. known[id] = t[id] /\ t[id].open /\ id < nextId
      BY <1>6, <2>1 DEF Known
    <3>2. /\ RightlyBound(c, t)
          /\ c.kind = "long" => t[id].long[c.param] < MaxPieces
          /\ s.open => s = Handled(c, t)[id]
          /\ \A i \in Ids : i # id => Handled(c, t)[i] = t[i]
      BY <1>6, <3>1 DEF Fits
    <3>3. Handled(c, t) \in StatementTable /\ ~Handled(c, t)[0].open
      BY <1>6, <3>2, HandledType
    <3>4. ASSUME NEW i \in Ids, known'[i].open PROVE known'[i] = Handled(c, t)[i] /\ i < nextId
      <4>1. CASE i = id
        BY <1>4, <3>1, <3>2, <3>4, <4>1
      <4>2. CASE i # id
        BY <1>4, <1>6, <3>2, <3>4, <4>2 DEF Known
      <4>. QED
        BY <4>1, <4>2
    <3>. QED
      BY <3>2, <3>3, <3>4
  <2>2. CASE ~known[id].open
    <3>1. id = 0 /\ ~t[id].open /\ ~s.open
      BY <1>6, <2>2
    <3>2. RightlyBound(c, t)
      BY <3>1 DEF RightlyBound
    <3>3. /\ Handled(c, t) \in StatementTable /\ ~Handled(c, t)[0].open
          /\ \A i \in Ids : i # id => Handled(c, t)[i] = t[i]
      <4>1. CASE c.kind = "close"
        BY <1>6, <3>1, <4>1, ClosedType DEF Handled, StatementTable
      <4>2. CASE c.kind # "close"
        BY <1>6, <3>1, <4>2 DEF Handled
      <4>. QED
        BY <4>1, <4>2
    <3>4. ASSUME NEW i \in Ids, known'[i].open PROVE known'[i] = Handled(c, t)[i] /\ i < nextId
      BY <1>4, <1>6, <3>1, <3>3, <3>4 DEF Known
    <3>. QED
      BY <3>2, <3>3, <3>4
  <2>. QED
    BY <2>1, <2>2
<1>7. Agreement'
  BY <1>1, <1>2, <1>6, AgreementSend
<1>. QED
  BY <1>5, <1>7 DEF DialogueInv
LEMMA SendExecuteStep ==
    ASSUME DialogueInv, SendExecute
    PROVE  DialogueInv'
<1>1. known \in StatementTable
  BY DEF DialogueInv, Typed, TypeOK
<1>2. PICK id \in Ids :
        /\ known[id].open \/ id = 0
        /\ \E types \in {known[id].types} \cup (IF known[id].params > 0 THEN Types ELSE {}) :
             /\ Sends([kind |-> "execute", id |-> id,
                       types |-> IF types = known[id].types THEN Unbound ELSE types,
                       args |-> Arguments(types, known[id].long)], "header")
             /\ known' = [known EXCEPT ![id].types = types, ![id].long = NoPieces]
  BY DEF SendExecute
<1>3. PICK types \in {known[id].types} \cup (IF known[id].params > 0 THEN Types ELSE {}) :
        /\ Sends([kind |-> "execute", id |-> id,
                  types |-> IF types = known[id].types THEN Unbound ELSE types,
                  args |-> Arguments(types, known[id].long)], "header")
        /\ known' = [known EXCEPT ![id].types = types, ![id].long = NoPieces]
  BY <1>2
<1>4. PICK k : k = known[id]
  OBVIOUS
<1>5. /\ k \in [open : BOOLEAN, params : 0..MaxParams, types : Types \cup {Unbound},
                long : [Params -> 0..MaxPieces]]
      /\ types \in Types \cup {Unbound} /\ (types # k.types => k.params > 0 /\ types \in Types)
  <2>1. k \in [open : BOOLEAN, params : 0..MaxParams, types : Types \cup {Unbound},
               long : [Params -> 0..MaxPieces]]
    BY <1>1, <1>4 DEF StatementTable
  <2>2. types = k.types \/ (k.params > 0 /\ types \in Types)
    BY <1>3, <1>4
  <2>. QED
    BY <2>1, <2>2
<1>6. PICK bound \in Types \cup {Unbound} : bound = IF types = k.types THEN Unbound ELSE types
  BY <1>5
<1>7. PICK args \in Bound : args = Arguments(types, k.long)
  <2>1. Arguments(types, k.long) \in Bound
    BY <1>5 DEF Arguments, Bound
  <2>. QED
    BY <2>1
<1>8. PICK c \in Commands : /\ c = [kind |-> "execute", id |-> id, types |-> bound, args |-> args]
                            /\ c.kind = "execute" /\ c.id = id /\ c.types = bound /\ c.args = args
  <2>1. [kind |-> "execute", id |-> id, types |-> bound, args |-> args] \in Commands
    BY DEF Commands
  <2>. QED
    BY <2>1
<1>9. Sends(c, "header")
  BY <1>3, <1>4, <1>6, <1>7, <1>8
<1>10. PICK s : s = [k EXCEPT !.types = types, !.long = NoPieces]
  OBVIOUS
<1>11. /\ s \in [open : BOOLEAN, params : 0..MaxParams, types : Types \cup {Unbound},
                 long : [Params -> 0..MaxPieces]]
       /\ s.open = k.open
  BY <1>5, <1>10, ClosedType
<1>12. known' = [known EXCEPT ![id] = s]
  BY <1>1, <1>3, <1>4, <1>10 DEF StatementTable
<1>13. ASSUME NEW t \in StatementTable, ~t[0].open, t[id].open, k = t[id]
       PROVE  /\ RightlyBound(c, t)
              /\ s.open => s = Handled(c, t)[id]
              /\ \A i \in Ids : i # id => Handled(c, t)[i] = t[i]
  <2>1. PICK d : d = AfterDecode(k, bound)
    OBVIOUS
  <2>2. Handled(c, t) = [t EXCEPT ![id] = d]
    BY <1>8, <1>13, <2>1 DEF Handled
  <2>3. d = [k EXCEPT !.types = IF k.params > 0 /\ bound # Unbound THEN bound ELSE k.types,
                      !.long = NoPieces]
    BY <2>1 DEF AfterDecode
  <2>4. (IF k.params > 0 /\ bound # Unbound THEN bound ELSE k.types) = types
    <3>1. CASE types = k.types
      BY <1>6, <3>1
    <3>2. CASE types # k.types
      <4>1. types # Unbound
        BY <1>5, <3>2, DialogueAssumption
      <4>. QED
        BY <1>5, <1>6, <3>2, <4>1
    <3>. QED
      BY <3>1, <3>2
  <2>5. d = s /\ d.types = types
    BY <1>5, <1>10, <2>3, <2>4
  <2>6. RightlyBound(c, t)
    <3>1. AfterDecode(t[c.id], c.types) = d /\ t[c.id].long = k.long
      BY <1>8, <1>13, <2>1
    <3>. QED
      BY <1>7, <1>8, <2>5, <3>1 DEF RightlyBound
  <2>. QED
    BY <2>2, <2>5, <2>6 DEF StatementTable
<1>14. Fits(c, id, k, s)
  BY <1>8, <1>13 DEF Fits
<1>15. c.kind \in Requests /\ c.kind \in {"execute", "long", "close", "reset"}
  BY <1>8 DEF Requests
<1>. QED
  <2>1. k = known[id] /\ (k.open \/ id = 0) /\ c.id = id /\ (s.open => k.open)
    BY <1>2, <1>4, <1>8, <1>11
  <2>. QED
    BY <1>9, <1>11, <1>12, <1>14, <1>15, <2>1, SendStatement

LEMMA SendLongStep ==
    ASSUME DialogueInv, SendLong
    PROVE  DialogueInv'
<1>1. known \in StatementTable
  BY DEF DialogueInv, Typed, TypeOK
<1>2. PICK id \in Ids, param \in Params :
        /\ known[id].open /\ param <= known[id].params
        /\ known[id].long[param] < MaxPieces
        /\ Sends([kind |-> "long", id |-> id, param |-> param], "idle")
        /\ known' = [known EXCEPT ![id].long[param] = @ + 1]
  BY DEF SendLong
<1>3. PICK k : k = known[id]
  OBVIOUS
<1>4. k \in [open : BOOLEAN, params : 0..MaxParams, types : Types \cup {Unbound},
             long : [Params -> 0..MaxPieces]]
  BY <1>1, <1>3 DEF StatementTable
<1>5. PICK c \in Commands : /\ c = [kind |-> "long", id |-> id, param |-> param]
                            /\ c.kind = "long" /\ c.id = id /\ c.param = param
  <2>1. [kind |-> "long", id |-> id, param |-> param] \in Commands
    BY DEF Commands
  <2>. QED
    BY <2>1
<1>6. PICK m \in 0..MaxPieces : m = k.long[param]
  BY <1>4
<1>7. m < MaxPieces /\ m + 1 \in 0..MaxPieces
  BY <1>2, <1>3, <1>6, ClosedType
<1>8. PICK s : s = [k EXCEPT !.long = [k.long EXCEPT ![param] = m + 1]]
  OBVIOUS
<1>9. /\ s \in [open : BOOLEAN, params : 0..MaxParams, types : Types \cup {Unbound},
                long : [Params -> 0..MaxPieces]]
      /\ s.open = k.open
  BY <1>4, <1>7, <1>8
<1>10. known' = [known EXCEPT ![id] = s]
  BY <1>1, <1>2, <1>3, <1>6, <1>8 DEF StatementTable
<1>11. ASSUME NEW t \in StatementTable, ~t[0].open, t[id].open, k = t[id]
       PROVE  /\ RightlyBound(c, t)
              /\ t[id].long[c.param] < MaxPieces
              /\ s.open => s = Handled(c, t)[id]
              /\ \A i \in Ids : i # id => Handled(c, t)[i] = t[i]
  <2>1. Handled(c, t) = [t EXCEPT ![id] = s]
    BY <1>5, <1>6, <1>8, <1>11 DEF Handled
  <2>2. RightlyBound(c, t)
    BY <1>5 DEF RightlyBound
  <2>. QED
    <3>1. t[id].long[c.param] < MaxPieces
      BY <1>5, <1>6, <1>7, <1>11
    <3>2. Handled(c, t)[id] = s /\ \A i \in Ids : i # id => Handled(c, t)[i] = t[i]
      BY <2>1 DEF StatementTable
    <3>. QED
      BY <2>2, <3>1, <3>2
<1>12. c.kind \in Silent /\ c.kind \in {"execute", "long", "close", "reset"}
  BY <1>5 DEF Silent
<1>13. Sends(c, "idle") /\ known[id].open
  BY <1>2, <1>5
<1>. QED
  <2>1. k = known[id] /\ k.open /\ c.id = id /\ (s.open => k.open)
    BY <1>3, <1>5, <1>13
  <2>2. Fits(c, id, k, s)
    BY <1>11 DEF Fits
  <2>. QED
    BY <1>9, <1>10, <1>12, <1>13, <2>1, <2>2, SendStatement

LEMMA SendCloseStep ==
    ASSUME DialogueInv, SendClose
    PROVE  DialogueInv'
<1>1. PICK id \in Ids :
        /\ known[id].open /\ Sends([kind |-> "close", id |-> id], "idle")
        /\ known' = [known EXCEPT ![id] = Closed]
  BY DEF SendClose
<1>2. PICK c \in Commands : /\ c = [kind |-> "close", id |-> id]
                            /\ c.kind = "close" /\ c.id = id
  <2>1. [kind |-> "close", id |-> id] \in Commands
    BY DEF Commands
  <2>. QED
    BY <2>1
<1>3. PICK s : s = Closed
  OBVIOUS
<1>4. ASSUME NEW t \in StatementTable
      PROVE  /\ RightlyBound(c, t)
             /\ \A i \in Ids : i # id => Handled(c, t)[i] = t[i]
  <2>1. Handled(c, t) = [t EXCEPT ![id] = Closed]
    BY <1>2 DEF Handled
  <2>2. RightlyBound(c, t)
    BY <1>2 DEF RightlyBound
  <2>. QED
    BY <2>1, <2>2 DEF StatementTable
<1>5. c.kind \in Silent /\ c.kind \in {"execute", "long", "close", "reset"} /\ c.kind # "long"
  BY <1>2 DEF Silent
<1>6. Sends(c, "idle") /\ known' = [known EXCEPT ![id] = s] /\ known[id].open
  BY <1>1, <1>2, <1>3
<1>7. /\ s \in [open : BOOLEAN, params : 0..MaxParams, types : Types \cup {Unbound},
                long : [Params -> 0..MaxPieces]]
      /\ ~s.open
  BY <1>3, ClosedType
<1>. QED
  <2>1. PICK k : k = known[id] /\ k.open
    BY <1>6
  <2>2. Fits(c, id, k, s)
    BY <1>4, <1>5, <1>7 DEF Fits
  <2>. QED
    BY <1>2, <1>5, <1>6, <1>7, <2>1, <2>2, SendStatement

LEMMA SendResetStep ==
    ASSUME DialogueInv, SendReset
    PROVE  DialogueInv'
<1>1. known \in StatementTable
  BY DEF DialogueInv, Typed, TypeOK
<1>2. PICK id \in Ids :
        /\ known[id].open \/ id = 0
        /\ Sends([kind |-> "reset", id |-> id], "header")
        /\ known' = [known EXCEPT ![id].long = NoPieces]
  BY DEF SendReset
<1>3. PICK c \in Commands : /\ c = [kind |-> "reset", id |-> id]
                            /\ c.kind = "reset" /\ c.id = id
  <2>1. [kind |-> "reset", id |-> id] \in Commands
    BY DEF Commands
  <2>. QED
    BY <2>1
<1>4. PICK k, s : k = known[id] /\ s = [k EXCEPT !.long = NoPieces]
  OBVIOUS
<1>5. /\ s \in [open : BOOLEAN, params : 0..MaxParams, types : Types \cup {Unbound},
                long : [Params -> 0..MaxPieces]]
      /\ s.open = k.open
  BY <1>1, <1>4, ClosedType DEF StatementTable
<1>6. known' = [known EXCEPT ![id] = s]
  BY <1>1, <1>2, <1>4 DEF StatementTable
<1>7. ASSUME NEW t \in StatementTable, ~t[0].open, t[id].open, k = t[id]
      PROVE  /\ RightlyBound(c, t)
             /\ s.open => s = Handled(c, t)[id]
             /\ \A i \in Ids : i # id => Handled(c, t)[i] = t[i]
  <2>1. Handled(c, t) = [t EXCEPT ![id] = s]
    BY <1>3, <1>4, <1>7 DEF Handled
  <2>2. RightlyBound(c, t)
    BY <1>3 DEF RightlyBound
  <2>. QED
    BY <2>1, <2>2 DEF StatementTable
<1>8. c.kind \in Requests /\ c.kind \in {"execute", "long", "close", "reset"} /\ c.kind # "long"
  BY <1>3 DEF Requests
<1>9. Sends(c, "header") /\ (known[id].open \/ id = 0)
  BY <1>2, <1>3
<1>. QED
  <2>1. k = known[id] /\ (k.open \/ id = 0) /\ (s.open => k.open)
    BY <1>4, <1>5, <1>9
  <2>2. Fits(c, id, k, s)
    BY <1>7, <1>8 DEF Fits
  <2>. QED
    BY <1>3, <1>5, <1>6, <1>8, <1>9, <2>1, <2>2, SendStatement
-----------------------------------------------------------------------------
(* The client reads a packet, or stops.                                    *)

LEMMA Stops ==
    ASSUME DialogueInv, SeeClosed \/ Abort
    PROVE  DialogueInv'
<1>1. Typed /\ Writing /\ InOrder /\ Turns /\ Agreement
  BY DEF DialogueInv
<1>2. /\ cl' \in {"gone", "cut"}
      /\ UNCHANGED <<dep, server, toServer, toClient, left, cseq, known, sent, misbound, strange>>
  BY DEF SeeClosed, Abort
<1>3. Typed'
  BY <1>1, <1>2 DEF Typed, TypeOK, server, Ended
<1>4. Writing' /\ InOrder'
  BY <1>1, <1>2 DEF Writing, InOrder, server
<1>5. Agreement'
  BY <1>1, <1>2, AgreementKept DEF server, Ended
<1>6. Turns'
  BY <1>2 DEF Turns
<1>. QED
  BY <1>3, <1>4, <1>5, <1>6 DEF DialogueInv

\* The client reads the head of what is coming.
LEMMA ReadsNext ==
    ASSUME Typed, toClient # <<>>, toClient' = Tail(toClient), UNCHANGED out
    PROVE  /\ Coming \in Seq(Packets) /\ Coming # <<>> /\ Coming' = Tail(Coming)
           /\ Head(toClient) = Coming[1] /\ Head(toClient) \in Packets
           /\ toClient' \in Seq(Packets)
BY ReadNext DEF Typed, TypeOK, Coming

\* The last packet.
LEMMA LastRead ==
    ASSUME Typed, Writing, toClient # <<>>, toClient' = Tail(toClient), UNCHANGED out,
           Len(Coming) = 1
    PROVE  out = <<>> /\ Coming' = <<>> /\ srv # "writing"
<1>1. PICK a \in Seq(Packets), b \in Seq(Packets), r \in Seq(Packets) :
         a = toClient /\ b = out /\ r = Coming /\ r = a \o b /\ a # <<>> /\ r # <<>>
  BY ReadsNext DEF Typed, TypeOK, Coming
<1>2. Len(a) \in Nat \ {0} /\ Len(b) \in Nat /\ Len(r) = Len(a) + Len(b)
  BY <1>1, EmptySeq, LenProperties, ConcatProperties
<1>3. Len(b) = 0
  BY <1>1, <1>2
<1>4. b = <<>>
  BY <1>3, EmptySeq
<1>5. PICK t \in Seq(Packets) : t = Tail(r)
  BY <1>1, HeadTailProperties
<1>6. Len(t) = 0
  <2>1. PICK k \in Nat : k = 0
    OBVIOUS
  <2>2. Len(r) = k + 1
    BY <1>1, <2>1
  <2>. QED
    BY <1>5, <2>1, <2>2, RestOf
<1>7. t = <<>>
  BY <1>6, EmptySeq
<1>8. Coming' = t
  BY <1>1, <1>5, ReadsNext
<1>. QED
  BY <1>1, <1>4, <1>7, <1>8 DEF Writing

LEMMA ReceiveGreetingStep ==
    ASSUME DialogueInv, ReceiveGreeting
    PROVE  DialogueInv'
<1>1. Typed /\ Writing /\ InOrder /\ Turns /\ Agreement
  BY DEF DialogueInv
<1>2. /\ cl = "greeting" /\ toClient # <<>>
      /\ cl' = (IF Head(toClient) = Packet("greeting") THEN "auth" ELSE "lost")
      /\ toClient' = Tail(toClient)
      /\ toServer' = Append(toServer, [kind |-> "response"])
      /\ cseq' = 2
      /\ UNCHANGED <<dep, server, left, known, sent, misbound, strange>>
  BY DEF ReceiveGreeting
<1>3. UNCHANGED <<srv, out, then, stmts, nextId>>
  BY <1>2 DEF server
<1>4. /\ Coming \in Seq(Packets) /\ Coming # <<>> /\ Coming' = Tail(Coming)
      /\ Head(toClient) = Coming[1] /\ toClient' \in Seq(Packets)
  BY <1>1, <1>2, <1>3, ReadsNext
<1>5. /\ toServer = <<>> /\ srv \in {"writing", "auth"} /\ then = "auth"
      /\ Coming = <<Packet("greeting")>>
  BY <1>1, <1>2, <1>4 DEF Turns
<1>6. Len(Coming) = 1 /\ Head(toClient) = Packet("greeting")
  BY <1>4, <1>5
<1>7. out = <<>> /\ Coming' = <<>> /\ srv = "auth"
  BY <1>1, <1>2, <1>3, <1>5, <1>6, LastRead
<1>8. cl' = "auth"
  BY <1>2, <1>6
<1>9. PICK c \in Commands : c = [kind |-> "response"] /\ c.kind = "response"
  <2>1. [kind |-> "response"] \in Commands
    BY DEF Commands
  <2>. QED
    BY <2>1
<1>10. /\ toServer' = <<[kind |-> "response"]>> /\ toServer' \in Seq(Commands)
       /\ Len(toServer') = 1 /\ toServer'[1] = c
  BY <1>2, <1>5, <1>9
<1>11. Typed'
  <2>1. cseq' \in 0..(SeqNumbers - 1)
    BY <1>2, SeqType
  <2>2. cl' \in Waiting
    BY <1>8 DEF Waiting
  <2>. QED
    BY <1>1, <1>2, <1>3, <1>4, <1>10, <2>1, <2>2 DEF Typed, TypeOK
<1>12. Writing'
  BY <1>1, <1>3 DEF Writing
<1>13. InOrder'
  BY <1>9, <1>10 DEF InOrder
<1>14. Turns'
  BY <1>2, <1>3, <1>7, <1>8, <1>10 DEF Turns
<1>15. Agreement'
  <2>1. ASSUME NEW t \in StatementTable, ~t[0].open, Known(t)
        PROVE  /\ RightlyBound(c, t)
               /\ Handled(c, t) \in StatementTable /\ ~Handled(c, t)[0].open
               /\ cl' \notin Ended =>
                    \A i \in Ids : known'[i].open => known'[i] = Handled(c, t)[i] /\ i < nextId
    <3>1. Handled(c, t) = t
      BY <1>9, HandledOther
    <3>2. RightlyBound(c, t)
      BY <1>9 DEF RightlyBound
    <3>3. \A i \in Ids : known'[i].open => known'[i] = t[i] /\ i < nextId
      BY <1>2, <2>1 DEF Known
    <3>. QED
      BY <2>1, <3>1, <3>2, <3>3
  <2>2. toServer' = Append(toServer, c) /\ cl \notin Ended
    BY <1>2, <1>9 DEF Ended
  <2>. QED
    BY <1>1, <1>2, <1>3, <2>1, <2>2, AgreementSend
<1>. QED
  BY <1>11, <1>12, <1>13, <1>14, <1>15 DEF DialogueInv

\* What the packet in its place does to the client.
LEMMA NextStates ==
    ASSUME NEW p
    PROVE  /\ cl = "auth" => NextState(p) = IF p.kind = "ok" THEN "idle"
                                            ELSE IF p.kind = "err" THEN "gone" ELSE "lost"
           /\ cl = "header" => NextState(p) = IF p.kind \in {"ok", "err"} THEN "idle"
                                              ELSE IF p.kind = "count" /\ p.n > 0
                                                   THEN "columns" ELSE "lost"
           /\ cl = "columns" => NextState(p) = IF p.kind = "column" THEN AfterColumns(left - 1)
                                               ELSE "lost"
           /\ cl = "columnsEOF" => NextState(p) = IF p.kind = "eof" THEN "rows" ELSE "lost"
           /\ cl = "rows" => NextState(p) = IF p.kind = "row" THEN "rows"
                                            ELSE IF p.kind \in {"eof", "err"} THEN "idle" ELSE "lost"
           /\ cl = "prepare" => NextState(p) = IF p.kind = "err" THEN "idle"
                                               ELSE IF p.kind = "prepared"
                                                    THEN IF p.n = 0 THEN "idle" ELSE "params"
                                                    ELSE "lost"
           /\ cl = "params" => NextState(p) = IF p.kind = "column" THEN AfterParams(left - 1)
                                              ELSE "lost"
           /\ cl = "paramsEOF" => NextState(p) = IF p.kind = "eof" THEN "idle" ELSE "lost"
<1>1. cl = "auth" => NextState(p) = IF p.kind = "ok" THEN "idle"
                                    ELSE IF p.kind = "err" THEN "gone" ELSE "lost"
  BY DEF NextState
<1>2. cl = "header" => NextState(p) = IF p.kind \in {"ok", "err"} THEN "idle"
                                      ELSE IF p.kind = "count" /\ p.n > 0
                                           THEN "columns" ELSE "lost"
  BY DEF NextState
<1>3. cl = "columns" => NextState(p) = IF p.kind = "column" THEN AfterColumns(left - 1)
                                       ELSE "lost"
  BY DEF NextState
<1>4. cl = "columnsEOF" => NextState(p) = IF p.kind = "eof" THEN "rows" ELSE "lost"
  BY DEF NextState
<1>5. cl = "rows" => NextState(p) = IF p.kind = "row" THEN "rows"
                                    ELSE IF p.kind \in {"eof", "err"} THEN "idle" ELSE "lost"
  BY DEF NextState
<1>6. cl = "prepare" => NextState(p) = IF p.kind = "err" THEN "idle"
                                       ELSE IF p.kind = "prepared"
                                            THEN IF p.n = 0 THEN "idle" ELSE "params"
                                            ELSE "lost"
  BY DEF NextState
<1>7. cl = "params" => NextState(p) = IF p.kind = "column" THEN AfterParams(left - 1)
                                      ELSE "lost"
  BY DEF NextState
<1>8. cl = "paramsEOF" => NextState(p) = IF p.kind = "eof" THEN "idle" ELSE "lost"
  BY DEF NextState
<1>. QED
  BY <1>1, <1>2, <1>3, <1>4, <1>5, <1>6, <1>7, <1>8
\* A packet took the client to state next, with l definitions still to come.
Follows(next, l, p) ==
    /\ next \in {"idle", "gone", "lost", "columns", "columnsEOF", "rows", "params", "paramsEOF"}
    /\ next = "lost" => strange
    /\ next = "idle" => Len(Coming) = 1 /\ ~Cut
    /\ next = "columns" =>
          l \in Nat /\ l > 0 /\ ResultComes(Tail(Coming), l, Definitions, then)
    /\ next = "columnsEOF" => ResultComes(Tail(Coming), 0, 1, then)
    /\ next = "rows" => ResultComes(Tail(Coming), 0, 0, then)
    /\ next = "params" =>
          ~Cut /\ l \in Nat /\ l > 0 /\ ParamsCome(Tail(Coming), l, Definitions)
    /\ next = "paramsEOF" => ~Cut /\ ParamsCome(Tail(Coming), 0, 1)
    /\ p.kind = "prepared" /\ next # "lost" => Answered /\ PreparedComes(Coming)

\* The packet that comes is one that NextState has a place for, and what remains is
\* what the next state waits for.
LEMMA ReceiveFollows ==
    ASSUME Typed, Turns, cl \in Waiting \ {"greeting"}, Coming \in Seq(Packets), Coming # <<>>,
           NEW p, p = Coming[1], NEW next, next = NextState(p),
           NEW l, l = (IF p.kind \in {"count", "prepared"} THEN p.n
                       ELSE IF next \in {"columns", "params"} THEN left - 1 ELSE 0)
    PROVE  Answered /\ Follows(next, l, p)
<1>1. PICK r \in Seq(Packets) : r = Coming /\ r # <<>> /\ p = r[1]
  OBVIOUS
<1>2. PICK e \in {0, 1} : e = Definitions /\ (dep <=> e = 0)
  BY DefinitionsType DEF Typed, TypeOK, Definitions
<1>3. left \in Nat
  BY DEF Typed, TypeOK
<1>4. ~Asked(Requests) /\ ~Asked({"prepare"})
  BY DEF Asked
<1>5. cl \in {"auth", "header", "columns", "columnsEOF", "rows", "prepare", "params", "paramsEOF"}
  BY DEF Waiting
<1>6. Answered
  BY <1>4, <1>5 DEF Turns
<1>7. CASE cl = "auth"
  <2>1. Len(r) = 1 /\ ((p.kind = "ok" /\ ~Cut) \/ (p.kind = "err" /\ Cut))
    BY <1>1, <1>7 DEF Turns
  <2>2. next = IF p.kind = "ok" THEN "idle" ELSE "gone"
    BY <1>7, <2>1, NextStates
  <2>. QED
    BY <1>1, <1>6, <2>1, <2>2 DEF Follows
<1>8. CASE cl = "header"
  <2>1. AnswerComes(r)
    BY <1>1, <1>4, <1>8 DEF Turns
  <2>2. CASE Len(r) = 1 /\ p.kind \in {"ok", "err"} /\ ~Cut
    <3>1. next = "idle"
      BY <1>8, <2>2, NextStates
    <3>. QED
      BY <1>1, <1>6, <2>2, <3>1 DEF Follows
  <2>3. CASE /\ p.kind = "count" /\ (p.n > 0 \/ strange)
             /\ ResultComes(Tail(r), p.n, Definitions, then)
    <3>1. next = (IF p.n > 0 THEN "columns" ELSE "lost") /\ l = p.n
      BY <1>8, <2>3, NextStates
    <3>2. p.n \in Nat
      <4>1. Head(r) \in Packets /\ Head(r) = r[1]
        BY <1>1, HeadTailProperties
      <4>. QED
        BY <1>1, <4>1 DEF Packets
    <3>. QED
      BY <1>1, <1>6, <2>3, <3>1, <3>2 DEF Follows
  <2>. QED
    BY <1>1, <2>1, <2>2, <2>3 DEF AnswerComes
<1>9. CASE cl = "columns"
  <2>1. left > 0 /\ ResultComes(r, left, e, then)
    BY <1>1, <1>2, <1>9 DEF Turns
  <2>2. PICK k \in Nat : k = left - 1
    BY <1>3, <2>1
  <2>3. p.kind = "column" /\ ResultComes(Tail(r), k, e, then)
    <3>1. left \in Nat \ {0}
      BY <1>3, <2>1
    <3>. QED
      BY <1>1, <2>1, <2>2, <3>1, DefinitionRead
  <2>4. next = AfterColumns(k)
    BY <1>9, <2>2, <2>3, NextStates
  <2>5. CASE k > 0
    <3>1. next = "columns" /\ l = k
      BY <2>2, <2>3, <2>4, <2>5 DEF AfterColumns
    <3>. QED
      BY <1>1, <1>2, <1>6, <2>3, <2>5, <3>1 DEF Follows
  <2>6. CASE k = 0 /\ e = 0
    <3>1. next = "rows"
      BY <1>2, <2>4, <2>6 DEF AfterColumns
    <3>. QED
      BY <1>1, <1>6, <2>3, <2>6, <3>1 DEF Follows
  <2>7. CASE k = 0 /\ e = 1
    <3>1. next = "columnsEOF"
      BY <1>2, <2>4, <2>7 DEF AfterColumns
    <3>. QED
      BY <1>1, <1>6, <2>3, <2>7, <3>1 DEF Follows
  <2>. QED
    BY <2>5, <2>6, <2>7
<1>10. CASE cl = "columnsEOF"
  <2>1. ResultComes(r, 0, 1, then)
    BY <1>1, <1>10 DEF Turns
  <2>2. p.kind = "eof" /\ ResultComes(Tail(r), 0, 0, then)
    BY <1>1, <2>1, DefinitionsEndRead
  <2>3. next = "rows"
    BY <1>10, <2>2, NextStates
  <2>. QED
    BY <1>1, <1>6, <2>2, <2>3 DEF Follows
<1>11. CASE cl = "rows"
  <2>1. ResultComes(r, 0, 0, then)
    BY <1>1, <1>11 DEF Turns
  <2>2. \/ p.kind = "row" /\ ResultComes(Tail(r), 0, 0, then)
        \/ p.kind \in {"eof", "err"} /\ Len(r) = 1 /\ then # "closed"
    BY <1>1, <2>1, RowRead
  <2>3. next = IF p.kind = "row" THEN "rows" ELSE "idle"
    BY <1>11, <2>2, NextStates
  <2>. QED
    BY <1>1, <1>6, <2>2, <2>3 DEF Follows, Cut
<1>12. CASE cl = "prepare"
  <2>1. PreparedComes(r) /\ ~Cut
    BY <1>1, <1>4, <1>12 DEF Turns
  <2>2. CASE Len(r) = 1 /\ p.kind = "err"
    <3>1. next = "idle"
      BY <1>12, <2>2, NextStates
    <3>. QED
      BY <1>1, <1>6, <2>1, <2>2, <3>1 DEF Follows
  <2>3. CASE /\ p.kind = "prepared" /\ p.n \in 0..MaxParams
             /\ ParamsCome(Tail(r), p.n, IF p.n > 0 THEN Definitions ELSE 0)
    <3>1. next = (IF p.n = 0 THEN "idle" ELSE "params") /\ l = p.n /\ p.n \in Nat
      <4>1. p.n \in Nat
        BY <2>3, ClosedType
      <4>. QED
        BY <1>12, <2>3, <4>1, NextStates
    <3>2. CASE p.n = 0
      <4>1. ParamsCome(Tail(r), 0, 0)
        BY <2>3, <3>2
      <4>2. Len(Tail(r)) = 0
        BY <4>1 DEF ParamsCome
      <4>3. Len(r) = 1
        BY <1>1, <4>2, EmptySeq, HeadTailProperties
      <4>. QED
        BY <1>1, <1>6, <2>1, <3>1, <3>2, <4>3 DEF Follows
    <3>3. CASE p.n > 0
      <4>1. ParamsCome(Tail(r), p.n, Definitions)
        BY <2>3, <3>3
      <4>. QED
        BY <1>1, <1>6, <2>1, <3>1, <3>3, <4>1 DEF Follows
    <3>. QED
      BY <3>1, <3>2, <3>3
  <2>. QED
    BY <1>1, <2>1, <2>2, <2>3 DEF PreparedComes
<1>13. CASE cl = "params"
  <2>1. left > 0 /\ ParamsCome(r, left, e) /\ ~Cut
    BY <1>1, <1>2, <1>13 DEF Turns
  <2>2. PICK k \in Nat : k = left - 1
    BY <1>3, <2>1
  <2>3. p.kind = "column" /\ ParamsCome(Tail(r), k, e)
    <3>1. left \in Nat \ {0}
      BY <1>3, <2>1
    <3>. QED
      BY <1>1, <2>1, <2>2, <3>1, ParamRead
  <2>4. next = AfterParams(k)
    BY <1>13, <2>2, <2>3, NextStates
  <2>5. CASE k > 0
    <3>1. next = "params" /\ l = k
      BY <2>2, <2>3, <2>4, <2>5 DEF AfterParams
    <3>. QED
      BY <1>1, <1>2, <1>6, <2>1, <2>3, <2>5, <3>1 DEF Follows
  <2>6. CASE k = 0 /\ e = 0
    <3>1. next = "idle"
      BY <1>2, <2>4, <2>6 DEF AfterParams
    <3>2. Len(r) = 1
      <4>1. left = 1
        BY <1>3, <2>2, <2>6
      <4>. QED
        BY <2>1, <2>6, <4>1 DEF ParamsCome
    <3>. QED
      BY <1>1, <1>6, <2>1, <2>3, <2>6, <3>1, <3>2 DEF Follows
  <2>7. CASE k = 0 /\ e = 1
    <3>1. next = "paramsEOF"
      BY <1>2, <2>4, <2>7 DEF AfterParams
    <3>. QED
      BY <1>1, <1>6, <2>1, <2>3, <2>7, <3>1 DEF Follows
  <2>. QED
    BY <2>5, <2>6, <2>7
<1>14. CASE cl = "paramsEOF"
  <2>1. ParamsCome(r, 0, 1) /\ ~Cut
    BY <1>1, <1>14 DEF Turns
  <2>2. p.kind = "eof" /\ Len(r) = 1
    BY <1>1, <2>1, ParamsEndRead
  <2>3. next = "idle"
    BY <1>14, <2>2, NextStates
  <2>. QED
    BY <1>1, <1>6, <2>1, <2>2, <2>3 DEF Follows
<1>. QED
  BY <1>5, <1>7, <1>8, <1>9, <1>10, <1>11, <1>12, <1>13, <1>14

LEMMA ReceiveStep ==
    ASSUME DialogueInv, Receive
    PROVE  DialogueInv'
<1>1. Typed /\ Writing /\ InOrder /\ Turns /\ Agreement
  BY DEF DialogueInv
<1>2. PICK p, next, l :
        /\ p = Head(toClient) /\ next = (IF p.seq = cseq THEN NextState(p) ELSE "lost")
        /\ l = (IF p.kind \in {"count", "prepared"} THEN p.n
                ELSE IF next \in {"columns", "params"} THEN left - 1 ELSE 0)
  OBVIOUS
<1>3. /\ cl \in Waiting \ {"greeting"} /\ toClient # <<>> /\ cl' = next /\ left' = l
      /\ known' = (IF p.kind = "prepared" /\ next # "lost"
                   THEN [known EXCEPT ![p.id] = Prepared(p.n)] ELSE known)
      /\ toClient' = Tail(toClient) /\ cseq' = (cseq + 1) % SeqNumbers
      /\ UNCHANGED <<dep, server, toServer, sent, misbound, strange>>
  BY <1>2 DEF Receive
<1>4. UNCHANGED <<srv, out, then, stmts, nextId>>
  BY <1>3 DEF server
<1>5. /\ Coming \in Seq(Packets) /\ Coming # <<>> /\ Coming' = Tail(Coming)
      /\ p = Coming[1] /\ p \in Packets /\ toClient' \in Seq(Packets)
  BY <1>1, <1>2, <1>3, <1>4, ReadsNext
<1>6. cseq \in 0..(SeqNumbers - 1) /\ cseq' \in 0..(SeqNumbers - 1)
  <2>1. cseq \in 0..(SeqNumbers - 1)
    BY <1>1 DEF Typed, TypeOK
  <2>2. cseq + 1 \in Nat
    BY <2>1, SeqType
  <2>. QED
    BY <1>3, <2>1, <2>2, SeqType
<1>7. InSequence(Coming, cseq) => p.seq = cseq /\ InSequence(Coming, cseq)'
  BY <1>3, <1>5, <1>6, RestInSequence
<1>8. Answered /\ Follows(next, l, p)
  <2>1. PICK n, m : /\ n = NextState(p)
                    /\ m = (IF p.kind \in {"count", "prepared"} THEN p.n
                            ELSE IF n \in {"columns", "params"} THEN left - 1 ELSE 0)
    OBVIOUS
  <2>2. Answered /\ Follows(n, m, p)
    BY <1>1, <1>3, <1>5, <2>1, ReceiveFollows
  <2>3. CASE p.seq = cseq
    <3>1. n = next /\ m = l
      BY <1>2, <2>1, <2>3
    <3>. QED
      BY <2>2, <3>1
  <2>4. CASE p.seq # cseq
    <3>1. next = "lost" /\ strange
      BY <1>2, <1>7, <2>2, <2>4 DEF Answered
    <3>. QED
      BY <2>2, <3>1 DEF Follows
  <2>. QED
    BY <2>3, <2>4
<1>9. Answered'
  BY <1>3, <1>4, <1>7, <1>8 DEF Answered
<1>10. next = "idle" => srv = "command" /\ Coming' = <<>>
  <2>1. SUFFICES ASSUME next = "idle" PROVE srv = "command" /\ Coming' = <<>>
    OBVIOUS
  <2>2. Len(Coming) = 1 /\ then # "closed"
    BY <1>8, <2>1 DEF Follows, Cut
  <2>3. Coming' = <<>> /\ srv # "writing"
    BY <1>1, <1>3, <1>4, <2>2, LastRead
  <2>4. srv \in {"command", "closed"} /\ srv = then
    BY <1>1, <1>8, <2>3 DEF Answered, Writing, Typed, TypeOK
  <2>. QED
    BY <2>2, <2>3, <2>4
<1>11. l \in Nat
  <2>1. CASE p.kind \in {"count", "prepared"}
    BY <1>2, <1>5, <2>1 DEF Packets
  <2>2. CASE p.kind \notin {"count", "prepared"}
    BY <1>2, <1>8, <2>2 DEF Follows
  <2>. QED
    BY <2>1, <2>2
<1>12. p.kind = "prepared" /\ next # "lost" =>
          /\ p.id \in Ids /\ p.id < nextId /\ p.n \in 0..MaxParams
          /\ stmts[p.id] = Prepared(p.n) /\ toServer = <<>>
  BY <1>5, <1>8 DEF Follows, PreparedComes, Answered
<1>13. known' \in StatementTable
  <2>1. CASE p.kind = "prepared" /\ next # "lost"
    <3>1. PICK s : s = Prepared(p.n)
      OBVIOUS
    <3>2. s \in [open : BOOLEAN, params : 0..MaxParams, types : Types \cup {Unbound},
                 long : [Params -> 0..MaxPieces]]
      BY <1>12, <2>1, <3>1, ClosedType
    <3>. QED
      BY <1>1, <1>3, <2>1, <3>1, <3>2 DEF Typed, TypeOK, StatementTable
  <2>2. CASE ~(p.kind = "prepared" /\ next # "lost")
    BY <1>1, <1>3, <2>2 DEF Typed, TypeOK
  <2>. QED
    BY <2>1, <2>2
<1>14. Typed'
  <2>1. cl' \in Waiting \cup {"idle"} \cup Ended
    BY <1>3, <1>8 DEF Follows, Waiting, Ended
  <2>. QED
    BY <1>1, <1>3, <1>4, <1>5, <1>6, <1>11, <1>13, <2>1 DEF Typed, TypeOK
<1>15. Writing' /\ InOrder'
  BY <1>1, <1>3, <1>4 DEF Writing, InOrder
<1>16. Agreement'
  <2>1. CASE p.kind = "prepared" /\ next # "lost"
    <3>1. ~stmts[0].open /\ stmts \in StatementTable /\ (cl \notin Ended => Known(stmts))
      BY <1>1, <1>12, <2>1, AgreementNow
    <3>2. Known(stmts)
      BY <1>3, <3>1 DEF Waiting, Ended
    <3>3. Known(stmts)'
      <4>1. ASSUME NEW i \in Ids, known'[i].open PROVE known'[i] = stmts[i] /\ i < nextId
        <5>1. CASE i = p.id
          <6>1. known'[i] = Prepared(p.n)
            BY <1>1, <1>3, <1>12, <2>1, <5>1 DEF Typed, TypeOK, StatementTable
          <6>. QED
            BY <1>12, <2>1, <5>1, <6>1
        <5>2. CASE i # p.id
          <6>1. known'[i] = known[i]
            BY <1>1, <1>3, <2>1, <5>2 DEF Typed, TypeOK, StatementTable
          <6>. QED
            BY <3>2, <4>1, <6>1 DEF Known
        <5>. QED
          BY <5>1, <5>2
      <4>. QED
        BY <1>4, <4>1 DEF Known
    <3>4. toServer' = <<>> /\ ~misbound'
      BY <1>1, <1>3, <1>12, <2>1 DEF Agreement
    <3>5. stmts' \in StatementTable /\ ~stmts'[0].open
      BY <1>4, <3>1
    <3>. QED
      BY <3>3, <3>4, <3>5, FreshAgreement
  <2>2. CASE ~(p.kind = "prepared" /\ next # "lost")
    <3>1. known' = known
      BY <1>3, <2>2
    <3>2. PICK h : Tables(h) /\ (cl \notin Ended => Known(h[Len(toServer)]))
      BY <1>1 DEF Agreement
    <3>3. cl \notin Ended
      BY <1>3 DEF Waiting, Ended
    <3>4. Tables(h)' /\ Known(h[Len(toServer)])'
      BY <1>3, <1>4, <3>1, <3>2, <3>3 DEF Tables, Known
    <3>5. ~misbound'
      BY <1>1, <1>3 DEF Agreement
    <3>. QED
      BY <3>4, <3>5 DEF Agreement
  <2>. QED
    BY <2>1, <2>2
<1>17. Turns'
  <2>1. toServer' = <<>> /\ Definitions' = Definitions /\ (Cut' <=> Cut)
    BY <1>3, <1>4, <1>8 DEF Answered, Definitions, Cut
  <2>2. /\ next = "lost" => strange'
        /\ next = "columns" => left' > 0 /\ ResultComes(Coming, left, Definitions, then)'
        /\ next = "columnsEOF" => ResultComes(Coming, 0, 1, then)'
        /\ next = "rows" => ResultComes(Coming, 0, 0, then)'
        /\ next = "params" => ~Cut' /\ left' > 0 /\ ParamsCome(Coming, left, Definitions)'
        /\ next = "paramsEOF" => ~Cut' /\ ParamsCome(Coming, 0, 1)'
    BY <1>3, <1>4, <1>5, <1>8, <2>1 DEF Follows
  <2>3. next = "idle" => srv' = "command" /\ Coming' = <<>>
    BY <1>4, <1>10
  <2>4. next \in {"idle", "gone", "lost", "columns", "columnsEOF", "rows", "params", "paramsEOF"}
    BY <1>8 DEF Follows
  <2>5. \A i \in 1..Len(toServer') : toServer'[i].kind \in Silent
    <3>1. Len(toServer') = 0
      BY <2>1
    <3>. QED
      BY <3>1
  <2>. QED
    BY <1>3, <1>9, <2>2, <2>3, <2>4, <2>5 DEF Turns
<1>. QED
  BY <1>14, <1>15, <1>16, <1>17 DEF DialogueInv
-----------------------------------------------------------------------------
(* The invariant, and what follows from it.                                *)

LEMMA InitDialogueInv == Init => DialogueInv
<1>. SUFFICES ASSUME Init PROVE DialogueInv
  OBVIOUS
<1>1. /\ stmts \in StatementTable /\ known \in StatementTable
      /\ \A i \in Ids : stmts[i] = Closed /\ known[i] = Closed
  BY ClosedType DEF Init, StatementTable
<1>2. 0 \in 0..(SeqNumbers - 1) /\ 1 \in 1..(MaxPrepares + 1) /\ 0 \in 0..MaxCommands
  BY SeqType, ClosedType
<1>3. out = <<>> /\ toClient = <<>> /\ toServer = <<>> /\ Len(toServer) = 0
  BY DEF Init
<1>4. /\ out \in Seq(Packets) /\ toClient \in Seq(Packets) /\ toServer \in Seq(Commands)
      /\ Coming = <<>>
  BY <1>3, EmptySeq, ConcatEmptySeq DEF Coming
<1>5. Typed
  BY <1>1, <1>2, <1>4 DEF Init, Typed, TypeOK, Waiting
<1>6. Writing
  BY DEF Init, Writing
<1>7. InOrder
  BY <1>3 DEF InOrder
<1>8. Turns
  BY <1>4 DEF Init, Turns
<1>9. Agreement
  <2>1. PICK h : h = [i \in 0..0 |-> stmts]
    OBVIOUS
  <2>2. h \in [0..0 -> StatementTable] /\ h[0] = stmts
    BY <1>1, <2>1
  <2>3. ~stmts[0].open
    BY <1>1, ClosedType
  <2>4. (\A i \in 0..0 : ~h[i][0].open) /\ 1..0 = {}
    BY <2>2, <2>3
  <2>5. Tables(h)
    BY <1>3, <2>2, <2>4 DEF Tables
  <2>6. Known(h[Len(toServer)])
    BY <1>1, ClosedType DEF Known
  <2>7. ~misbound
    BY DEF Init
  <2>. QED
    BY <2>5, <2>6, <2>7 DEF Agreement
<1>. QED
  BY <1>5, <1>6, <1>7, <1>8, <1>9 DEF DialogueInv

LEMMA NextDialogueInv == DialogueInv /\ [Next]_vars => DialogueInv'
<1>. SUFFICES ASSUME DialogueInv, [Next]_vars PROVE DialogueInv'
  OBVIOUS
<1>1. CASE ServerStep
  BY <1>1, GreetStep, WritePacketStep, AuthenticateStep, PlainRequests, HandlePrepareStep,
     HandleExecuteStep, SilentSteps, HandleResetStep, ConnectionFailsStep DEF ServerStep
<1>2. CASE ClientStep
  BY <1>2, ReceiveStep, ReceiveGreetingStep, Stops DEF ClientStep
<1>3. CASE Send
  BY <1>3, PlainSends, SendExecuteStep, SendLongStep, SendCloseStep, SendResetStep DEF Send
<1>4. CASE Abort
  BY <1>4, Stops
<1>5. CASE UNCHANGED vars
  <2>1. UNCHANGED <<dep, srv, out, then, stmts, nextId, toServer, toClient, cl, left, cseq,
                    known, sent, misbound, strange>>
    BY <1>5 DEF vars, server, client
  <2>2. Coming' = Coming /\ Definitions' = Definitions
    BY <2>1 DEF Coming, Definitions
  <2>3. Typed' /\ Writing' /\ InOrder'
    BY <2>1 DEF DialogueInv, Typed, TypeOK, Writing, InOrder
  <2>4. Agreement'
    BY <2>1, AgreementKept DEF DialogueInv
  <2>5. Turns'
    BY <2>1, <2>2 DEF DialogueInv, Turns, Asked, Answered, AnswerComes, PreparedComes, Cut
  <2>. QED
    BY <2>3, <2>4, <2>5 DEF DialogueInv
<1>. QED
  BY <1>1, <1>2, <1>3, <1>4, <1>5 DEF Next

LEMMA DialogueInvariance == Spec => []DialogueInv
<1>. QED
  BY InitDialogueInv, NextDialogueInv, PTL DEF Spec

\* The loop of serve and the handlers keep the connection's variables in their
\* types: in particular a statement's id is never beyond those given out, and
\* a packet's number is a byte.
THEOREM DialogueTypes == Spec => []TypeOK
<1>1. DialogueInv => TypeOK
  BY DEF DialogueInv, Typed
<1>. QED
  BY <1>1, DialogueInvariance, PTL

\* Whatever the protocol writers send, for every number of columns, rows and
\* parameters, with EOF packets and without: a client that reads by the
\* protocol never meets a packet out of place or out of sequence, unless a
\* result had no columns or a row was too long for a packet.
THEOREM ClientsFollow == Spec => []ClientFollows
<1>1. DialogueInv => ClientFollows
  BY DEF DialogueInv, Turns, ClientFollows
<1>. QED
  BY <1>1, DialogueInvariance, PTL

\* When a client takes a response for complete, serve is back at its next read
\* or will be there without writing: no packet is left that the answer to the
\* next command would be mistaken for.
THEOREM InStep == Spec => []InStepWhenIdle
<1>1. DialogueInv => InStepWhenIdle
  <2>. SUFFICES ASSUME DialogueInv, cl = "idle"
       PROVE  /\ toClient = <<>> /\ srv \notin {"greet", "auth", "writing"}
              /\ \A i \in DOMAIN toServer : toServer[i].kind \in {"long", "close"}
    BY DEF InStepWhenIdle
  <2>1. /\ srv = "command" /\ Coming = <<>>
        /\ \A i \in 1..Len(toServer) : toServer[i].kind \in Silent
    BY DEF DialogueInv, Turns
  <2>2. toClient \in Seq(Packets) /\ out \in Seq(Packets) /\ toServer \in Seq(Commands)
    BY DEF DialogueInv, Typed, TypeOK
  <2>3. toClient = <<>>
    BY <2>1, <2>2, NothingComing DEF Coming
  <2>4. DOMAIN toServer = 1..Len(toServer)
    BY <2>2, LenProperties
  <2>. QED
    BY <2>1, <2>3, <2>4 DEF Silent
<1>. QED
  BY <1>1, DialogueInvariance, PTL

\* decodeExecuteArgs has always bound the types and the long data that the
\* client meant, for any number of statements and commands on their way; and
\* once serve has handled them all, what the client knows of its statements
\* is what c.statements holds.
THEOREM StatementsAgreement == Spec => []StatementsAgree
<1>1. DialogueInv => StatementsAgree
  <2>. SUFFICES ASSUME DialogueInv PROVE StatementsAgree
    OBVIOUS
  <2>1. ~misbound
    BY DEF DialogueInv, Agreement
  <2>2. ASSUME cl = "idle", toServer = <<>>
        PROVE  \A id \in Ids : known[id].open => known[id] = stmts[id]
    <3>1. cl \notin Ended
      BY <2>2 DEF Ended
    <3>2. Known(stmts)
      BY <2>2, <3>1, AgreementNow DEF DialogueInv
    <3>. QED
      BY <3>2 DEF Known
  <2>. QED
    BY <2>1, <2>2 DEF StatementsAgree
<1>. QED
  BY <1>1, DialogueInvariance, PTL
=============================================================================
