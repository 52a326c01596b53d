------------------------------ MODULE Dialogue ------------------------------
(***************************************************************************)
(* One connection's wire dialogue: the server loop serve with the packet   *)
(* sequences its handlers write (protocol.go, protocol_codec.go), the      *)
(* prepared statements of the session (prepared.go), and the client driver *)
(* that decodes them and keeps its own idea of its statements.             *)
(*                                                                         *)
(* A packet is its kind and its sequence number, a byte (SeqNumbers        *)
(* values).  The server writes one packet per step; the client reads them  *)
(* in order and closes the connection as lost when one is out of sequence  *)
(* or does not belong where it stands.                                     *)
(*                                                                         *)
(* Packets are shorter than 2^24-1 bytes, or rows of 2^24 and more, which  *)
(* writePacket refuses.  The length between announces a continued packet:  *)
(* neither writePacket nor readPacket knows those, and neither does the    *)
(* model.                                                                  *)
(***************************************************************************)
EXTENDS Naturals, Sequences

CONSTANTS
    SeqNumbers,       \* sequence numbers are taken modulo this
    Types,        \* vectors of parameter types a client binds
    Unbound,      \* no types were ever sent for the statement
    MaxColumns, MaxRows, MaxParams,
    MaxPieces,    \* bound of the model: SEND_LONG_DATA packets per parameter
    MaxPrepares,  \* bound of the model: statements prepared
    MaxCommands   \* bound of the model: commands sent

ASSUME DialogueAssumption ==
    /\ SeqNumbers \in Nat /\ SeqNumbers > 2
    /\ Unbound \notin Types
    /\ {MaxColumns, MaxRows, MaxParams, MaxPieces, MaxPrepares, MaxCommands} \subseteq Nat

VARIABLES
    dep,       \* the client set CLIENT_DEPRECATE_EOF
    srv,       \* what the handler does
    out,       \* packets of the response it has still to write
    then,      \* what it does after them
    stmts,     \* c.statements, by id
    nextId,    \* c.nextStatementID
    toServer, toClient,
    cl,        \* what the client waits for
    left,      \* column definitions it still expects
    cseq,      \* the sequence number it expects
    known,     \* the statements it has open, as it thinks of them
    sent,      \* commands it has sent
    misbound,  \* history: a statement ran with other arguments than sent
    strange    \* history: a result without columns, or a row of 16MB or more

server == <<srv, out, then, stmts, nextId>>
client == <<cl, left, cseq, known, sent>>
vars == <<dep, server, toServer, toClient, client, misbound, strange>>

Ids == 0..MaxPrepares   \* 0 is no statement's id
Params == 1..MaxParams

NoPieces == [p \in Params |-> 0]
Closed == [open |-> FALSE, params |-> 0, types |-> Unbound, long |-> NoPieces]
Prepared(n) == [Closed EXCEPT !.open = TRUE, !.params = n]
StatementTable == [Ids -> [open : BOOLEAN, params : 0..MaxParams, types : Types \cup {Unbound},
                           long : [Params -> 0..MaxPieces]]]

\* Arguments: the bound types, and which pieces of long data each one got.
Arguments(types, long) == [types |-> types, long |-> long]

Kinds == {"greeting", "ok", "err", "eof", "count", "column", "row", "prepared"}
Packets == [kind : Kinds, seq : 0..(SeqNumbers - 1), n : Nat, id : Nat]
Packet(kind) == [kind |-> kind, seq |-> 0, n |-> 0, id |-> 0]

Waiting == {"greeting", "auth", "header", "columns", "columnsEOF", "rows",
            "prepare", "params", "paramsEOF"}
Ended == {"gone", "lost", "cut"}

TypeOK ==
    /\ dep \in BOOLEAN
    /\ srv \in {"greet", "auth", "command", "writing", "closed"}
    /\ out \in Seq(Packets)
    /\ then \in {"auth", "command", "closed"}
    /\ stmts \in StatementTable /\ known \in StatementTable
    /\ nextId \in 1..(MaxPrepares + 1)
    /\ toClient \in Seq(Packets)
    /\ cl \in Waiting \cup {"idle"} \cup Ended
    /\ left \in Nat
    /\ cseq \in 0..(SeqNumbers - 1)
    /\ sent \in 0..MaxCommands
    /\ misbound \in BOOLEAN /\ strange \in BOOLEAN

Init ==
    /\ dep \in BOOLEAN
    /\ srv = "greet" /\ out = <<>> /\ then = "auth"
    /\ stmts = [i \in Ids |-> Closed] /\ nextId = 1
    /\ toServer = <<>> /\ toClient = <<>>
    /\ cl = "greeting" /\ left = 0 /\ cseq = 0
    /\ known = [i \in Ids |-> Closed] /\ sent = 0
    /\ misbound = FALSE /\ strange = FALSE

-----------------------------------------------------------------------------
(* The packet sequences of the protocol writers.                           *)

\* Numbered from seq on: every writer counts a byte up by one per packet.
Numbered(packets, seq) ==
    [i \in 1..Len(packets) |-> [packets[i] EXCEPT !.seq = (seq + i - 1) % SeqNumbers]]

Repeat(n, packet) == [i \in 1..n |-> packet]

\* Mutant of DefinitionsEnd: an EOF packet whatever the client asked for.
DefinitionsEndAlways == <<Packet("eof")>>

\* writeColumnDefinitionTerminator.
DefinitionsEnd == IF dep THEN <<>> ELSE <<Packet("eof")>>

Columns(n) == <<[Packet("count") EXCEPT !.n = n]>> \o Repeat(n, Packet("column")) \o DefinitionsEnd

\* writeResultSet and writeBinaryResultSet; the last packet is an EOF, or an
\* OK with an EOF's header.
ResultSet(cols, rws) == Columns(cols) \o Repeat(rws, Packet("row")) \o <<Packet("eof")>>

\* Mutant of PrepareReply: terminated without parameters as well.
PrepareReplyAlwaysEnds(id, n) ==
    <<[Packet("prepared") EXCEPT !.n = n, !.id = id]>> \o Repeat(n, Packet("column"))
    \o DefinitionsEnd

\* handleStmtPrepare.
PrepareReply(id, n) ==
    <<[Packet("prepared") EXCEPT !.n = n, !.id = id]>> \o Repeat(n, Packet("column"))
    \o (IF n > 0 THEN DefinitionsEnd ELSE <<>>)

-----------------------------------------------------------------------------
(* The server.                                                             *)

Writes(packets, next) ==
    /\ srv' = "writing"
    /\ out' = packets
    /\ then' = next

Replies(packets) == Writes(Numbered(packets, 1), "command")
RepliesThenCloses(packets) == Writes(Numbered(packets, 1), "closed")
ReplyOK == Replies(<<Packet("ok")>>)
ReplyErr == Replies(<<Packet("err")>>)

Closes ==
    /\ srv' = "closed"
    /\ out' = <<>>
    /\ then' = "closed"

\* writeHandshake.
Greet ==
    /\ srv = "greet"
    /\ Writes(<<Packet("greeting")>>, "auth")
    /\ UNCHANGED <<dep, stmts, nextId, toServer, toClient, client, misbound, strange>>

\* The next packet of the response.
WritePacket ==
    /\ srv = "writing" /\ out # <<>>
    /\ toClient' = Append(toClient, Head(out))
    /\ out' = Tail(out)
    /\ srv' = IF Len(out) = 1 THEN then ELSE srv
    /\ UNCHANGED <<dep, then, stmts, nextId, toServer, client, misbound, strange>>

\* Takes the next command of that kind off the connection.
Reads(at, kind) ==
    /\ srv = at /\ toServer # <<>>
    /\ Head(toServer).kind = kind
    /\ toServer' = Tail(toServer)

\* readHandshakeResponse accepts any user, or refuses and serve returns.
Authenticate ==
    /\ Reads("auth", "response")
    /\ \/ Writes(Numbered(<<Packet("ok")>>, 2), "command")
       \/ Writes(Numbered(<<Packet("err")>>, 2), "closed")
    /\ UNCHANGED <<dep, stmts, nextId, toClient, client, misbound, strange>>

\* COM_PING, COM_INIT_DB, and COM_RESET_CONNECTION, which resets nothing.
HandleSimple ==
    /\ Reads("command", "simple") \/ Reads("command", "resetConn")
    /\ ReplyOK
    /\ UNCHANGED <<dep, stmts, nextId, toClient, client, misbound, strange>>

\* Mutant of HandleUnsupported: ignored.
HandleUnsupportedSilently ==
    /\ Reads("command", "unsupported")
    /\ UNCHANGED <<dep, server, toClient, client, misbound, strange>>

\* An unsupported command, or COM_STMT_EXECUTE and COM_STMT_RESET cut short.
HandleUnsupported ==
    /\ Reads("command", "unsupported")
    /\ ReplyErr
    /\ UNCHANGED <<dep, stmts, nextId, toClient, client, misbound, strange>>

\* COM_QUIT, an empty packet, or COM_STMT_SEND_LONG_DATA cut short.
HandleQuit ==
    /\ Reads("command", "quit")
    /\ Closes
    /\ UNCHANGED <<dep, stmts, nextId, toClient, client, misbound, strange>>

\* COM_QUERY.  A PRAGMA or a WITH that writes has no columns; a row that
\* cannot be scanned or is too long ends the connection between two rows.
HandleQuery ==
    /\ Reads("command", "query")
    /\ \/ ReplyOK /\ UNCHANGED strange
       \/ ReplyErr /\ UNCHANGED strange
       \/ Closes /\ UNCHANGED strange
       \/ \E cols \in 0..MaxColumns, rws \in 0..MaxRows :
            /\ \/ Replies(ResultSet(cols, rws))
               \/ RepliesThenCloses(Columns(cols) \o Repeat(rws, Packet("row")))
            /\ strange' = (strange \/ cols = 0)
    /\ UNCHANGED <<dep, stmts, nextId, toClient, client, misbound>>

\* COM_STMT_PREPARE: too many parameters, or a new id.
HandlePrepare ==
    /\ Reads("command", "prepare")
    /\ \/ ReplyErr /\ UNCHANGED <<stmts, nextId>>
       \/ \E n \in 0..MaxParams :
            /\ Replies(PrepareReply(nextId, n))
            /\ stmts' = [stmts EXCEPT ![nextId] = Prepared(n)]
            /\ nextId' = nextId + 1
    /\ UNCHANGED <<dep, toClient, client, misbound, strange>>

\* Mutants of AfterDecode: long data stays; types stay as bound first.
AfterDecodeLongStays(stmt, types) ==
    [stmt EXCEPT !.types = IF stmt.params > 0 /\ types # Unbound THEN types ELSE @]
AfterDecodeTypesStay(stmt, types) ==
    [stmt EXCEPT !.types = IF stmt.params > 0 /\ @ = Unbound THEN types ELSE @,
                 !.long = NoPieces]

\* decodeExecuteArgs: the statement after it, long data dropped in any case.
AfterDecode(stmt, types) ==
    [stmt EXCEPT !.types = IF stmt.params > 0 /\ types # Unbound THEN types ELSE @,
                 !.long = NoPieces]

\* The outcomes of a statement that was executed: as for a query, but rows
\* are encoded before the first packet.  A row of 16MB or more is refused
\* when its turn comes, and answered by an error numbered 1.
ExecuteReply ==
    \/ ReplyOK /\ UNCHANGED strange
    \/ ReplyErr /\ UNCHANGED strange
    \/ Closes /\ UNCHANGED strange
    \/ \E cols \in 0..MaxColumns, rws \in 0..MaxRows :
         \/ /\ Replies(ResultSet(cols, rws))
            /\ strange' = (strange \/ cols = 0)
         \/ /\ Writes(Numbered(Columns(cols) \o Repeat(rws, Packet("row")), 1)
                        \o Numbered(<<Packet("err")>>, 1), "command")
            /\ strange' = TRUE

\* COM_STMT_EXECUTE.
HandleExecute ==
    /\ Reads("command", "execute")
    /\ LET command == Head(toServer)
           stmt == stmts[command.id]
           decoded == AfterDecode(stmt, command.types) IN
       IF ~stmt.open
       THEN ReplyErr /\ UNCHANGED <<stmts, misbound, strange>>
       ELSE /\ stmts' = [stmts EXCEPT ![command.id] = decoded]
            /\ IF stmt.params > 0 /\ decoded.types = Unbound
               THEN ReplyErr /\ UNCHANGED <<misbound, strange>>
               ELSE /\ ExecuteReply
                    /\ misbound' = (misbound \/
                          Arguments(decoded.types, stmt.long) # command.args)
    /\ UNCHANGED <<dep, nextId, toClient, client>>

\* COM_STMT_SEND_LONG_DATA is not answered, COM_STMT_CLOSE neither.
HandleSendLong ==
    /\ Reads("command", "long")
    /\ LET command == Head(toServer) IN
       stmts' = IF stmts[command.id].open
                THEN [stmts EXCEPT ![command.id].long[command.param] = @ + 1] ELSE stmts
    /\ UNCHANGED <<dep, srv, out, then, nextId, toClient, client, misbound, strange>>

HandleClose ==
    /\ Reads("command", "close")
    /\ stmts' = [stmts EXCEPT ![Head(toServer).id] = Closed]
    /\ UNCHANGED <<dep, srv, out, then, nextId, toClient, client, misbound, strange>>

\* Mutant of HandleReset: it only answers.
HandleResetKeepsData ==
    /\ Reads("command", "reset")
    /\ IF stmts[Head(toServer).id].open THEN ReplyOK ELSE ReplyErr
    /\ UNCHANGED <<dep, stmts, nextId, toClient, client, misbound, strange>>

HandleReset ==
    /\ Reads("command", "reset")
    /\ LET id == Head(toServer).id IN
       IF stmts[id].open
       THEN ReplyOK /\ stmts' = [stmts EXCEPT ![id].long = NoPieces]
       ELSE ReplyErr /\ UNCHANGED stmts
    /\ UNCHANGED <<dep, nextId, toClient, client, misbound, strange>>

\* Mutant of ConnectionFails: the loop goes on after a failed read.
ConnectionFailsOnWrite ==
    /\ cl \in {"gone", "lost"} /\ srv \in {"greet", "writing"}
    /\ Closes
    /\ UNCHANGED <<dep, stmts, nextId, toServer, toClient, client, misbound, strange>>

\* A read or a write fails once the client has closed its end.
ConnectionFails ==
    /\ cl \in {"gone", "lost"} /\ srv # "closed"
    /\ srv \in {"greet", "writing"} \/ toServer = <<>>
    /\ Closes
    /\ UNCHANGED <<dep, stmts, nextId, toServer, toClient, client, misbound, strange>>

ServerStep ==
    \/ Greet \/ WritePacket \/ Authenticate
    \/ HandleSimple \/ HandleUnsupported \/ HandleQuit \/ HandleQuery
    \/ HandlePrepare \/ HandleExecute \/ HandleSendLong \/ HandleClose \/ HandleReset
    \/ ConnectionFails

-----------------------------------------------------------------------------
(* The client driver (outside the repository).                             *)

\* Sends a command and waits in state next for its answer.
Sends(command, next) ==
    /\ cl = "idle" /\ sent < MaxCommands
    /\ toServer' = Append(toServer, command)
    /\ sent' = sent + 1
    /\ cl' = next /\ cseq' = 1
    /\ UNCHANGED <<dep, server, toClient, left, misbound, strange>>

SendPlain ==
    /\ \/ \E kind \in {"simple", "unsupported", "query"} : Sends([kind |-> kind], "header")
       \/ Sends([kind |-> "quit"], "gone")
    /\ UNCHANGED known

\* To the client COM_RESET_CONNECTION drops its statements.
SendResetConn ==
    /\ Sends([kind |-> "resetConn"], "header")
    /\ known' = [i \in Ids |-> Closed]

SendPrepare ==
    /\ nextId <= MaxPrepares
    /\ Sends([kind |-> "prepare"], "prepare")
    /\ UNCHANGED known

\* Types go along only when they differ from those sent last; a client may
\* also leave them out too early, or name a statement that is none.
SendExecute ==
    \E id \in Ids :
        /\ known[id].open \/ id = 0
        /\ \E types \in {known[id].types} \cup (IF known[id].params > 0 THEN Types ELSE {}) :
             /\ Sends([kind |-> "execute", id |-> id,
                       types |-> IF types = known[id].types THEN Unbound ELSE types,
                       args |-> Arguments(types, known[id].long)], "header")
             /\ known' = [known EXCEPT ![id].types = types, ![id].long = NoPieces]

SendLong ==
    \E id \in Ids, param \in Params :
        /\ known[id].open /\ param <= known[id].params
        /\ known[id].long[param] < MaxPieces
        /\ Sends([kind |-> "long", id |-> id, param |-> param], "idle")
        /\ known' = [known EXCEPT ![id].long[param] = @ + 1]

SendClose ==
    \E id \in Ids :
        /\ known[id].open
        /\ Sends([kind |-> "close", id |-> id], "idle")
        /\ known' = [known EXCEPT ![id] = Closed]

SendReset ==
    \E id \in Ids :
        /\ known[id].open \/ id = 0
        /\ Sends([kind |-> "reset", id |-> id], "header")
        /\ known' = [known EXCEPT ![id].long = NoPieces]

\* Where a packet in its place takes the client; "lost" when it has no place.
AfterColumns(n) == IF n > 0 THEN "columns" ELSE IF dep THEN "rows" ELSE "columnsEOF"
AfterParams(n) == IF n > 0 THEN "params" ELSE IF dep THEN "idle" ELSE "paramsEOF"

NextState(p) ==
    CASE cl = "auth" /\ p.kind \in {"ok", "err"} -> IF p.kind = "ok" THEN "idle" ELSE "gone"
      [] cl = "header" /\ p.kind \in {"ok", "err"} -> "idle"
      [] cl = "header" /\ p.kind = "count" /\ p.n > 0 -> "columns"
      [] cl = "columns" /\ p.kind = "column" -> AfterColumns(left - 1)
      [] cl = "columnsEOF" /\ p.kind = "eof" -> "rows"
      [] cl = "rows" /\ p.kind = "row" -> "rows"
      [] cl = "rows" /\ p.kind \in {"eof", "err"} -> "idle"
      [] cl = "prepare" /\ p.kind = "err" -> "idle"
      [] cl = "prepare" /\ p.kind = "prepared" -> IF p.n = 0 THEN "idle" ELSE "params"
      [] cl = "params" /\ p.kind = "column" -> AfterParams(left - 1)
      [] cl = "paramsEOF" /\ p.kind = "eof" -> "idle"
      [] OTHER -> "lost"

Receive ==
    /\ cl \in Waiting \ {"greeting"} /\ toClient # <<>>
    /\ LET p == Head(toClient)
           next == IF p.seq = cseq THEN NextState(p) ELSE "lost" IN
       /\ cl' = next
       /\ left' = IF p.kind \in {"count", "prepared"} THEN p.n
                  ELSE IF next \in {"columns", "params"} THEN left - 1 ELSE 0
       /\ known' = IF p.kind = "prepared" /\ next # "lost"
                   THEN [known EXCEPT ![p.id] = Prepared(p.n)] ELSE known
    /\ toClient' = Tail(toClient)
    /\ cseq' = (cseq + 1) % SeqNumbers
    /\ UNCHANGED <<dep, server, toServer, sent, misbound, strange>>

\* The greeting is answered by the handshake response, packet 1.
ReceiveGreeting ==
    /\ cl = "greeting" /\ toClient # <<>>
    /\ cl' = IF Head(toClient) = Packet("greeting") THEN "auth" ELSE "lost"
    /\ toClient' = Tail(toClient)
    /\ toServer' = Append(toServer, [kind |-> "response"])
    /\ cseq' = 2
    /\ UNCHANGED <<dep, server, left, known, sent, misbound, strange>>

\* The server has closed the connection.
SeeClosed ==
    /\ cl \notin Ended /\ srv = "closed" /\ toClient = <<>>
    /\ cl' = "cut"
    /\ UNCHANGED <<dep, server, toServer, toClient, left, cseq, known, sent, misbound, strange>>

\* The client gives up, in the middle of a response as well.
Abort ==
    /\ cl \notin Ended
    /\ cl' = "gone"
    /\ UNCHANGED <<dep, server, toServer, toClient, left, cseq, known, sent, misbound, strange>>

ClientStep == Receive \/ ReceiveGreeting \/ SeeClosed

Send ==
    \/ SendPlain \/ SendResetConn \/ SendPrepare \/ SendExecute \/ SendLong \/ SendClose
    \/ SendReset

Next == ServerStep \/ ClientStep \/ Send \/ Abort

\* The handler runs on, and a client reads what it waits for.
Spec == Init /\ [][Next]_vars /\ WF_vars(ServerStep) /\ WF_vars(ClientStep)

-----------------------------------------------------------------------------
(* Properties.                                                             *)

\* With and without EOF packets, every response is one the client can follow
\* to its end, numbers included, unless it had no columns or a huge row.
ClientFollows == cl = "lost" => strange

\* When the client takes a response for complete, the server has written all
\* of it: nothing is on its way that the next command's answer would be
\* mistaken for, and what the server has still to read is not to be answered.
InStepWhenIdle ==
    cl = "idle" =>
        /\ toClient = <<>> /\ srv \notin {"greet", "auth", "writing"}
        /\ \A i \in DOMAIN toServer : toServer[i].kind \in {"long", "close"}

\* Types bound by an earlier execute and long data sent before this one have
\* always reached exactly the execute they were meant for; and as soon as the
\* client's commands are processed, its statements exist on the server under
\* the same ids, with what it has sent for them.
StatementsAgree ==
    /\ ~misbound
    /\ cl = "idle" /\ toServer = <<>> /\ srv = "command" =>
           \A id \in Ids : known[id].open => known[id] = stmts[id]

\* A client that waits is answered, or its connection ends; and when the client
\* is gone, the handler returns.
NobodyIsLeftWaiting ==
    /\ cl \in Waiting ~> cl = "idle" \/ cl \in Ended
    /\ cl \in Ended ~> srv = "closed"
=============================================================================
