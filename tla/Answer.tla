------------------------------- MODULE Answer ------------------------------
(***************************************************************************)
(* What a client reads in answer to a request: the responses an executor   *)
(* makes (executor_query.go, query/resultset.go, pgbench.go, copy.go, and  *)
(* Describe of server_query_handler.go), how the connection writes them    *)
(* one by one (conn_impl.go), and the messages the client makes out of the *)
(* bytes.  The bytes are the subject of Messages, the choice of the SQL    *)
(* executor that of Executors; the order in which requests are taken, and  *)
(* what several of them do to each other, is the subject of Session.       *)
(*                                                                         *)
(* A client sends a request when it has read the answer to the one before. *)
(* Between two requests the application may replace its executors.         *)
(***************************************************************************)
EXTENDS Executors, Messages

CONSTANTS
    ResultSets, \* what the SQL executors return: [names, types, rows]
    Selectors,  \* the names that a statement that is described selects
    Statements, \* the texts that the SQL library makes of statements
    Counts      \* how many rows a statement changes

\* A value that is NULL is accepted by no cast.
Cell == {cell \in [go : GoTypes, v : Int31, casts : BOOLEAN] : cell.go = "nil" => ~cell.casts}

Names == {name \in Texts : Len(name) <= MaxInt16}

ASSUME ResultSetsAssumption ==
    \A rs \in ResultSets :
        /\ rs.names \in Seq(Names) /\ rs.types \in Seq(QueryTypes) /\ rs.rows \in Seq(Seq(Cell))
        /\ Len(rs.names) = Len(rs.types)
        /\ \A r \in DOMAIN rs.rows : Len(rs.rows[r]) = Len(rs.types)
        /\ Len(rs.types) <= MaxInt16 /\ Len(rs.rows) <= MaxInt32

ASSUME SelectorsAssumption ==
    \A names \in Selectors : names \in Seq(Names) /\ Len(names) <= MaxInt16

ASSUME CountsAssumption == Counts \subseteq 0 .. MaxInt32

Counted == {"INSERT", "UPDATE", "DELETE"}

\* The statements of the query executor and those of the executor of "ex" that
\* are made ALTER TABLEs; each is answered with its own text, as the SQL library
\* writes it.
Tagged  == {"BEGIN", "COMMIT", "ROLLBACK", "CREATE DATABASE", "CREATE TABLE",
            "ALTER DATABASE", "ALTER TABLE", "DROP DATABASE", "DROP TABLE"}
Indexes == {"CREATE INDEX", "DROP INDEX"}
Extra   == Indexes \cup {"TRUNCATE"}

\* TRUNCATE and VACUUM, which reaches no executor below, are answered with a
\* word of the program, and so is the query that has no statement.
WithoutCount == Statements \cup {"TRUNCATE", "VACUUM", "EMPTY"}

\* The words before a count have no space, and the text of a statement that is
\* answered with it does not start with one of them.
ASSUME TagsAssumption ==
    /\ WithCount \cup WithoutCount \cup {"error", "client", "server", "UTF8"}
          \subseteq DOMAIN Spelling
    /\ \A word \in WithCount : \A i \in DOMAIN Spelling[word] : Spelling[word][i] # Space
    /\ \A word \in WithoutCount : ~StartsWithCounted(Spelling[word])

\* what an executor returns instead of a result
Failure == [failure |-> TRUE]

\* A request, and what the executor below makes of it.  short: the text is
\* shorter than the query of pgbench that the error handler compares it with;
\* known: it is that query.
Request ==
         [type : {"SELECT", "SYSTEM SELECT"}, result : ResultSets \cup {Failure}]
    \cup [type : Counted, result : [n : Counts] \cup {Failure}]
    \cup [type : Tagged \cup Indexes, result : {[n |-> 0], Failure}, text : Statements]
    \cup [type : {"TRUNCATE"}, result : {[n |-> 0], Failure}]
    \cup [type : {"SYNTAX ERROR"}, short : BOOLEAN, known : BOOLEAN]
    \cup [type : {"COPY"}, result : [n : {n \in Counts : n <= MaxInt16}] \cup {Failure}]
    \cup [type : {"Describe"}, result : ResultSets \cup {Failure}, names : Selectors]
    \cup [type : {"STARTUP", "PASSWORD REFUSED", "VACUUM", "EMPTY", "Parse", "Bind",
                  "Close", "Describe portal", "Describe other", "Sync"}]

None == [type |-> "none"]

VARIABLES
    request,    \* the request that is answered
    pending,    \* the responses that are still to be written
    failed,     \* the error that is still to be written, <<>> if there is none
    stage,      \* "idle", "write", or "crashed"
    wire,       \* the bytes that the client has not read
    sent,       \* the messages of the answer that have been written
    seen        \* the messages of the answer that the client has read

answerVars == <<request, pending, failed, stage, wire, sent, seen>>
vars       == <<executorVars, answerVars>>

Error == <<Spelling["error"]>>

TypeOK ==
    /\ ExecutorsTypeOK
    /\ request \in Request \cup {None}
    /\ failed \in {<<>>, Error}
    /\ stage \in {"idle", "write", "crashed"}
    /\ wire \in Seq(0 .. 255)

----------------------------------------------------------------------------
(* The responses to a request: a list of messages, and whether an error is *)
(* returned.                                                               *)

Responses(list) == [list |-> list, failed |-> FALSE]
Refusal         == [list |-> <<>>, failed |-> TRUE]

Complete(word, n) == Message("CommandComplete", [word |-> word, n |-> n])

NoCount == -1

IDsOf(rs) == [c \in DOMAIN rs.types |-> NewObjectIDFrom(rs.types[c])]

\* NewRowFieldFrom, for each selector
RowFields(rs) ==
    [c \in DOMAIN rs.types |->
        [name   |-> rs.names[c], number |-> c,
         oid    |-> DataTypes[IDsOf(rs)[c]][1],
         size   |-> DataTypes[IDsOf(rs)[c]][2],
         format |-> FormatCode(IDsOf(rs)[c])]]

\* NewDataRowForSelectors drops the error of AppendData, and so the value
Kept(rs, r) ==
    LET kept[c \in 0 .. Len(rs.types)] ==
            IF c = 0 THEN <<>>
            ELSE IF Refused(IDsOf(rs)[c], rs.rows[r][c]) THEN kept[c - 1] ELSE Append(kept[c - 1], c)
    IN  kept[Len(rs.types)]

DataRow(rs, r) ==
    Message("DataRow",
            [k \in DOMAIN Kept(rs, r) |->
                LET c == Kept(rs, r)[k] IN AppendData(IDsOf(rs)[c], rs.rows[r][c])])

\* a message that Bytes returns an error for
Unencodable(rs, r) ==
    \E c \in DOMAIN rs.types : NotEncodable(IDsOf(rs)[c], rs.rows[r][c])

Broken == Message("broken", <<>>)

RowOfResult(rs, r) == IF Unencodable(rs, r) THEN Broken ELSE DataRow(rs, r)

RowsOfResult(rs) ==
    <<Message("RowDescription", RowFields(rs))>>
        \o [r \in DOMAIN rs.rows |-> RowOfResult(rs, r)]
        \o <<Complete("SELECT", Len(rs.rows))>>

NewResponseFromResultSet(rs) ==
    IF \E c \in DOMAIN rs.types : IDsOf(rs)[c] = "none"
    THEN Refusal ELSE Responses(RowsOfResult(rs))

\* A selector has the number in the second column of the first row that has its
\* name, as a text, in the first; it has 0 if there is none.
Numbers(rs, r) ==
    LET kept == Kept(rs, r)
    IN  /\ Len(kept) >= 2
        /\ FormatCode(IDsOf(rs)[kept[1]]) = TextFormat
        /\ DataRow(rs, r).body[2] # <<>>
        /\ FormatCode(IDsOf(rs)[kept[2]]) = TextFormat
             \/ rs.rows[r][kept[2]].go \in DOMAIN IntWidth

ObjectID(rs, name) ==
    LET named == {r \in DOMAIN rs.rows : Numbers(rs, r) /\ DataRow(rs, r).body[1] = <<name>>}
    IN  IF named = {} THEN 0
        ELSE LET r == CHOOSE r \in named : \A s \in named : r <= s
             IN  rs.rows[r][Kept(rs, r)[2]].v

DescribeStatement(rs, names) ==
    IF NewResponseFromResultSet(rs).failed THEN Refusal
    ELSE Responses(<<Message("ParameterDescription",
                             [k \in DOMAIN names |-> ObjectID(rs, names[k])]),
                     Plain("NoData")>>)

\* The answer to pgbench describes no columns, and has a row of three.
GetPartition ==
    Responses(<<Message("RowDescription", <<>>),
                Message("DataRow", <<<<Digits(2)>>, <<>>, <<Digits(0)>>>>),
                Complete("SELECT", 1)>>)

\* ParserError, of the server and of the example
ParserError(q) ==
    IF installed["error"] = "server" /\ q.known THEN GetPartition
    ELSE Responses(<<Message("ErrorResponse", Error)>>)

\* AuthenticationOk, the two parameters in any order, the key, and the
\* ReadyForQuery that every answer ends with
Greeting ==
    Responses(<<Message("Authentication", 0),
                Message("ParameterStatus", <<Spelling["client"], Spelling["UTF8"]>>),
                Message("ParameterStatus", <<Spelling["server"], Spelling["UTF8"]>>),
                Message("BackendKeyData", <<1, 300>>)>>)

SlotOf(q) ==
    CASE q.type \in {"SYSTEM SELECT", "Describe"} -> "system"
      [] q.type \in Extra \cup {"VACUUM"}         -> "ex"
      [] q.type = "COPY"                          -> "bulk"
      [] q.type = "SYNTAX ERROR"                  -> "error"
      [] OTHER                                    -> "query"

\* the executor of the slot is one this module describes
Described(q) ==
    CASE q.type \in {"COPY", "SYNTAX ERROR"} -> installed[SlotOf(q)] \in {"default", "server"}
      [] OTHER                               -> HolderOf(SlotOf(q)) \in Holders

\* a default executor without a SQL executor, and the executor of COPY, answer
\* that the statement is not implemented
NotImplemented(q) ==
    IF SlotOf(q) = "bulk" THEN installed["bulk"] = "default"
    ELSE uses[HolderOf(SlotOf(q))] = Nil

Fails(q) == NotImplemented(q) \/ q.result = Failure

\* what the executor below makes of a statement that it does not refuse
Executed(q) ==
    CASE q.type \in {"SELECT", "SYSTEM SELECT"} -> NewResponseFromResultSet(q.result)
      [] q.type = "Describe"         -> DescribeStatement(q.result, q.names)
      [] q.type = "COPY"             -> Responses(<<Message("CopyInResponse",
                                           [c \in 1 .. q.result.n |-> TextFormat])>>)
      [] q.type \in Counted          -> Responses(<<Complete(q.type, q.result.n)>>)
      [] q.type \in Tagged \cup Indexes -> Responses(<<Complete(q.text, NoCount)>>)
      [] q.type = "TRUNCATE"         -> Responses(<<Complete("TRUNCATE", NoCount)>>)

AnswerTo(q) ==
    CASE q.type = "STARTUP"          -> Greeting
      [] q.type = "PASSWORD REFUSED" -> Responses(<<Message("ErrorResponse", <<>>)>>)
      [] q.type \in {"EMPTY", "VACUUM"} -> Responses(<<Complete(q.type, NoCount)>>)
      [] q.type = "Parse"            -> Responses(<<Plain("ParseComplete")>>)
      [] q.type = "Bind"             -> Responses(<<Plain("BindComplete")>>)
      [] q.type = "Close"            -> Responses(<<Plain("CloseComplete")>>)
      [] q.type = "Describe portal"  -> Responses(<<Plain("NoData")>>)
      [] q.type = "Describe other"   -> Responses(<<Message("ParameterDescription", <<>>),
                                                    Plain("NoData")>>)
      [] q.type = "Sync"             -> Responses(<<>>)
      [] q.type = "SYNTAX ERROR"     -> ParserError(q)
      [] OTHER                       -> IF Fails(q) THEN Refusal ELSE Executed(q)

----------------------------------------------------------------------------
(* The connection and its client.                                          *)

Init ==
    /\ NewServer
    /\ request = None /\ pending = <<>> /\ failed = <<>> /\ stage = "idle"
    /\ wire = <<>> /\ sent = <<>> /\ seen = <<>>

HasReadAll == request # None /\ stage = "idle" /\ wire = <<>>

NextRequest ==
    /\ HasReadAll
    /\ request' = None /\ sent' = <<>> /\ seen' = <<>>
    /\ UNCHANGED <<executorVars, pending, failed, stage, wire>>

\* IsMatchQuery of the example cuts a query to the length of the prefix
Panics(q) ==
    q.type = "SYNTAX ERROR" /\ installed["error"] = "server" /\ q.short

Serve(q) ==
    /\ request = None
    /\ Described(q)
    /\ request' = q
    /\ IF Panics(q)
       THEN stage' = "crashed" /\ UNCHANGED <<pending, failed>>
       ELSE /\ stage' = "write"
            /\ pending' = AnswerTo(q).list
            /\ failed' = IF AnswerTo(q).failed THEN Error ELSE <<>>
    /\ UNCHANGED <<executorVars, wire, sent, seen>>

Write(msg) ==
    /\ wire' = wire \o Bytes(msg)
    /\ sent' = Append(sent, msg)

\* ResponseMessages: a message that cannot be encoded ends the list
WriteResponseGoesOn ==
    /\ stage = "write" /\ pending # <<>>
    /\ pending' = Tail(pending)
    /\ IF Head(pending) = Broken
       THEN failed' = Error /\ UNCHANGED <<wire, sent>>
       ELSE Write(Head(pending)) /\ UNCHANGED failed
    /\ UNCHANGED <<executorVars, request, stage, seen>>

WriteResponse ==
    /\ stage = "write" /\ pending # <<>>
    /\ IF Head(pending) = Broken
       THEN pending' = <<>> /\ failed' = Error /\ UNCHANGED <<wire, sent>>
       ELSE pending' = Tail(pending) /\ Write(Head(pending)) /\ UNCHANGED failed
    /\ UNCHANGED <<executorVars, request, stage, seen>>

\* ResponseError
WriteError ==
    /\ stage = "write" /\ pending = <<>> /\ failed # <<>>
    /\ Write(Message("ErrorResponse", failed))
    /\ failed' = <<>>
    /\ UNCHANGED <<executorVars, request, pending, stage, seen>>

TransactionIdle == 73

\* ReadyForMessage; after CopyInResponse the server waits for the data instead
WriteReady ==
    /\ stage = "write" /\ pending = <<>> /\ failed = <<>>
    /\ stage' = "idle"
    /\ IF \E i \in DOMAIN sent : sent[i].type = "CopyInResponse"
       THEN UNCHANGED <<wire, sent>>
       ELSE Write(Message("ReadyForQuery", TransactionIdle))
    /\ UNCHANGED <<executorVars, request, pending, failed, seen>>

\* the client takes a message off the connection once all of it is there
ClientReads ==
    /\ HasFrame(wire)
    /\ seen' = Append(seen, Frame(wire))
    /\ wire' = SubSeq(wire, FrameLength(wire) + 1, Len(wire))
    /\ UNCHANGED <<executorVars, request, pending, failed, stage, sent>>

SetUp == request = None /\ Configure /\ UNCHANGED answerVars

Next ==
    \/ SetUp
    \/ \E q \in Request : Serve(q)
    \/ WriteResponse \/ WriteError \/ WriteReady
    \/ ClientReads \/ NextRequest

Spec == Init /\ [][Next]_vars

----------------------------------------------------------------------------
(* Properties.                                                             *)

Types(msgs) == [i \in DOMAIN msgs |-> msgs[i].type]

\* The client finds, in the bytes, exactly the messages that were written, one
\* after the other and with what is in them (ResponseMessage.Bytes and the Bytes
\* of each message against the formats of the protocol).
WireIsFramed ==
    /\ Len(seen) <= Len(sent)
    /\ \A i \in DOMAIN seen : seen[i] = Meaning(sent[i])
    /\ HasReadAll => Len(seen) = Len(sent)

\* what the client should read for a value that is not refused
Shown(id, cell) ==
    CASE cell.go = "nil"                          -> <<>>
      [] id = "Bytea" /\ cell.go \in DOMAIN IntWidth -> <<IntToBytes(cell.v, IntWidth[cell.go])>>
      [] OTHER                                    -> <<Digits(cell.v)>>

ReadsRow(rs, r, columns) ==
    columns = [k \in DOMAIN Kept(rs, r) |->
                 LET c == Kept(rs, r)[k] IN Shown(IDsOf(rs)[c], rs.rows[r][c])]

\* Once a SELECT is answered the client has either all of the result set (its
\* columns, every row with every value that its column can hold, and a count
\* that is the number of rows it has read) or an error and no count, never both
\* (NewResponseFromResultSet, AppendData, ResponseMessages).
ResultSetIsRead ==
    (HasReadAll /\ request.type \in {"SELECT", "SYSTEM SELECT"}) =>
        LET rs == request.result
        IN  \/ /\ rs # Failure
               /\ Types(seen) = <<"RowDescription">> \o [r \in DOMAIN rs.rows |-> "DataRow"]
                                    \o <<"CommandComplete", "ReadyForQuery">>
               /\ seen[1].body = RowFields(rs)
               /\ \A r \in DOMAIN rs.rows : ReadsRow(rs, r, seen[r + 1].body)
               /\ seen[Len(seen) - 1].body = [word |-> Spelling["SELECT"], n |-> Len(rs.rows)]
            \/ /\ \A i \in DOMAIN seen : seen[i].type # "CommandComplete"
               /\ seen[Len(seen) - 1].type = "ErrorResponse"
=============================================================================
