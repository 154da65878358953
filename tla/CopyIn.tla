------------------------------- MODULE CopyIn ------------------------------
(***************************************************************************)
(* COPY FROM STDIN: handleCopyQuery of server_query_handler.go, the        *)
(* functions of copy.go and copy_stream.go it drives, and Copy and         *)
(* CopyData of the example server.                                         *)
(*                                                                         *)
(* A COPY is a dialogue inside one request: the handler answers            *)
(* CopyInResponse, then reads the CopyData messages itself, inserts each   *)
(* row by a statement of its own that finds the table by its name, and     *)
(* hands the stream back to the request loop at the first message that is  *)
(* none.  What it leaves there is read as a request.  Another connection   *)
(* creates and drops the table meanwhile.                                  *)
(*                                                                         *)
(* Nothing polls while a COPY runs, so the stream is what decides: a       *)
(* message is chosen when the server first looks for it.                   *)
(***************************************************************************)
EXTENDS Naturals, Sequences, FiniteSets

CONSTANTS MaxMessages,   \* bound on the messages of the client
          MaxTables      \* bound on the tables created under the name

ASSUME BoundsAssumption == MaxMessages \in Nat /\ MaxTables \in Nat \ {0}

\* "row" has the columns of the table and "bad" has others; a "mark" is a line
\* of nothing but \ and . (or nothing), "short" a CopyData of a length below 4;
\* "wrong" is a COPY of a column that is not there, "other" any other request.
CopyDataKinds == {"row", "bad", "mark", "short"}
Kinds == CopyDataKinds \cup {"copy", "wrong", "done", "fail", "other"}
Slots == 1 .. MaxMessages

VARIABLES
    stream,    \* the messages the client has sent
    gone,      \* it has hung up
    taken,     \* how many of them have been read
    pc,        \* where the goroutine of the connection is
    current,   \* the message with the COPY that runs, or ran last
    nCopy, nFail,
    target,    \* the table an Insert has found
    table,     \* the table of the name: 0 when there is none
    created,   \* how many have been created
    rows,      \* the messages whose rows each table holds, in order
    owner,     \* for each message: the COPY that read it, or 0 for the loop
    answers    \* what has been written in answer to each message

vars == <<stream, gone, taken, pc, current, nCopy, nFail, target, table, created, rows,
          owner, answers>>
tableVars == <<table, created, rows>>

Answer   == [type : {"CopyIn", "Error", "Other"}] \cup [type : {"Complete"}, n : Nat]
CopyIn   == [type |-> "CopyIn"]
Error    == [type |-> "Error"]
Complete(n) == [type |-> "Complete", n |-> n]

TypeOK ==
    /\ stream \in Seq(Kinds) /\ Len(stream) <= MaxMessages
    /\ gone \in BOOLEAN
    /\ taken \in 0 .. Len(stream)
    /\ pc \in {"loop", "peek", "lookup", "next", "insert", "append", "mark", "end", "failed",
               "closed"}
    /\ current \in 0 .. taken
    /\ nCopy \in Nat /\ nFail \in Nat
    /\ created \in 0 .. MaxTables
    /\ table \in 0 .. created /\ target \in 0 .. created
    /\ rows \in [1 .. MaxTables -> Seq(Slots)]
    /\ owner \in [Slots -> 0 .. MaxMessages]
    /\ answers \in [Slots -> Seq(Answer)]

Init ==
    /\ stream = <<>> /\ gone = FALSE /\ taken = 0
    /\ pc = "loop"
    /\ current = 0 /\ nCopy = 0 /\ nFail = 0 /\ target = 0
    /\ table \in 0 .. 1 /\ created = table
    /\ rows = [t \in 1 .. MaxTables |-> <<>>]
    /\ owner = [i \in Slots |-> 0]
    /\ answers = [i \in Slots |-> <<>>]

-----------------------------------------------------------------------------
(***************************************************************************)
(* The client and the other connection.                                    *)
(***************************************************************************)
Waiting == taken = Len(stream) /\ pc \in {"loop", "peek", "next", "mark"}

Send(kind) ==
    /\ Waiting /\ ~gone
    /\ Len(stream) < MaxMessages
    /\ stream' = Append(stream, kind)
    /\ UNCHANGED <<gone, taken, pc, current, nCopy, nFail, target, tableVars, owner, answers>>

HangUp ==
    /\ ~gone
    /\ gone' = TRUE
    /\ UNCHANGED <<stream, taken, pc, current, nCopy, nFail, target, tableVars, owner, answers>>

CreateTable ==
    /\ table = 0 /\ created < MaxTables
    /\ created' = created + 1
    /\ table' = created + 1
    /\ UNCHANGED <<stream, gone, taken, pc, current, nCopy, nFail, target, rows, owner, answers>>

DropTable ==
    /\ table # 0
    /\ table' = 0
    /\ UNCHANGED <<stream, gone, taken, pc, current, nCopy, nFail, target, created, rows,
                   owner, answers>>

-----------------------------------------------------------------------------
(***************************************************************************)
(* Reading.  The type of the next message is peeked; what is not taken     *)
(* stays for the next read.                                                *)
(***************************************************************************)
Peeked(kinds) == taken < Len(stream) /\ stream[taken + 1] \in kinds
Ended        == gone /\ taken = Len(stream)

Take(c) ==
    /\ taken' = taken + 1
    /\ owner' = [owner EXCEPT ![taken + 1] = c]

Reply(i, a) == answers' = [answers EXCEPT ![i] = Append(@, a)]

-----------------------------------------------------------------------------
(***************************************************************************)
(* The request loop: a COPY statement, and what it does not expect.        *)
(***************************************************************************)

\* Copy: the table is looked up, and the columns in its schema.
CopyRefused ==
    /\ pc = "loop"
    /\ Peeked({"wrong"}) \/ (Peeked({"copy"}) /\ table = 0)
    /\ Take(0) /\ Reply(taken + 1, Error)
    /\ UNCHANGED <<stream, gone, pc, current, nCopy, nFail, target, tableVars>>

\* Variant: the counters are those of the connection, and not of the COPY.
CopyAcceptedCountsOn ==
    /\ pc = "loop"
    /\ Peeked({"copy"}) /\ table # 0
    /\ Take(0) /\ Reply(taken + 1, CopyIn)
    /\ current' = taken + 1
    /\ pc' = "peek"
    /\ UNCHANGED <<stream, gone, nCopy, nFail, target, tableVars>>

CopyAccepted ==
    /\ pc = "loop"
    /\ Peeked({"copy"}) /\ table # 0
    /\ Take(0) /\ Reply(taken + 1, CopyIn)
    /\ current' = taken + 1
    /\ nCopy' = 0 /\ nFail' = 0
    /\ pc' = "peek"
    /\ UNCHANGED <<stream, gone, target, tableVars>>

\* The messages of a COPY are no requests; they are skipped and refused.
Unsupported ==
    /\ pc = "loop"
    /\ Peeked(CopyDataKinds \cup {"done", "fail"})
    /\ Take(0) /\ Reply(taken + 1, Error)
    /\ UNCHANGED <<stream, gone, pc, current, nCopy, nFail, target, tableVars>>

Request ==
    /\ pc = "loop"
    /\ Peeked({"other"})
    /\ Take(0) /\ Reply(taken + 1, [type |-> "Other"])
    /\ UNCHANGED <<stream, gone, pc, current, nCopy, nFail, target, tableVars>>

LoopEnds ==
    /\ pc = "loop" /\ Ended
    /\ pc' = "closed"
    /\ UNCHANGED <<stream, gone, taken, current, nCopy, nFail, target, tableVars, owner, answers>>

-----------------------------------------------------------------------------
(***************************************************************************)
(* handleCopyQuery, once CopyInResponse is written.                        *)
(***************************************************************************)

\* The return of an error, for the loop to answer.
FailCopy ==
    /\ Reply(current, Error)
    /\ pc' = "loop"

\* IsPeekType: the COPY goes on with CopyData, and ends without an answer at
\* anything else.
PeekCopyData ==
    /\ pc = "peek"
    /\ \/ Peeked(CopyDataKinds) /\ pc' = "lookup" /\ UNCHANGED answers
       \/ Peeked(Kinds \ CopyDataKinds) /\ pc' = "loop" /\ UNCHANGED answers
       \/ Ended /\ FailCopy
    /\ UNCHANGED <<stream, gone, taken, current, nCopy, nFail, target, tableVars, owner>>

\* CopyData looks the table up once more.
CopyData ==
    /\ pc = "lookup"
    /\ \/ table = 0 /\ FailCopy
       \/ table # 0 /\ pc' = "next" /\ UNCHANGED answers
    /\ UNCHANGED <<stream, gone, taken, current, nCopy, nFail, target, tableVars, owner>>

-----------------------------------------------------------------------------
(***************************************************************************)
(* CopyStream.Next.                                                        *)
(***************************************************************************)
NextRow ==
    /\ pc = "next"
    /\ Peeked({"row", "bad"})
    /\ Take(current)
    /\ IF stream[taken + 1] = "row"
       THEN pc' = "insert" /\ UNCHANGED nFail
       ELSE nFail' = nFail + 1 /\ UNCHANGED pc
    /\ UNCHANGED <<stream, gone, current, nCopy, target, tableVars, answers>>

\* A mark stands for the end of the rows; a length that is none is an error.
NextNoRow ==
    /\ pc = "next"
    /\ \/ Peeked({"mark"}) /\ pc' = "mark"
       \/ Peeked({"short"}) /\ pc' = "failed"
    /\ Take(current)
    /\ UNCHANGED <<stream, gone, current, nCopy, nFail, target, tableVars, answers>>

\* Variants: CopyDone is left to the loop; whatever ends the rows is taken.
EndOfRowsLeavesDone(place) ==
    /\ pc = place
    /\ \/ Peeked(Kinds \ CopyDataKinds) /\ pc' = "end"
       \/ place = "mark" /\ Peeked(CopyDataKinds) /\ pc' = "end"
       \/ Ended /\ pc' \in {"end", "failed"}
    /\ UNCHANGED <<stream, gone, taken, current, nCopy, nFail, target, tableVars, owner,
                   answers>>
EndOfRowsTakesAny(place) ==
    /\ pc = place
    /\ \/ Peeked(Kinds \ CopyDataKinds) /\ Take(current) /\ pc' = "end"
       \/ place = "mark" /\ Peeked(CopyDataKinds) /\ pc' = "end" /\ UNCHANGED <<taken, owner>>
       \/ Ended /\ pc' \in {"end", "failed"} /\ UNCHANGED <<taken, owner>>
    /\ UNCHANGED <<stream, gone, current, nCopy, nFail, target, tableVars, answers>>

\* CopyDone, or any other message, ends the rows, and only CopyDone is taken;
\* after a mark, so does CopyData.  The end of the stream does too, unless the
\* connection was reset.
EndOfRows(place) ==
    /\ pc = place
    /\ \/ Peeked({"done"}) /\ Take(current) /\ pc' = "end"
       \/ /\ Peeked(Kinds \ (CopyDataKinds \cup {"done"}))
             \/ (place = "mark" /\ Peeked(CopyDataKinds))
          /\ pc' = "end" /\ UNCHANGED <<taken, owner>>
       \/ Ended /\ pc' \in {"end", "failed"} /\ UNCHANGED <<taken, owner>>
    /\ UNCHANGED <<stream, gone, current, nCopy, nFail, target, tableVars, answers>>

-----------------------------------------------------------------------------
(***************************************************************************)
(* The row that was read: an INSERT through the query executor.            *)
(***************************************************************************)
\* Variant: the row is counted before its INSERT is known to have succeeded.
InsertCounted ==
    /\ pc = "insert"
    /\ IF table # 0
       THEN target' = table /\ pc' = "append" /\ UNCHANGED nCopy
       ELSE nCopy' = nCopy + 1 /\ pc' = "next" /\ UNCHANGED target
    /\ UNCHANGED <<stream, gone, taken, current, nFail, tableVars, owner, answers>>

Insert ==
    /\ pc = "insert"
    /\ IF table # 0
       THEN target' = table /\ pc' = "append" /\ UNCHANGED nFail
       ELSE nFail' = nFail + 1 /\ pc' = "next" /\ UNCHANGED target
    /\ UNCHANGED <<stream, gone, taken, current, nCopy, tableVars, owner, answers>>

InsertRow ==
    /\ pc = "append"
    /\ rows' = [rows EXCEPT ![target] = Append(@, taken)]
    /\ nCopy' = nCopy + 1
    /\ pc' = "next"
    /\ UNCHANGED <<stream, gone, taken, current, nFail, target, table, created, owner, answers>>

\* Variant: rows that failed are forgotten.
CopyEndsAnyway ==
    /\ pc = "end"
    /\ Reply(current, Complete(nCopy))
    /\ pc' = "loop"
    /\ UNCHANGED <<stream, gone, taken, current, nCopy, nFail, target, tableVars, owner>>

\* The end of NewCopyCompleteResponsesFrom.
CopyEnds ==
    /\ \/ pc = "end" /\ nFail = 0 /\ Reply(current, Complete(nCopy)) /\ pc' = "loop"
       \/ pc = "end" /\ nFail > 0 /\ FailCopy
       \/ pc = "failed" /\ FailCopy
    /\ UNCHANGED <<stream, gone, taken, current, nCopy, nFail, target, tableVars, owner>>

-----------------------------------------------------------------------------
Serve == \/ CopyRefused \/ CopyAccepted \/ Unsupported \/ Request \/ LoopEnds
         \/ PeekCopyData \/ CopyData
         \/ NextRow \/ NextNoRow \/ EndOfRows("next") \/ EndOfRows("mark")
         \/ Insert \/ InsertRow \/ CopyEnds

Next == \/ Serve
        \/ \E kind \in Kinds : Send(kind)
        \/ HangUp \/ CreateTable \/ DropTable

\* The goroutine runs on unless it waits for the client, who owes it nothing.
Spec == Init /\ [][Next]_vars /\ WF_vars(Serve)

-----------------------------------------------------------------------------
(***************************************************************************)
(* Properties.                                                             *)
(***************************************************************************)
Running(j)  == j = current /\ pc \notin {"loop", "closed"}
Owned(j)    == {i \in 1 .. taken : owner[i] = j}
Stored(i)   == \E t \in 1 .. MaxTables : \E n \in DOMAIN rows[t] : rows[t][n] = i
Has(i, a)   == \E n \in DOMAIN answers[i] : answers[i][n] = a
IsRow(i)    == stream[i] \in {"row", "bad"}

\* A COPY that runs has been accepted and not yet answered, and nothing has been
\* read that its client did not send before.
CopyIsOpen ==
    /\ pc \notin {"loop", "closed"} =>
         current # 0 /\ stream[current] = "copy" /\ answers[current] = <<CopyIn>>
    /\ pc \in {"insert", "append"} =>
         taken > current /\ owner[taken] = current /\ stream[taken] = "row" /\ ~Stored(taken)
    /\ pc = "append" => target # 0
    /\ \A i \in Slots : i > taken => owner[i] = 0 /\ answers[i] = <<>> /\ ~Stored(i)

NotStored(i) == IsRow(i) /\ ~Stored(i) /\ (pc \in {"insert", "append"} => i # taken)

\* While a COPY runs, and when it is answered, its counters are the rows it has
\* stored, and the rows it has read and not stored, but for the one it is at.
CountersMatch ==
    pc \notin {"loop", "closed"} =>
        /\ nCopy = Cardinality({i \in Owned(current) : Stored(i)})
        /\ nFail = Cardinality({i \in Owned(current) : NotStored(i)})

CopyInv == TypeOK /\ CopyIsOpen /\ CountersMatch

\* "COPY n" says how many rows were stored, and then no row of that COPY has
\* been left out.  Each row is stored once, and in the order it was sent.
CountedRowsAreStored ==
    /\ \A j \in 1 .. taken : \A n \in 0 .. MaxMessages : Has(j, Complete(n)) =>
         /\ n = Cardinality({i \in Owned(j) : Stored(i)})
         /\ \A i \in Owned(j) : IsRow(i) => Stored(i)
    /\ \A t \in 1 .. MaxTables : \A a, b \in DOMAIN rows[t] : a < b => rows[t][a] < rows[t][b]

\* A row that was read and is not stored has been answered with an error, its
\* own or that of its COPY.
NoRowIsLost ==
    \A i \in 1 .. taken : IsRow(i) =>
        \/ Stored(i)
        \/ owner[i] # 0 /\ Running(owner[i])
        \/ owner[i] # 0 /\ Has(owner[i], Error)
        \/ owner[i] = 0 /\ Has(i, Error)

\* A CopyDone that follows the rows of a COPY is taken by it, and not refused
\* as a request, unless the COPY has failed before it.
RowsBetween(s, i) == stream[s] = "copy" /\ \A k \in (s + 1) .. (i - 1) : stream[k] = "row"
DoneEndsItsCopy ==
    \A i \in 1 .. taken : \A s \in 1 .. (i - 2) :
        (stream[i] = "done" /\ RowsBetween(s, i)) => (owner[i] = s \/ Has(s, Error))

\* A request is answered, whatever COPY comes before it and however it ends.
RequestIsAnswered ==
    \A i \in Slots : (i <= Len(stream) /\ stream[i] = "other")
                        ~> (answers[i] = <<[type |-> "Other"]>>)

=============================================================================
