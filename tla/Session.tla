------------------------------ MODULE Session ------------------------------
(***************************************************************************)
(* The request loop of a PostgreSQL connection after its start-up:         *)
(* server.receive (protocol/server_impl.go), the message handler it calls  *)
(* (server_query_handler.go), the prepared statements and portals shared   *)
(* by all the connections (stmt/) and the transaction mutex of the         *)
(* connection (protocol/conn_impl.go).                                     *)
(*                                                                         *)
(* One goroutine runs receive for each connection; pc says where it is:    *)
(*   "peek"    blocked in PeekType, between two requests                   *)
(*   "handle"  a request is decoded and its handler is running             *)
(*   "run"     in the statement loop of Query, todo holds what is left     *)
(*   "reply"   the handler has returned, its response is to be written     *)
(*   "poll"    in PeekTypeNonBlocking, waiting 10ms for another request    *)
(*   "ready"   about to write ReadyForQuery                                *)
(*   "closed"  receive has returned                                        *)
(*                                                                         *)
(* The clients are modelled too: what they send, what they read, and what  *)
(* a client that keeps track of its transaction allows itself to send.     *)
(***************************************************************************)
EXTENDS Naturals, Sequences

CONSTANTS
    Conns,       \* the connections
    Names,       \* names of prepared statements and of portals
    Texts,       \* SQL texts: sequences of statements, or Unparsable
    Unparsable,  \* a text the SQL parser refuses
    None,        \* "no such entry"
    Requests,    \* the requests clients may send, a subset of Message
    Careful,     \* connections whose client tracks its transaction
    MaxSent      \* bound on the requests one client sends

(***************************************************************************)
(* Data.  A statement is what Query's switch tells apart for the session:  *)
(* BEGIN, COMMIT or ROLLBACK ("end": both call the executor, then unlock), *)
(* and any other statement ("work").                                       *)
(***************************************************************************)
Statement == {"begin", "end", "work"}

ASSUME ConstantsAssumption ==
    /\ Texts \subseteq Seq(Statement) \cup {Unparsable}
    /\ Unparsable \notin Seq(Statement)
    /\ None \notin Texts
    /\ None \notin [Names -> Texts \cup {None}]
    /\ Careful \subseteq Conns
    /\ MaxSent \in Nat

RequestType == {"parse", "bind", "describeStatement", "describePortal", "execute",
                "closeStatement", "closePortal", "sync", "flush", "query",
                "terminate", "unsupported"}

\* name: the statement or portal the request names; from: the statement a
\* Bind takes its text from; text: the SQL of a Parse or a Query.
Message == [type : RequestType, name : Names, from : Names, text : Texts]

ASSUME RequestsAssumption == Requests \subseteq Message

\* Variant: a Parse of several statements is accepted.
PreparableMany(text) == text # Unparsable

\* Extended protocol: SetPreparedStatement accepts exactly one statement.
Preparable(text) == text # Unparsable /\ Len(text) = 1

\* What the client reads: a completion or an error of a statement or of a
\* request, or ReadyForQuery with its transaction status.
Response == [kind : {"complete", "error"}, of : Statement \cup RequestType]
              \cup [kind : {"ready"}, of : {"I", "T"}]

Complete(x) == [kind |-> "complete", of |-> x]
Error(x)    == [kind |-> "error", of |-> x]
Ready(s)    == [kind |-> "ready", of |-> s]

NoResponse == [kind |-> "none", of |-> "none"]

\* The inner map of a connection in the PreparedManager.
Prepared == [Names -> Texts \cup {None}]
EmptyMap == [n \in Names |-> None]

\* A request in the socket, with the text its sender expects it to run.
InFlight == [msg : Message, want : Texts \cup {None}]

VARIABLES
    fault,    \* why the process died: "none", "unlock" or "maprace", and by whom
    pc,       \* where each connection's goroutine is
    inbox,    \* requests in the socket, not yet read
    req,      \* the request being handled
    todo,     \* statements of the running Query not yet executed
    reply,    \* what the handler returned and receive has still to write
    outbox,   \* responses written and not yet read by the client
    locked,   \* txMutex
    stmts,    \* PreparedManager.stateMap: None, or the map of the connection
    portals,  \* PreparedManager.potalMap: None, or the map of the connection
    missed,   \* connections one of whose map reads overlapped a map write and missed
    view,     \* what a careful client knows: "idle", "open", "ending"
    seen,     \* the last transaction status the client read
    intent,   \* the prepared statements and portals the client believes in
    sent,     \* requests sent
    hungup    \* the client has closed its end

serverVars == <<fault, pc, req, todo, reply, locked, stmts, portals, missed>>
clientVars == <<view, seen, intent, sent, hungup>>
vars == <<serverVars, clientVars, inbox, outbox>>

Alive == fault.kind = "none"

TypeOK ==
    /\ fault \in [kind : {"none", "unlock", "maprace"}, by : Conns \cup {None}]
    /\ pc \in [Conns -> {"peek", "handle", "run", "reply", "poll", "ready", "closed"}]
    /\ inbox \in [Conns -> Seq(InFlight)]
    /\ req \in [Conns -> InFlight \cup {None}]
    /\ todo \in [Conns -> Seq(Statement)]
    /\ reply \in [Conns -> Response \cup {NoResponse}]
    /\ outbox \in [Conns -> Seq(Response)]
    /\ locked \in [Conns -> BOOLEAN]
    /\ stmts \in [Conns -> Prepared \cup {None}]
    /\ portals \in [Conns -> Prepared \cup {None}]
    /\ missed \in SUBSET Conns
    /\ view \in [Conns -> {"idle", "open", "ending"}]
    /\ seen \in [Conns -> {"I", "T"}]
    /\ intent \in [Conns -> [stmts : Prepared, portals : Prepared]]
    /\ sent \in [Conns -> 0 .. MaxSent]
    /\ hungup \in [Conns -> BOOLEAN]

\* Start-up has finished and its ReadyForQuery ('I') has been read.
Init ==
    /\ fault = [kind |-> "none", by |-> None]
    /\ pc = [c \in Conns |-> "peek"]
    /\ inbox = [c \in Conns |-> <<>>]
    /\ req = [c \in Conns |-> None]
    /\ todo = [c \in Conns |-> <<>>]
    /\ reply = [c \in Conns |-> NoResponse]
    /\ outbox = [c \in Conns |-> <<>>]
    /\ locked = [c \in Conns |-> FALSE]
    /\ stmts = [c \in Conns |-> None]
    /\ portals = [c \in Conns |-> None]
    /\ missed = {}
    /\ view = [c \in Conns |-> "idle"]
    /\ seen = [c \in Conns |-> "I"]
    /\ intent = [c \in Conns |-> [stmts |-> EmptyMap, portals |-> EmptyMap]]
    /\ sent = [c \in Conns |-> 0]
    /\ hungup = [c \in Conns |-> FALSE]

-----------------------------------------------------------------------------
(***************************************************************************)
(* The client.  It writes requests without waiting (pipelining), reads     *)
(* responses in order, and may hang up at any point.  A careful client     *)
(* ends a transaction only with a Query of COMMIT or ROLLBACK alone, and   *)
(* only when it has read the completion of a BEGIN it has not ended since. *)
(***************************************************************************)
EndText == <<"end">>
HasEnd(text) == text # Unparsable /\ \E i \in DOMAIN text : text[i] = "end"

IsEndQuery(m) == m.type = "query" /\ m.text = EndText

CarefulSend(c, m) ==
    (m.type \in {"parse", "query"} /\ HasEnd(m.text))
        => IsEndQuery(m) /\ view[c] = "open"

\* The portals and statements after request m, were it handled when sent.
Intended(book, m) ==
    CASE m.type = "parse" /\ Preparable(m.text) ->
            [book EXCEPT !.stmts[m.name] = m.text]
      [] m.type = "bind" /\ book.stmts[m.from] # None ->
            [book EXCEPT !.portals[m.name] = book.stmts[m.from]]
      [] m.type = "closeStatement" -> [book EXCEPT !.stmts[m.name] = None]
      [] m.type = "closePortal"    -> [book EXCEPT !.portals[m.name] = None]
      [] OTHER -> book

Send(c, m) ==
    /\ Alive
    /\ ~hungup[c]
    /\ sent[c] < MaxSent
    /\ c \in Careful => CarefulSend(c, m)
    /\ inbox' = [inbox EXCEPT ![c] =
                    Append(@, [msg |-> m, want |-> intent[c].portals[m.name]])]
    /\ intent' = [intent EXCEPT ![c] = Intended(@, m)]
    /\ sent' = [sent EXCEPT ![c] = @ + 1]
    /\ view' = [view EXCEPT ![c] = IF IsEndQuery(m) THEN "ending" ELSE @]
    /\ UNCHANGED <<serverVars, outbox, seen, hungup>>

\* The client works its responses off in order, so it can tell which request
\* a completion or an error answers.
Receive(c) ==
    /\ outbox[c] # <<>>
    /\ ~hungup[c]
    /\ LET r == Head(outbox[c]) IN
         /\ view' = [view EXCEPT ![c] =
                        CASE r.kind # "ready" /\ r.of = "end" -> "idle"
                          [] r = Complete("begin") /\ @ = "idle" -> "open"
                          [] OTHER -> @]
         /\ seen' = [seen EXCEPT ![c] = IF r.kind = "ready" THEN r.of ELSE @]
    /\ outbox' = [outbox EXCEPT ![c] = Tail(@)]
    /\ UNCHANGED <<serverVars, inbox, intent, sent, hungup>>

HangUp(c) ==
    /\ ~hungup[c]
    /\ hungup' = [hungup EXCEPT ![c] = TRUE]
    /\ UNCHANGED <<serverVars, inbox, outbox, view, seen, intent, sent>>

-----------------------------------------------------------------------------
(***************************************************************************)
(* Receiving a request and answering it.                                   *)
(***************************************************************************)

\* A write succeeds while the client is there; after it hung up it may go
\* through (into the socket's buffer, read by no one) or fail.
WriteOutcomes(c) == IF hungup[c] THEN BOOLEAN ELSE {TRUE}

Written(c, r) ==
    outbox' = [outbox EXCEPT ![c] = IF hungup[c] THEN @ ELSE Append(@, r)]

\* The handler of c returns response r (its messages, or its error).
Return(c, r) ==
    /\ reply' = [reply EXCEPT ![c] = r]
    /\ pc' = [pc EXCEPT ![c] = "reply"]

Goto(c, label) == pc' = [pc EXCEPT ![c] = label]

PeekType(c) ==
    /\ Alive
    /\ pc[c] = "peek"
    /\ inbox[c] # <<>>
    /\ req' = [req EXCEPT ![c] = Head(inbox[c])]
    /\ inbox' = [inbox EXCEPT ![c] = Tail(@)]
    /\ Goto(c, "handle")
    /\ UNCHANGED <<fault, todo, reply, outbox, locked, stmts, portals, missed, clientVars>>

\* Variant: an error of PeekType does not end the loop.
PeekTypeErrorIgnored(c) ==
    /\ Alive
    /\ pc[c] = "peek"
    /\ inbox[c] = <<>>
    /\ hungup[c]
    /\ Goto(c, "poll")
    /\ UNCHANGED <<fault, req, todo, reply, inbox, outbox, locked, stmts, portals, missed,
                   clientVars>>

\* End of stream between two requests: the loop ends, receive closes.
PeekTypeError(c) ==
    /\ Alive
    /\ pc[c] = "peek"
    /\ inbox[c] = <<>>
    /\ hungup[c]
    /\ Goto(c, "closed")
    /\ UNCHANGED <<fault, req, todo, reply, inbox, outbox, locked, stmts, portals, missed,
                   clientVars>>

\* conn.ResponseMessages(resMsgs), then conn.ResponseError(reqErr): receive
\* returns when the write fails.
Respond(c) ==
    /\ Alive
    /\ pc[c] = "reply"
    /\ \E wrote \in IF reply[c] = NoResponse THEN {TRUE} ELSE WriteOutcomes(c) :
         Goto(c, IF wrote THEN "poll" ELSE "closed")
    /\ IF reply[c] = NoResponse THEN UNCHANGED outbox ELSE Written(c, reply[c])
    /\ reply' = [reply EXCEPT ![c] = NoResponse]
    /\ UNCHANGED <<fault, req, todo, inbox, locked, stmts, portals, missed, clientVars>>

\* PeekTypeNonBlocking sees a byte within 10ms: no ReadyForQuery.
PeekTypeNonBlocking(c) ==
    /\ Alive
    /\ pc[c] = "poll"
    /\ inbox[c] # <<>>
    /\ Goto(c, "peek")
    /\ UNCHANGED <<fault, req, todo, reply, inbox, outbox, locked, stmts, portals, missed,
                   clientVars>>

\* Variant: an expired deadline is taken for another request.
PollDeadlineContinues(c) ==
    /\ Alive
    /\ pc[c] = "poll"
    /\ Goto(c, "peek")
    /\ UNCHANGED <<fault, req, todo, reply, inbox, outbox, locked, stmts, portals, missed,
                   clientVars>>

\* The deadline expires (it may even when a byte has just come in), or the
\* stream has ended.
PollDeadline(c) ==
    /\ Alive
    /\ pc[c] = "poll"
    /\ Goto(c, "ready")
    /\ UNCHANGED <<fault, req, todo, reply, inbox, outbox, locked, stmts, portals, missed,
                   clientVars>>

\* Variants: the result of TryLock is read the wrong way round; a status that
\* the connection never keeps is reported.
TransactionStatusInverted(c) == IF locked[c] THEN "I" ELSE "T"
TransactionStatusFailed(c) == IF locked[c] THEN "E" ELSE "I"

\* TryLock succeeds (and unlocks) when the mutex is free.
TransactionStatus(c) == IF locked[c] THEN "T" ELSE "I"

ReadyForMessage(c) ==
    /\ Alive
    /\ pc[c] = "ready"
    /\ \E wrote \in WriteOutcomes(c) : Goto(c, IF wrote THEN "peek" ELSE "closed")
    /\ Written(c, Ready(TransactionStatus(c)))
    /\ UNCHANGED <<fault, req, todo, reply, inbox, locked, stmts, portals, missed, clientVars>>

-----------------------------------------------------------------------------
(***************************************************************************)
(* The PreparedManager: two Go maps keyed by connection, read and written  *)
(* by every handler without a lock.  A connection's first Parse adds its   *)
(* entry to stateMap, its first successful Bind its entry to potalMap.     *)
(* A read or a write of the same map that overlaps such a write is a data  *)
(* race: the runtime may stop the process, the read may miss its entry, or *)
(* nothing happens.                                                        *)
(***************************************************************************)
Handling(c, type) == pc[c] = "handle" /\ req[c].msg.type = type

UsesStmts(c) ==
    \E t \in {"parse", "bind", "describeStatement", "closeStatement"} : Handling(c, t)
UsesPortals(c) ==
    \E t \in {"bind", "describePortal", "execute", "closePortal"} : Handling(c, t)

AddsStmts(c) == Handling(c, "parse") /\ stmts[c] = None
AddsPortals(c) ==
    /\ Handling(c, "bind")
    /\ portals[c] = None
    /\ stmts[c] # None /\ stmts[c][req[c].msg.from] # None

Racing(c) ==
    \E d \in Conns \ {c} :
        \/ UsesStmts(c) /\ AddsStmts(d)
        \/ UsesPortals(c) /\ AddsPortals(d)

Hits(c) == IF Racing(c) THEN BOOLEAN ELSE {TRUE}

\* The map of c as a handler reads it: hit says whether it finds the entry.
Entry(maps, c, hit) == IF hit /\ maps[c] # None THEN maps[c] ELSE EmptyMap

Misses(c, hit) == missed' = IF hit THEN missed ELSE missed \cup {c}

\* The runtime detects the race and stops the process.
MapRace(c) ==
    /\ Alive
    /\ Racing(c)
    /\ fault' = [kind |-> "maprace", by |-> c]
    /\ UNCHANGED <<pc, req, todo, reply, inbox, outbox, locked, stmts, portals, missed,
                   clientVars>>

(***************************************************************************)
(* The handlers.                                                           *)
(***************************************************************************)

\* A parse error leaves the statement of that name as it was; the entry of
\* the connection is made before the text is parsed.
Parse(c) ==
    /\ Alive
    /\ Handling(c, "parse")
    /\ LET m == req[c].msg IN
         \E hit \in Hits(c) :
           /\ stmts' = [stmts EXCEPT ![c] =
                           IF Preparable(m.text)
                           THEN [Entry(stmts, c, hit) EXCEPT ![m.name] = m.text]
                           ELSE Entry(stmts, c, hit)]
           /\ Misses(c, hit)
           /\ Return(c, IF Preparable(m.text) THEN Complete("parse") ELSE Error("parse"))
    /\ UNCHANGED <<fault, req, todo, inbox, outbox, locked, portals, clientVars>>

\* The portal takes a copy of the statement's text.
Bind(c) ==
    /\ Alive
    /\ Handling(c, "bind")
    /\ LET m == req[c].msg IN
         \E hit \in Hits(c) :
           LET text == Entry(stmts, c, hit)[m.from] IN
             /\ portals' = IF text = None THEN portals
                           ELSE [portals EXCEPT ![c] =
                                    [Entry(portals, c, hit) EXCEPT ![m.name] = text]]
             /\ Misses(c, hit)
             /\ Return(c, IF text = None THEN Error("bind") ELSE Complete("bind"))
    /\ UNCHANGED <<fault, req, todo, inbox, outbox, locked, stmts, clientVars>>

\* Describing a SELECT also reads the system catalogue, which may fail.
DescribeStatement(c) ==
    /\ Alive
    /\ Handling(c, "describeStatement")
    /\ \E hit \in Hits(c), catalogue \in BOOLEAN :
         /\ Misses(c, hit)
         /\ Return(c, IF Entry(stmts, c, hit)[req[c].msg.name] # None /\ catalogue
                      THEN Complete("describeStatement") ELSE Error("describeStatement"))
    /\ UNCHANGED <<fault, req, todo, inbox, outbox, locked, stmts, portals, clientVars>>

DescribePortal(c) ==
    /\ Alive
    /\ Handling(c, "describePortal")
    /\ \E hit \in Hits(c) :
         /\ Misses(c, hit)
         /\ Return(c, IF Entry(portals, c, hit)[req[c].msg.name] # None
                      THEN Complete("describePortal") ELSE Error("describePortal"))
    /\ UNCHANGED <<fault, req, todo, inbox, outbox, locked, stmts, portals, clientVars>>

\* Variant: closing a statement closes the portals it made.
CloseStatementAndPortals(c) ==
    /\ Alive
    /\ Handling(c, "closeStatement")
    /\ \E hit \in Hits(c) :
         /\ stmts' = IF hit /\ stmts[c] # None
                     THEN [stmts EXCEPT ![c][req[c].msg.name] = None] ELSE stmts
         /\ Misses(c, hit)
    /\ portals' = IF portals[c] # None THEN [portals EXCEPT ![c] = EmptyMap] ELSE portals
    /\ Return(c, Complete("closeStatement"))
    /\ UNCHANGED <<fault, req, todo, inbox, outbox, locked, clientVars>>

\* Close never fails: closing what does not exist is ignored.
CloseStatement(c) ==
    /\ Alive
    /\ Handling(c, "closeStatement")
    /\ \E hit \in Hits(c) :
         /\ stmts' = IF hit /\ stmts[c] # None
                     THEN [stmts EXCEPT ![c][req[c].msg.name] = None] ELSE stmts
         /\ Misses(c, hit)
    /\ Return(c, Complete("closeStatement"))
    /\ UNCHANGED <<fault, req, todo, inbox, outbox, locked, portals, clientVars>>

ClosePortal(c) ==
    /\ Alive
    /\ Handling(c, "closePortal")
    /\ \E hit \in Hits(c) :
         /\ portals' = IF hit /\ portals[c] # None
                       THEN [portals EXCEPT ![c][req[c].msg.name] = None] ELSE portals
         /\ Misses(c, hit)
    /\ Return(c, Complete("closePortal"))
    /\ UNCHANGED <<fault, req, todo, inbox, outbox, locked, stmts, clientVars>>

\* Sync and Flush return no message: ReadyForQuery is not theirs to send.
Sync(c) ==
    /\ Alive
    /\ Handling(c, "sync")
    /\ Return(c, NoResponse)
    /\ UNCHANGED <<fault, req, todo, inbox, outbox, locked, stmts, portals, missed, clientVars>>

Flush(c) ==
    /\ Alive
    /\ Handling(c, "flush")
    /\ Return(c, NoResponse)
    /\ UNCHANGED <<fault, req, todo, inbox, outbox, locked, stmts, portals, missed, clientVars>>

\* Any other type: SkipMessage, then an error; the session goes on.
Unsupported(c) ==
    /\ Alive
    /\ Handling(c, "unsupported")
    /\ Return(c, Error("unsupported"))
    /\ UNCHANGED <<fault, req, todo, inbox, outbox, locked, stmts, portals, missed, clientVars>>

Terminate(c) ==
    /\ Alive
    /\ Handling(c, "terminate")
    /\ Goto(c, "closed")
    /\ UNCHANGED <<fault, req, todo, reply, inbox, outbox, locked, stmts, portals, missed,
                   clientVars>>

-----------------------------------------------------------------------------
(***************************************************************************)
(* Running SQL: Query, Execute (which runs its portal through Query) and   *)
(* the statement loop.  Each statement's response is written before the    *)
(* next one runs; the first error ends the loop.                           *)
(***************************************************************************)
Run(c, text) ==
    IF text = Unparsable THEN Return(c, Error("query")) /\ UNCHANGED todo
    ELSE IF text = <<>> THEN Return(c, Complete("query")) /\ UNCHANGED todo
    ELSE todo' = [todo EXCEPT ![c] = text] /\ Goto(c, "run") /\ UNCHANGED reply

Query(c) ==
    /\ Alive
    /\ Handling(c, "query")
    /\ Run(c, req[c].msg.text)
    /\ UNCHANGED <<fault, req, inbox, outbox, locked, stmts, portals, missed, clientVars>>

Execute(c) ==
    /\ Alive
    /\ Handling(c, "execute")
    /\ \E hit \in Hits(c) :
         LET text == Entry(portals, c, hit)[req[c].msg.name] IN
           /\ IF text = None THEN Return(c, Error("execute")) /\ UNCHANGED todo
              ELSE Run(c, text)
           /\ Misses(c, hit)
    /\ UNCHANGED <<fault, req, inbox, outbox, locked, stmts, portals, clientVars>>

NextStatement(c, s) == Alive /\ pc[c] = "run" /\ Head(todo[c]) = s

\* Statement s of c has run, well or not: write its response and go on, or
\* leave the loop with an error (its own, or that of a failed write).
StatementDone(c, s, ok) ==
    IF ~ok THEN
        /\ Return(c, Error(s))
        /\ todo' = [todo EXCEPT ![c] = <<>>]
        /\ UNCHANGED outbox
    ELSE
        /\ Written(c, Complete(s))
        /\ \E wrote \in WriteOutcomes(c) :
             IF ~wrote THEN Return(c, Error(s)) /\ todo' = [todo EXCEPT ![c] = <<>>]
             ELSE /\ todo' = [todo EXCEPT ![c] = Tail(@)]
                  /\ IF Len(todo[c]) > 1 THEN UNCHANGED <<pc, reply>>
                     ELSE Return(c, NoResponse)

\* Variant: a BEGIN inside a transaction is reported as complete.
BeginTwice(c) ==
    /\ NextStatement(c, "begin")
    /\ \E ok \in BOOLEAN : StatementDone(c, "begin", ok)
    /\ locked' = [locked EXCEPT ![c] = TRUE]
    /\ UNCHANGED <<fault, req, inbox, stmts, portals, missed, clientVars>>

\* LockTransaction, then the executor's Begin: when the executor fails the
\* mutex stays locked.
Begin(c) ==
    /\ NextStatement(c, "begin")
    /\ IF locked[c]
       THEN StatementDone(c, "begin", FALSE) /\ UNCHANGED locked
       ELSE /\ \E ok \in BOOLEAN : StatementDone(c, "begin", ok)
            /\ locked' = [locked EXCEPT ![c] = TRUE]
    /\ UNCHANGED <<fault, req, inbox, stmts, portals, missed, clientVars>>

\* Variant: the end of one transaction unlocks those of all the connections.
EndUnlocksAll(c) ==
    /\ NextStatement(c, "end")
    /\ IF locked[c]
       THEN /\ \E ok \in BOOLEAN : StatementDone(c, "end", ok)
            /\ locked' = [d \in Conns |-> FALSE]
            /\ UNCHANGED fault
       ELSE /\ fault' = [kind |-> "unlock", by |-> c]
            /\ UNCHANGED <<pc, reply, todo, outbox, locked>>
    /\ UNCHANGED <<req, inbox, stmts, portals, missed, clientVars>>

\* The executor's Commit or Rollback, then UnlockTransaction whatever its
\* outcome: unlocking a mutex that is not locked stops the process.
End(c) ==
    /\ NextStatement(c, "end")
    /\ IF locked[c]
       THEN /\ \E ok \in BOOLEAN : StatementDone(c, "end", ok)
            /\ locked' = [locked EXCEPT ![c] = FALSE]
            /\ UNCHANGED fault
       ELSE /\ fault' = [kind |-> "unlock", by |-> c]
            /\ UNCHANGED <<pc, reply, todo, outbox, locked>>
    /\ UNCHANGED <<req, inbox, stmts, portals, missed, clientVars>>

Work(c) ==
    /\ NextStatement(c, "work")
    /\ \E ok \in BOOLEAN : StatementDone(c, "work", ok)
    /\ UNCHANGED <<fault, req, inbox, locked, stmts, portals, missed, clientVars>>

-----------------------------------------------------------------------------
Prepare(c) == \/ Parse(c) \/ Bind(c) \/ DescribeStatement(c) \/ DescribePortal(c)
              \/ CloseStatement(c) \/ ClosePortal(c)
Simple(c) == Sync(c) \/ Flush(c) \/ Unsupported(c) \/ Terminate(c)
RunSQL(c) == Query(c) \/ Execute(c) \/ Begin(c) \/ End(c) \/ Work(c)
Loop(c) == \/ PeekType(c) \/ PeekTypeError(c) \/ Respond(c)
           \/ PeekTypeNonBlocking(c) \/ PollDeadline(c) \/ ReadyForMessage(c)

Goroutine(c) == Loop(c) \/ Prepare(c) \/ Simple(c) \/ RunSQL(c)

Client(c) == (\E m \in Requests : Send(c, m)) \/ Receive(c) \/ HangUp(c)

Next == \E c \in Conns : Goroutine(c) \/ MapRace(c) \/ Client(c)

Spec == Init /\ [][Next]_vars

\* Every goroutine is scheduled, executors return, and a client that has not
\* hung up reads what was sent to it; nobody has to send or to hang up.
Fairness == \A c \in Conns : WF_vars(Goroutine(c)) /\ WF_vars(Receive(c))

FairSpec == Spec /\ Fairness

-----------------------------------------------------------------------------
(***************************************************************************)
(* Safety.                                                                 *)
(***************************************************************************)

\* UnlockTransaction (conn_impl.go) on a mutex that is not held stops the
\* whole process.  A client that ends only what it has seen begin is never
\* the cause, whatever it pipelines, whichever executor call fails, and
\* whatever the other connections do.
CarefulClientNeverKills == fault.kind = "unlock" => fault.by \notin Careful

\* While a careful client holds a BEGIN completion it has not answered with an
\* end, the mutex is held, and no ReadyForQuery on its way says "idle":
\* TransactionStatus never understates what the client was told.
OpenIsNeverReportedIdle ==
    \A c \in Careful : view[c] = "open" =>
        /\ locked[c]
        /\ \A i \in DOMAIN outbox[c] : outbox[c][i] # Ready("I")

\* Execute runs the text that was bound when the client sent it: later Parse,
\* Bind and Close requests, sent ahead or on other connections, do not reach
\* into a portal (SetPreparedPortal keeps a copy).
ExecuteRunsWhatWasBound ==
    \A c \in Conns \ missed : Handling(c, "execute") =>
        Entry(portals, c, TRUE)[req[c].msg.name] = req[c].want

\* SetPreparedStatement keeps single statements only, and they survive Bind
\* and any re-Parse: an Execute never runs a series of statements (each would
\* be answered by a completion of its own) and never meets Query's parser.
ExecuteRunsOneStatement ==
    \A c \in Conns : (req[c] # None /\ req[c].msg.type = "execute") =>
        /\ pc[c] = "run" => Len(todo[c]) = 1
        /\ pc[c] = "reply" => reply[c] \notin {Complete("query"), Error("query")}

-----------------------------------------------------------------------------
(***************************************************************************)
(* Why a careful client is safe: the inductive invariant behind            *)
(* CarefulClientNeverKills and OpenIsNeverReportedIdle.  An end is on its  *)
(* way to the server, in the hands of the server, or answered and on its   *)
(* way back; at most one end is anywhere, and only the first two need the  *)
(* mutex.                                                                  *)
(***************************************************************************)
EndAck(r) == r.kind # "ready" /\ r.of = "end"
BeginAck(r) == r = Complete("begin")

EndSent(c, i) == i \in DOMAIN inbox[c] /\ IsEndQuery(inbox[c][i].msg)
EndInHand(c) == \/ pc[c] = "handle" /\ IsEndQuery(req[c].msg)
                \/ pc[c] = "run" /\ todo[c] = EndText
EndAhead(c) == EndInHand(c) \/ \E i \in DOMAIN inbox[c] : EndSent(c, i)
EndAnswered(c) == EndAck(reply[c]) \/ \E i \in DOMAIN outbox[c] : EndAck(outbox[c][i])

\* Only a Query of COMMIT or ROLLBACK alone can end a transaction.
Harmless(m) == m.type \in {"parse", "query"} /\ HasEnd(m.text) => IsEndQuery(m)
NoEndIn(map) == \A n \in Names : map[n] # None => ~HasEnd(map[n])

OnlyPlainEnds(c) ==
    /\ \A i \in DOMAIN inbox[c] : Harmless(inbox[c][i].msg)
    /\ pc[c] = "handle" => Harmless(req[c].msg)
    /\ pc[c] = "run" => todo[c] = EndText \/ ~HasEnd(todo[c])
    /\ stmts[c] # None => NoEndIn(stmts[c])
    /\ portals[c] # None => NoEndIn(portals[c])

OneEnd(c) ==
    /\ \A i, j \in DOMAIN inbox[c] : EndSent(c, i) /\ EndSent(c, j) => i = j
    /\ EndInHand(c) => \A i \in DOMAIN inbox[c] : ~EndSent(c, i)
    /\ view[c] # "ending" => ~EndAhead(c) /\ ~EndAnswered(c)
    /\ EndAhead(c) => ~EndAnswered(c)

OneAnswer(c) ==
    /\ pc[c] # "reply" => reply[c] = NoResponse
    /\ ~BeginAck(reply[c]) /\ reply[c].kind # "ready"
    /\ \A i, j \in DOMAIN outbox[c] : EndAck(outbox[c][i]) /\ EndAck(outbox[c][j]) => i = j
    /\ EndAck(reply[c]) => \A i \in DOMAIN outbox[c] : ~EndAck(outbox[c][i])

\* A BEGIN completion still to be read: the mutex is held, nothing written
\* after it says otherwise, and no end follows it.
BeginStands(c) ==
    \A i \in DOMAIN outbox[c] : BeginAck(outbox[c][i]) =>
        /\ locked[c]
        /\ ~EndAhead(c)
        /\ ~EndAck(reply[c])
        /\ \A j \in DOMAIN outbox[c] : BeginAck(outbox[c][j]) => j = i
        /\ \A j \in DOMAIN outbox[c] :
             j > i => ~EndAck(outbox[c][j]) /\ outbox[c][j] # Ready("I")

HeldWhenNeeded(c) ==
    /\ EndAhead(c) => locked[c]
    /\ view[c] = "open" =>
         /\ locked[c]
         /\ \A i \in DOMAIN outbox[c] :
              ~BeginAck(outbox[c][i]) /\ outbox[c][i] # Ready("I")

CarefulInv ==
    /\ CarefulClientNeverKills
    /\ \A c \in Careful : /\ OnlyPlainEnds(c) /\ OneEnd(c) /\ OneAnswer(c)
                          /\ BeginStands(c) /\ HeldWhenNeeded(c)

(***************************************************************************)
(* Liveness.                                                               *)
(***************************************************************************)

Quiet(c) == /\ pc[c] = "peek" /\ inbox[c] = <<>> /\ outbox[c] = <<>>
            /\ seen[c] = TransactionStatus(c)

\* Once a client stops sending, it has in the end read an answer to all it
\* sent and a ReadyForQuery with the connection's status as of now: leaving
\* ReadyForQuery out while more requests are in the socket loses none.
ClientIsToldWhereItStands ==
    \A c \in Conns : <>[](~Alive \/ pc[c] = "closed" \/ hungup[c] \/ Quiet(c))

\* A client that goes away does not leave its goroutine behind.
HangUpEndsSession == \A c \in Conns : hungup[c] ~> (pc[c] = "closed" \/ ~Alive)

=============================================================================
