--------------------------- MODULE SessionProofs ---------------------------
(***************************************************************************)
(* Proofs about Session: type correctness, the safety of the transaction   *)
(* mutex for clients that keep track of their transaction, and what an     *)
(* Execute runs.                                                           *)
(***************************************************************************)
EXTENDS Session, SequenceTheorems, TLAPS

\* TypeOK is not inductive by itself: a handler reads the request, and the
\* statement loop the head of todo.
Typed ==
    /\ TypeOK
    /\ \A c \in Conns : pc[c] = "handle" => req[c] \in InFlight
    /\ \A c \in Conns : pc[c] = "run" => todo[c] # <<>>

-----------------------------------------------------------------------------
\* What a client believes in is again a pair of maps.
LEMMA IntendedTyped ==
    ASSUME NEW m \in Message, NEW book \in [stmts : Prepared, portals : Prepared]
    PROVE  Intended(book, m) \in [stmts : Prepared, portals : Prepared]
  <1>1. ASSUME NEW map \in Prepared, NEW n \in Names, NEW t \in Texts \cup {None}
        PROVE  [map EXCEPT ![n] = t] \in Prepared
    BY DEF Prepared
  <1>2. /\ m.name \in Names /\ m.text \in Texts
        /\ book.stmts[m.from] \in Texts \cup {None}
        /\ book.stmts \in Prepared /\ book.portals \in Prepared
    BY DEF Message, Prepared
  <1>3. /\ [book.stmts EXCEPT ![m.name] = m.text] \in Prepared
        /\ [book.stmts EXCEPT ![m.name] = None] \in Prepared
        /\ [book.portals EXCEPT ![m.name] = None] \in Prepared
        /\ [book.portals EXCEPT ![m.name] = book.stmts[m.from]] \in Prepared
    BY <1>1, <1>2
  <1>4. ASSUME NEW map \in Prepared
        PROVE  /\ [book EXCEPT !.stmts = map] \in [stmts : Prepared, portals : Prepared]
               /\ [book EXCEPT !.portals = map] \in [stmts : Prepared, portals : Prepared]
    OBVIOUS
  <1> DEFINE setStmt(t)   == [book EXCEPT !.stmts[m.name] = t]
             setPortal(t) == [book EXCEPT !.portals[m.name] = t]
  <1>5. /\ \A t : setStmt(t) = [book EXCEPT !.stmts = [book.stmts EXCEPT ![m.name] = t]]
        /\ \A t : setPortal(t) = [book EXCEPT !.portals = [book.portals EXCEPT ![m.name] = t]]
    OBVIOUS
  <1>6. /\ setStmt(m.text) \in [stmts : Prepared, portals : Prepared]
        /\ setStmt(None) \in [stmts : Prepared, portals : Prepared]
        /\ setPortal(None) \in [stmts : Prepared, portals : Prepared]
        /\ setPortal(book.stmts[m.from]) \in [stmts : Prepared, portals : Prepared]
    BY <1>3, <1>4, <1>5
  <1> QED
    BY <1>6 DEF Intended

\* A client only moves its own bookkeeping, its inbox and its outbox.
LEMMA ClientTyped ==
    ASSUME Typed, NEW c \in Conns, Client(c)
    PROVE  Typed'
  <1> USE ConstantsAssumption, RequestsAssumption
  <1>1. ASSUME NEW m \in Requests, Send(c, m)
        PROVE  Typed'
    <2> m \in Message
      OBVIOUS
    <2>1. [msg |-> m, want |-> intent[c].portals[m.name]] \in InFlight
      BY DEF Typed, TypeOK, Message, InFlight, Prepared
    <2>2. Append(inbox[c], [msg |-> m, want |-> intent[c].portals[m.name]]) \in Seq(InFlight)
      BY <2>1 DEF Typed, TypeOK
    <2>3. Intended(intent[c], m) \in [stmts : Prepared, portals : Prepared]
      BY IntendedTyped DEF Typed, TypeOK
    <2>4. sent[c] + 1 \in 0 .. MaxSent
      BY <1>1 DEF Send, Typed, TypeOK
    <2> QED
      BY <1>1, <2>2, <2>3, <2>4 DEF Send, Typed, TypeOK, serverVars
  <1>2. CASE Receive(c)
    <2>1. Head(outbox[c]) \in Response /\ Tail(outbox[c]) \in Seq(Response)
      BY <1>2 DEF Receive, Typed, TypeOK
    <2>2. Head(outbox[c]).kind = "ready" => Head(outbox[c]).of \in {"I", "T"}
      BY <2>1 DEF Response
    <2> QED
      BY <1>2, <2>1, <2>2 DEF Receive, Typed, TypeOK, serverVars
  <1>3. CASE HangUp(c)
    BY <1>3 DEF HangUp, Typed, TypeOK, serverVars
  <1> QED
    BY <1>1, <1>2, <1>3 DEF Client

\* What the handlers put in reply and write to outbox are responses.
LEMMA ResponseTypes ==
    /\ \A x \in Statement \cup RequestType :
          Complete(x) \in Response /\ Error(x) \in Response
    /\ \A c \in Conns : Ready(TransactionStatus(c)) \in Response
    /\ {"work", "begin", "end"} \subseteq Statement
    /\ {"parse", "bind", "describeStatement", "describePortal", "execute", "closeStatement",
        "closePortal", "query", "unsupported"} \subseteq RequestType
  BY DEF Complete, Error, Ready, Response, TransactionStatus, Statement, RequestType

\* Writing a response keeps the outboxes sequences of responses.
LEMMA WrittenTyped ==
    ASSUME Typed, NEW c \in Conns, NEW r \in Response, Written(c, r)
    PROVE  outbox' \in [Conns -> Seq(Response)]
  BY DEF Written, Typed, TypeOK

\* The steps of receive outside the handlers keep the types.
LEMMA LoopTyped ==
    ASSUME Typed, NEW c \in Conns, Loop(c)
    PROVE  Typed'
  <1>1. CASE PeekType(c)
    <2>1. Head(inbox[c]) \in InFlight /\ Tail(inbox[c]) \in Seq(InFlight)
      BY <1>1 DEF PeekType, Typed, TypeOK
    <2>2. /\ req' = [req EXCEPT ![c] = Head(inbox[c])]
          /\ inbox' = [inbox EXCEPT ![c] = Tail(@)]
          /\ pc' = [pc EXCEPT ![c] = "handle"]
          /\ UNCHANGED <<fault, todo, reply, outbox, locked, stmts, portals, missed, clientVars>>
      BY <1>1 DEF PeekType, Goto
    <2>3. TypeOK'
      BY <2>1, <2>2 DEF Typed, TypeOK, clientVars
    <2>4. \A d \in Conns : req'[d] = (IF d = c THEN Head(inbox[c]) ELSE req[d])
                           /\ pc'[d] = (IF d = c THEN "handle" ELSE pc[d])
      BY <2>2 DEF Typed, TypeOK
    <2> QED
      BY <2>1, <2>2, <2>3, <2>4 DEF Typed
  <1>2. CASE PeekTypeError(c)
    BY <1>2 DEF PeekTypeError, Goto, Typed, TypeOK, clientVars
  <1>3. CASE Respond(c)
    <2>1. outbox' \in [Conns -> Seq(Response)]
      <3>1. CASE reply[c] = NoResponse
        BY <1>3, <3>1 DEF Respond, Typed, TypeOK
      <3>2. CASE reply[c] # NoResponse
        <4>1. Written(c, reply[c]) /\ reply[c] \in Response
          BY <1>3, <3>2 DEF Respond, Typed, TypeOK
        <4> QED
          BY <4>1, WrittenTyped
      <3> QED
        BY <3>1, <3>2
    <2> QED
      BY <1>3, <2>1 DEF Respond, Goto, Typed, TypeOK, clientVars
  <1>4. CASE PeekTypeNonBlocking(c)
    BY <1>4 DEF PeekTypeNonBlocking, Goto, Typed, TypeOK, clientVars
  <1>5. CASE PollDeadline(c)
    BY <1>5 DEF PollDeadline, Goto, Typed, TypeOK, clientVars
  <1>6. CASE ReadyForMessage(c)
    <2>1. outbox' \in [Conns -> Seq(Response)]
      BY <1>6, ResponseTypes, WrittenTyped DEF ReadyForMessage
    <2> QED
      BY <1>6, <2>1 DEF ReadyForMessage, Goto, Typed, TypeOK, clientVars
  <1> QED
    BY <1>1, <1>2, <1>3, <1>4, <1>5, <1>6 DEF Loop

\* The map a handler reads is a map, whether or not it finds the entry.
LEMMA EntryTyped ==
    ASSUME Typed, NEW c \in Conns, NEW hit
    PROVE  /\ Entry(stmts, c, hit) \in Prepared
           /\ Entry(portals, c, hit) \in Prepared
  <1>1. EmptyMap \in Prepared
    BY DEF EmptyMap, Prepared
  <1> QED
    BY <1>1 DEF Entry, Typed, TypeOK

\* A prepared map with one entry replaced, as a value of the whole variable.
LEMMA PreparedUpdate ==
    ASSUME NEW maps \in [Conns -> Prepared \cup {None}], NEW c \in Conns,
           NEW map \in Prepared, NEW n \in Names, NEW t \in Texts \cup {None}
    PROVE  /\ [map EXCEPT ![n] = t] \in Prepared
           /\ [maps EXCEPT ![c] = [map EXCEPT ![n] = t]] \in [Conns -> Prepared \cup {None}]
           /\ [maps EXCEPT ![c] = map] \in [Conns -> Prepared \cup {None}]
  <1>1. [map EXCEPT ![n] = t] \in Prepared
    BY DEF Prepared
  <1> QED
    BY <1>1

\* A handler that returns with response r, the other parts being typed.
LEMMA ReturnTyped ==
    ASSUME Typed, NEW c \in Conns, NEW r \in Response \cup {NoResponse}, Return(c, r),
           stmts' \in [Conns -> Prepared \cup {None}],
           portals' \in [Conns -> Prepared \cup {None}],
           missed' \in SUBSET Conns,
           UNCHANGED <<fault, req, inbox, todo, outbox, locked, clientVars>>
    PROVE  Typed'
  <1>1. /\ pc' = [pc EXCEPT ![c] = "reply"]
        /\ reply' = [reply EXCEPT ![c] = r]
    BY DEF Return
  <1>2. TypeOK'
    BY <1>1 DEF Typed, TypeOK, clientVars
  <1>3. \A d \in Conns : pc'[d] = (IF d = c THEN "reply" ELSE pc[d])
    BY <1>1 DEF Typed, TypeOK
  <1> QED
    BY <1>2, <1>3 DEF Typed

\* Recording a missed read keeps missed a set of connections.
LEMMA MissesTyped ==
    ASSUME Typed, NEW c \in Conns, NEW hit, Misses(c, hit)
    PROVE  missed' \in SUBSET Conns
  BY DEF Misses, Typed, TypeOK

\* The request a handler works on.
LEMMA RequestTyped ==
    ASSUME Typed, NEW c \in Conns, NEW type, Handling(c, type)
    PROVE  /\ req[c].msg \in Message
           /\ req[c].msg.name \in Names /\ req[c].msg.from \in Names
           /\ req[c].msg.text \in Texts
  BY DEF Handling, Typed, InFlight, Message

\* The handlers of the prepared statements keep the types.
LEMMA PrepareTyped ==
    ASSUME Typed, NEW c \in Conns, Prepare(c)
    PROVE  Typed'
  <1> USE ResponseTypes
  <1>1. CASE Parse(c)
    <2> DEFINE m == req[c].msg
    <2>1. PICK hit \in Hits(c) :
            /\ stmts' = [stmts EXCEPT ![c] =
                            IF Preparable(m.text)
                            THEN [Entry(stmts, c, hit) EXCEPT ![m.name] = m.text]
                            ELSE Entry(stmts, c, hit)]
            /\ Misses(c, hit)
            /\ Return(c, IF Preparable(m.text) THEN Complete("parse") ELSE Error("parse"))
      BY <1>1 DEF Parse
    <2>2. m.name \in Names /\ m.text \in Texts
      BY <1>1, RequestTyped DEF Parse
    <2>3. stmts \in [Conns -> Prepared \cup {None}] /\ portals \in [Conns -> Prepared \cup {None}]
      BY DEF Typed, TypeOK
    <2>4. stmts' \in [Conns -> Prepared \cup {None}]
      BY <2>1, <2>2, <2>3, EntryTyped, PreparedUpdate
    <2>5. missed' \in SUBSET Conns
      BY <2>1, MissesTyped
    <2>6. (IF Preparable(m.text) THEN Complete("parse") ELSE Error("parse")) \in Response
      OBVIOUS
    <2> QED
      BY <1>1, <2>1, <2>3, <2>4, <2>5, <2>6, ReturnTyped DEF Parse
  <1>2. CASE Bind(c)
    <2> DEFINE m == req[c].msg
               text(hit) == Entry(stmts, c, hit)[m.from]
    <2>1. PICK hit \in Hits(c) :
            /\ portals' = IF text(hit) = None THEN portals
                          ELSE [portals EXCEPT ![c] =
                                   [Entry(portals, c, hit) EXCEPT ![m.name] = text(hit)]]
            /\ Misses(c, hit)
            /\ Return(c, IF text(hit) = None THEN Error("bind") ELSE Complete("bind"))
      BY <1>2 DEF Bind
    <2>2. m.name \in Names /\ m.from \in Names
      BY <1>2, RequestTyped DEF Bind
    <2>3. stmts \in [Conns -> Prepared \cup {None}] /\ portals \in [Conns -> Prepared \cup {None}]
      BY DEF Typed, TypeOK
    <2>4. text(hit) \in Texts \cup {None}
      BY <2>2, EntryTyped DEF Prepared
    <2>5. portals' \in [Conns -> Prepared \cup {None}]
      <3> HIDE DEF text
      <3> QED
        BY <2>1, <2>2, <2>3, <2>4, EntryTyped, PreparedUpdate
    <2>6. missed' \in SUBSET Conns
      BY <2>1, MissesTyped
    <2>7. (IF text(hit) = None THEN Error("bind") ELSE Complete("bind")) \in Response
      OBVIOUS
    <2> QED
      BY <1>2, <2>1, <2>3, <2>5, <2>6, <2>7, ReturnTyped DEF Bind
  <1>3. CASE DescribeStatement(c)
    BY <1>3, ReturnTyped, MissesTyped DEF DescribeStatement, Typed, TypeOK
  <1>4. CASE DescribePortal(c)
    BY <1>4, ReturnTyped, MissesTyped DEF DescribePortal, Typed, TypeOK
  <1>5. CASE CloseStatement(c)
    <2>1. req[c].msg.name \in Names
      BY <1>5, RequestTyped DEF CloseStatement
    <2>2. \A maps \in [Conns -> Prepared \cup {None}] : maps[c] # None =>
             [maps EXCEPT ![c][req[c].msg.name] = None] \in [Conns -> Prepared \cup {None}]
      BY <2>1, PreparedUpdate
    <2>3. stmts' \in [Conns -> Prepared \cup {None}]
      <3>1. stmts \in [Conns -> Prepared \cup {None}]
        BY DEF Typed, TypeOK
      <3>2. \/ stmts' = stmts
            \/ stmts[c] # None /\ stmts' = [stmts EXCEPT ![c][req[c].msg.name] = None]
        BY <1>5 DEF CloseStatement
      <3> QED
        BY <2>2, <3>1, <3>2
    <2>4. missed' \in SUBSET Conns
      BY <1>5, MissesTyped DEF CloseStatement
    <2> QED
      BY <1>5, <2>3, <2>4, ReturnTyped DEF CloseStatement, Typed, TypeOK
  <1>6. CASE ClosePortal(c)
    <2>1. req[c].msg.name \in Names
      BY <1>6, RequestTyped DEF ClosePortal
    <2>2. \A maps \in [Conns -> Prepared \cup {None}] : maps[c] # None =>
             [maps EXCEPT ![c][req[c].msg.name] = None] \in [Conns -> Prepared \cup {None}]
      BY <2>1, PreparedUpdate
    <2>3. portals' \in [Conns -> Prepared \cup {None}]
      <3>1. portals \in [Conns -> Prepared \cup {None}]
        BY DEF Typed, TypeOK
      <3>2. \/ portals' = portals
            \/ portals[c] # None /\ portals' = [portals EXCEPT ![c][req[c].msg.name] = None]
        BY <1>6 DEF ClosePortal
      <3> QED
        BY <2>2, <3>1, <3>2
    <2>4. missed' \in SUBSET Conns
      BY <1>6, MissesTyped DEF ClosePortal
    <2> QED
      BY <1>6, <2>3, <2>4, ReturnTyped DEF ClosePortal, Typed, TypeOK
  <1> QED
    BY <1>1, <1>2, <1>3, <1>4, <1>5, <1>6 DEF Prepare

\* The handlers that only answer, or end the session, keep the types.
LEMMA SimpleTyped ==
    ASSUME Typed, NEW c \in Conns, Simple(c)
    PROVE  Typed'
  <1>1. CASE Sync(c)
    BY <1>1, ReturnTyped DEF Sync, Typed, TypeOK
  <1>2. CASE Flush(c)
    BY <1>2, ReturnTyped DEF Flush, Typed, TypeOK
  <1>3. CASE Unsupported(c)
    BY <1>3, ReturnTyped, ResponseTypes DEF Unsupported, Typed, TypeOK
  <1>4. CASE Terminate(c)
    BY <1>4 DEF Terminate, Goto, Typed, TypeOK, clientVars
  <1> QED
    BY <1>1, <1>2, <1>3, <1>4 DEF Simple

\* The statement loop starts with the statements of a text.
LEMMA RunTyped ==
    ASSUME Typed, NEW c \in Conns, NEW text \in Texts, Run(c, text),
           missed' \in SUBSET Conns,
           UNCHANGED <<fault, req, inbox, outbox, locked, stmts, portals, clientVars>>
    PROVE  Typed'
  <1> USE ConstantsAssumption, ResponseTypes
  <1>1. CASE text = Unparsable \/ text = <<>>
    BY <1>1, ReturnTyped DEF Run, Typed, TypeOK
  <1>2. CASE text # Unparsable /\ text # <<>>
    <2>1. text \in Seq(Statement)
      BY <1>2
    <2>2. /\ todo' = [todo EXCEPT ![c] = text]
          /\ pc' = [pc EXCEPT ![c] = "run"]
          /\ reply' = reply
      BY <1>2 DEF Run, Goto
    <2>3. TypeOK'
      BY <2>1, <2>2 DEF Typed, TypeOK, clientVars
    <2>4. \A d \in Conns : /\ pc'[d] = (IF d = c THEN "run" ELSE pc[d])
                           /\ todo'[d] = (IF d = c THEN text ELSE todo[d])
      BY <2>2 DEF Typed, TypeOK
    <2> QED
      BY <1>2, <2>3, <2>4 DEF Typed
  <1> QED
    BY <1>1, <1>2

\* After a statement the loop goes on with the rest of todo, or returns.
LEMMA StatementDoneTyped ==
    ASSUME Typed, NEW c \in Conns, NEW s \in Statement, NEW ok \in BOOLEAN,
           pc[c] = "run", StatementDone(c, s, ok), locked' \in [Conns -> BOOLEAN],
           UNCHANGED <<fault, req, inbox, stmts, portals, missed, clientVars>>
    PROVE  Typed'
  <1>1. /\ todo[c] \in Seq(Statement) /\ Tail(todo[c]) \in Seq(Statement)
        /\ Len(todo[c]) > 1 => Tail(todo[c]) # <<>>
    <2>1. todo[c] \in Seq(Statement) /\ todo[c] # <<>>
      BY DEF Typed, TypeOK
    <2>2. Tail(todo[c]) \in Seq(Statement) /\ Len(Tail(todo[c])) = Len(todo[c]) - 1
      BY <2>1, HeadTailProperties
    <2>3. Len(todo[c]) \in Nat
      BY <2>1
    <2>4. Tail(todo[c]) = <<>> <=> Len(Tail(todo[c])) = 0
      BY <2>2, EmptySeq
    <2> QED
      BY <2>1, <2>2, <2>3, <2>4
  <1>2. outbox' \in [Conns -> Seq(Response)]
    <2>1. CASE ~ok
      BY <2>1 DEF StatementDone, Typed, TypeOK
    <2>2. CASE ok
      BY <2>2, WrittenTyped, ResponseTypes DEF StatementDone
    <2> QED
      BY <2>1, <2>2
  <1>3. PICK r \in Response \cup {NoResponse}, rest \in Seq(Statement) :
           \/ /\ pc' = [pc EXCEPT ![c] = "reply"]
              /\ reply' = [reply EXCEPT ![c] = r]
              /\ todo' = [todo EXCEPT ![c] = rest]
           \/ /\ pc' = pc /\ reply' = reply
              /\ todo' = [todo EXCEPT ![c] = rest]
              /\ rest # <<>>
    <2>1. <<>> \in Seq(Statement) /\ Error(s) \in Response \cup {NoResponse}
      BY ResponseTypes
    <2>2. CASE ~ok
      <3>1. Return(c, Error(s)) /\ todo' = [todo EXCEPT ![c] = <<>>]
        BY <2>2 DEF StatementDone
      <3> QED
        BY <2>1, <3>1 DEF Return
    <2>3. CASE ok
      <3>1. PICK wrote \in WriteOutcomes(c) :
             IF ~wrote THEN Return(c, Error(s)) /\ todo' = [todo EXCEPT ![c] = <<>>]
             ELSE /\ todo' = [todo EXCEPT ![c] = Tail(@)]
                  /\ IF Len(todo[c]) > 1 THEN UNCHANGED <<pc, reply>>
                     ELSE Return(c, NoResponse)
        BY <2>3 DEF StatementDone
      <3>2. CASE ~wrote
        BY <2>1, <3>1, <3>2 DEF Return
      <3>3. CASE wrote /\ Len(todo[c]) > 1
        BY <1>1, <3>1, <3>3
      <3>4. CASE wrote /\ ~(Len(todo[c]) > 1)
        BY <1>1, <3>1, <3>4 DEF Return
      <3> QED
        BY <3>2, <3>3, <3>4
    <2> QED
      BY <2>2, <2>3
  <1>4. TypeOK'
    <2>1. pc' \in [Conns -> {"peek", "handle", "run", "reply", "poll", "ready", "closed"}]
      <3>1. pc' = [pc EXCEPT ![c] = "reply"] \/ pc' = pc
        BY <1>3
      <3>2. pc \in [Conns -> {"peek", "handle", "run", "reply", "poll", "ready", "closed"}]
        BY DEF Typed, TypeOK
      <3> QED
        BY <3>1, <3>2
    <2>2. reply' \in [Conns -> Response \cup {NoResponse}]
      <3>1. reply' = [reply EXCEPT ![c] = r] \/ reply' = reply
        BY <1>3
      <3>2. reply \in [Conns -> Response \cup {NoResponse}]
        BY DEF Typed, TypeOK
      <3> QED
        BY <3>1, <3>2
    <2>3. todo' \in [Conns -> Seq(Statement)]
      <3>1. todo' = [todo EXCEPT ![c] = rest]
        BY <1>3
      <3> QED
        BY <3>1 DEF Typed, TypeOK
    <2> QED
      BY <1>2, <2>1, <2>2, <2>3 DEF Typed, TypeOK, clientVars
  <1>5. \A d \in Conns \ {c} : pc'[d] = pc[d] /\ todo'[d] = todo[d]
    BY <1>3 DEF Typed, TypeOK
  <1>6. /\ pc'[c] # "handle"
        /\ pc'[c] = "run" => todo'[c] # <<>>
    BY <1>3 DEF Typed, TypeOK
  <1> QED
    BY <1>4, <1>5, <1>6 DEF Typed

\* Running SQL keeps the types.
LEMMA RunSQLTyped ==
    ASSUME Typed, NEW c \in Conns, RunSQL(c)
    PROVE  Typed'
  <1> USE ResponseTypes
  <1>1. CASE Query(c)
    BY <1>1, RunTyped, RequestTyped DEF Query, Typed, TypeOK
  <1>2. CASE Execute(c)
    <2> DEFINE text(hit) == Entry(portals, c, hit)[req[c].msg.name]
    <2>1. PICK hit \in Hits(c) :
            /\ IF text(hit) = None THEN Return(c, Error("execute")) /\ UNCHANGED todo
               ELSE Run(c, text(hit))
            /\ Misses(c, hit)
      BY <1>2 DEF Execute
    <2>2. text(hit) \in Texts \cup {None}
      BY <1>2, EntryTyped, RequestTyped DEF Execute, Prepared
    <2>3. missed' \in SUBSET Conns
      BY <2>1, MissesTyped
    <2>4. UNCHANGED <<fault, req, inbox, outbox, locked, stmts, portals, clientVars>>
      BY <1>2 DEF Execute
    <2> HIDE DEF text
    <2>5. CASE text(hit) = None
      BY <2>1, <2>3, <2>4, <2>5, ReturnTyped DEF Typed, TypeOK
    <2>6. CASE text(hit) # None
      BY <2>1, <2>2, <2>3, <2>4, <2>6, RunTyped
    <2> QED
      BY <2>5, <2>6
  <1>3. CASE Begin(c)
    <2>1. PICK ok \in BOOLEAN : StatementDone(c, "begin", ok)
      BY <1>3 DEF Begin
    <2>2. locked' \in [Conns -> BOOLEAN]
      BY <1>3 DEF Begin, Typed, TypeOK
    <2> QED
      BY <1>3, <2>1, <2>2, StatementDoneTyped DEF Begin, NextStatement
  <1>4. CASE End(c)
    <2>1. CASE locked[c]
      <3>1. PICK ok \in BOOLEAN : StatementDone(c, "end", ok)
        BY <1>4, <2>1 DEF End
      <3>2. locked' \in [Conns -> BOOLEAN]
        BY <1>4, <2>1 DEF End, Typed, TypeOK
      <3> QED
        BY <1>4, <2>1, <3>1, <3>2, StatementDoneTyped DEF End, NextStatement
    <2>2. CASE ~locked[c]
      BY <1>4, <2>2 DEF End, Typed, TypeOK, clientVars
    <2> QED
      BY <2>1, <2>2
  <1>5. CASE Work(c)
    <2>1. PICK ok \in BOOLEAN : StatementDone(c, "work", ok)
      BY <1>5 DEF Work
    <2>2. pc[c] = "run" /\ UNCHANGED <<fault, req, inbox, locked, stmts, portals, missed, clientVars>>
      BY <1>5 DEF Work, NextStatement
    <2>3. "work" \in Statement
      BY DEF Statement
    <2>4. locked' \in [Conns -> BOOLEAN]
      BY <2>2 DEF Typed, TypeOK
    <2> QED
      BY <2>1, <2>2, <2>3, <2>4, StatementDoneTyped
  <1> QED
    BY <1>1, <1>2, <1>3, <1>4, <1>5 DEF RunSQL

-----------------------------------------------------------------------------
\* Types hold from the start.
LEMMA InitTyped == Init => Typed
  <1> SUFFICES ASSUME Init PROVE Typed
    OBVIOUS
  <1> USE ConstantsAssumption
  <1>1. EmptyMap \in Prepared
    BY DEF EmptyMap, Prepared
  <1> QED
    BY <1>1 DEF Init, Typed, TypeOK, Response, NoResponse

\* Every step keeps the types.
LEMMA NextTyped == Typed /\ [Next]_vars => Typed'
  <1> SUFFICES ASSUME Typed, [Next]_vars PROVE Typed'
    OBVIOUS
  <1>1. ASSUME NEW c \in Conns, Goroutine(c) PROVE Typed'
    BY <1>1, LoopTyped, PrepareTyped, SimpleTyped, RunSQLTyped DEF Goroutine
  <1>2. ASSUME NEW c \in Conns, MapRace(c) PROVE Typed'
    BY <1>2 DEF MapRace, Typed, TypeOK, clientVars
  <1>3. ASSUME NEW c \in Conns, Client(c) PROVE Typed'
    BY <1>3, ClientTyped
  <1>4. CASE UNCHANGED vars
    BY <1>4 DEF vars, serverVars, clientVars, Typed, TypeOK
  <1> QED
    BY <1>1, <1>2, <1>3, <1>4 DEF Next

\* Typed is an invariant.
LEMMA SpecTyped == Spec => []Typed
  BY InitTyped, NextTyped, PTL DEF Spec

\* Every variable keeps its type, for any set of connections, names, texts and
\* requests.
THEOREM TypeCorrect == Spec => []TypeOK
  <1>1. Typed => TypeOK
    BY DEF Typed
  <1> QED
    BY <1>1, SpecTyped, PTL

-----------------------------------------------------------------------------
(***************************************************************************)
(* The transaction mutex of careful clients.                               *)
(***************************************************************************)
CarefulAt(c) == /\ OnlyPlainEnds(c) /\ OneEnd(c) /\ OneAnswer(c)
                /\ BeginStands(c) /\ HeldWhenNeeded(c)

\* Nothing CarefulAt(c) speaks of has changed.
Untouched(c) ==
    /\ pc'[c] = pc[c] /\ inbox'[c] = inbox[c] /\ req'[c] = req[c] /\ todo'[c] = todo[c]
    /\ reply'[c] = reply[c] /\ outbox'[c] = outbox[c] /\ locked'[c] = locked[c]
    /\ stmts'[c] = stmts[c] /\ portals'[c] = portals[c] /\ view'[c] = view[c]

\* A step that leaves connection c alone keeps CarefulAt(c).
LEMMA UntouchedCareful ==
    ASSUME NEW c \in Conns, CarefulAt(c), Untouched(c)
    PROVE  CarefulAt(c)'
  BY DEF CarefulAt, Untouched, OnlyPlainEnds, OneEnd, OneAnswer, BeginStands, HeldWhenNeeded,
         EndAhead, EndInHand, EndSent, EndAnswered

\* Where the elements of a lengthened or shortened sequence come from.
LEMMA AppendIndex ==
    ASSUME NEW S, NEW s \in Seq(S), NEW e \in S
    PROVE  /\ DOMAIN Append(s, e) = DOMAIN s \cup {Len(s) + 1}
           /\ \A i \in DOMAIN s : Append(s, e)[i] = s[i] /\ i < Len(s) + 1
           /\ Append(s, e)[Len(s) + 1] = e
           /\ Len(s) + 1 \notin DOMAIN s
  OBVIOUS

\* The tail of a sequence is the sequence moved by one.
LEMMA TailIndex ==
    ASSUME NEW S, NEW s \in Seq(S), s # <<>>
    PROVE  /\ 1 \in DOMAIN s /\ Head(s) = s[1]
           /\ \A i \in DOMAIN Tail(s) : /\ i + 1 \in DOMAIN s /\ Tail(s)[i] = s[i + 1]
                                       /\ i \in Nat /\ i + 1 # 1
  <1>1. /\ Tail(s) \in Seq(S) /\ Len(Tail(s)) = Len(s) - 1
        /\ \A i \in 1 .. Len(Tail(s)) : Tail(s)[i] = s[i + 1]
    BY HeadTailProperties
  <1>2. Len(s) \in Nat /\ Len(s) # 0 /\ DOMAIN s = 1 .. Len(s)
        /\ DOMAIN Tail(s) = 1 .. Len(Tail(s))
    BY <1>1, EmptySeq
  <1> QED
    BY <1>1, <1>2

-----------------------------------------------------------------------------
\* COMMIT or ROLLBACK alone is a text with an end in it.
LEMMA EndTextEnds == HasEnd(EndText)
  <1>1. EndText \in Seq(Statement)
    BY DEF EndText, Statement
  <1>2. EndText # Unparsable
    BY <1>1, ConstantsAssumption
  <1>3. 1 \in DOMAIN EndText /\ EndText[1] = "end"
    BY DEF EndText
  <1> QED
    BY <1>2, <1>3 DEF HasEnd

\* A careful client sends an end only when none is on its way and the mutex is held.
LEMMA SendCareful ==
    ASSUME Typed, NEW c \in Careful, CarefulAt(c), NEW m \in Requests, Send(c, m)
    PROVE  CarefulAt(c)'
  <1> USE ConstantsAssumption, RequestsAssumption
  <1> DEFINE e == [msg |-> m, want |-> intent[c].portals[m.name]]
  <1>1. /\ inbox'[c] = Append(inbox[c], e) /\ pc'[c] = pc[c] /\ req'[c] = req[c]
        /\ todo'[c] = todo[c] /\ reply'[c] = reply[c] /\ outbox'[c] = outbox[c]
        /\ locked'[c] = locked[c] /\ stmts'[c] = stmts[c] /\ portals'[c] = portals[c]
        /\ view'[c] = (IF IsEndQuery(m) THEN "ending" ELSE view[c])
    <2>1. c \in Conns
      OBVIOUS
    <2>2. inbox'[c] = Append(inbox[c], e)
      BY <2>1 DEF Send, Typed, TypeOK
    <2>3. view'[c] = (IF IsEndQuery(m) THEN "ending" ELSE view[c])
      BY <2>1 DEF Send, Typed, TypeOK
    <2> QED
      BY <2>2, <2>3 DEF Send, serverVars
  <1>2. Harmless(m) /\ (IsEndQuery(m) => view[c] = "open")
    <2>1. CarefulSend(c, m)
      BY DEF Send
    <2>2. IsEndQuery(m) => m.type = "query" /\ HasEnd(m.text)
      BY EndTextEnds DEF IsEndQuery
    <2> QED
      BY <2>1, <2>2 DEF CarefulSend, Harmless
  <1>3. inbox[c] \in Seq(InFlight) /\ e \in InFlight /\ e.msg = m
    <2>1. m \in Message /\ m.name \in Names /\ c \in Conns
      BY DEF Message
    <2>2. intent[c].portals[m.name] \in Texts \cup {None}
      BY <2>1 DEF Typed, TypeOK, Prepared
    <2>3. inbox[c] \in Seq(InFlight)
      BY <2>1 DEF Typed, TypeOK
    <2> QED
      BY <2>1, <2>2, <2>3 DEF InFlight
  <1> HIDE DEF e
  <1>4. /\ DOMAIN inbox'[c] = DOMAIN inbox[c] \cup {Len(inbox[c]) + 1}
        /\ \A i \in DOMAIN inbox[c] : inbox'[c][i] = inbox[c][i]
        /\ inbox'[c][Len(inbox[c]) + 1].msg = m
        /\ Len(inbox[c]) + 1 \notin DOMAIN inbox[c]
    BY <1>1, <1>3, AppendIndex
  <1>5. /\ EndInHand(c)' = EndInHand(c) /\ EndAnswered(c)' = EndAnswered(c)
        /\ EndAhead(c)' <=> (EndAhead(c) \/ IsEndQuery(m))
        /\ \A i : EndSent(c, i)' <=>
                   (EndSent(c, i) \/ (i = Len(inbox[c]) + 1 /\ IsEndQuery(m)))
    BY <1>1, <1>4 DEF EndInHand, EndAnswered, EndAhead, EndSent
  <1>6. IsEndQuery(m) => /\ ~EndAhead(c) /\ ~EndAnswered(c) /\ locked[c]
                         /\ \A i \in DOMAIN outbox[c] : ~BeginAck(outbox[c][i])
    BY <1>2 DEF CarefulAt, OneEnd, HeldWhenNeeded
  <1>7. OnlyPlainEnds(c)'
    BY <1>1, <1>2, <1>4 DEF CarefulAt, OnlyPlainEnds
  <1>8. OneEnd(c)'
    <2>1. CASE IsEndQuery(m)
      <3>1. \A i \in DOMAIN inbox[c] : ~EndSent(c, i)
        BY <1>6, <2>1 DEF EndAhead
      <3>2. ~EndInHand(c)
        BY <1>6, <2>1 DEF EndAhead
      <3>3. view'[c] = "ending"
        BY <1>1, <2>1
      <3>4. \A i \in DOMAIN inbox'[c] : EndSent(c, i)' => i = Len(inbox[c]) + 1
        BY <1>4, <1>5, <3>1
      <3> QED
        BY <1>5, <1>6, <2>1, <3>2, <3>3, <3>4 DEF OneEnd
    <2>2. CASE ~IsEndQuery(m)
      <3>1. \A i : EndSent(c, i) => i \in DOMAIN inbox[c]
        BY DEF EndSent
      <3> QED
        BY <1>1, <1>5, <2>2, <3>1 DEF CarefulAt, OneEnd
    <2> QED
      BY <2>1, <2>2
  <1>9. OneAnswer(c)'
    BY <1>1 DEF CarefulAt, OneAnswer
  <1>10. BeginStands(c)'
    BY <1>1, <1>5, <1>6 DEF CarefulAt, BeginStands
  <1>11. HeldWhenNeeded(c)'
    BY <1>1, <1>5, <1>6 DEF CarefulAt, HeldWhenNeeded
  <1> QED
    BY <1>7, <1>8, <1>9, <1>10, <1>11 DEF CarefulAt

\* Reading a BEGIN completion opens the transaction, reading an answer to an end
\* closes it; what stays in the outbox keeps its place.
LEMMA ReceiveCareful ==
    ASSUME Typed, NEW c \in Careful, CarefulAt(c), Receive(c)
    PROVE  CarefulAt(c)'
  <1> c \in Conns
    BY ConstantsAssumption
  <1> DEFINE r == Head(outbox[c])
  <1>1. /\ outbox'[c] = Tail(outbox[c]) /\ outbox[c] # <<>> /\ outbox[c] \in Seq(Response)
        /\ pc'[c] = pc[c] /\ inbox'[c] = inbox[c] /\ req'[c] = req[c] /\ todo'[c] = todo[c]
        /\ reply'[c] = reply[c] /\ locked'[c] = locked[c]
        /\ stmts'[c] = stmts[c] /\ portals'[c] = portals[c]
    BY DEF Receive, Typed, TypeOK, serverVars
  <1>2. view'[c] = CASE EndAck(r) -> "idle"
                     [] BeginAck(r) /\ view[c] = "idle" -> "open"
                     [] OTHER -> view[c]
    BY DEF Receive, Typed, TypeOK, EndAck, BeginAck
  <1>3. ~(EndAck(r) /\ BeginAck(r))
    BY DEF EndAck, BeginAck, Complete
  <1> HIDE DEF r
  <1>4. /\ 1 \in DOMAIN outbox[c] /\ r = outbox[c][1]
        /\ \A i \in DOMAIN outbox'[c] : /\ i + 1 \in DOMAIN outbox[c]
                                       /\ outbox'[c][i] = outbox[c][i + 1]
                                       /\ i \in Nat /\ i + 1 # 1 /\ i + 1 > 1
    BY <1>1, TailIndex DEF r
  <1>5. /\ EndInHand(c)' = EndInHand(c) /\ EndAhead(c)' = EndAhead(c)
        /\ \A i : EndSent(c, i)' = EndSent(c, i)
        /\ EndAnswered(c)' => EndAnswered(c)
        /\ EndAck(r) => EndAnswered(c) /\ ~EndAnswered(c)'
    <2>1. EndAck(r) => ~EndAck(reply[c])
      BY <1>4 DEF CarefulAt, OneAnswer
    <2>2. EndAck(r) => \A i \in DOMAIN outbox'[c] : ~EndAck(outbox'[c][i])
      BY <1>4 DEF CarefulAt, OneAnswer
    <2> QED
      BY <1>1, <1>4, <2>1, <2>2 DEF EndInHand, EndAhead, EndSent, EndAnswered
  <1>6. OnlyPlainEnds(c)'
    BY <1>1 DEF CarefulAt, OnlyPlainEnds
  <1>7. OneEnd(c)'
    <2>1. /\ view[c] # "ending" => ~EndAhead(c) /\ ~EndAnswered(c)
          /\ EndAhead(c) => ~EndAnswered(c)
      BY DEF CarefulAt, OneEnd
    <2>2. view'[c] # "ending" => ~EndAhead(c)' /\ ~EndAnswered(c)'
      <3>1. CASE EndAck(r)
        BY <1>5, <2>1, <3>1
      <3>2. CASE ~EndAck(r)
        BY <1>2, <1>5, <2>1, <3>2
      <3> QED
        BY <3>1, <3>2
    <2>3. /\ \A i, j \in DOMAIN inbox'[c] : EndSent(c, i)' /\ EndSent(c, j)' => i = j
          /\ EndInHand(c)' => \A i \in DOMAIN inbox'[c] : ~EndSent(c, i)'
      BY <1>1, <1>5 DEF CarefulAt, OneEnd
    <2> QED
      BY <1>5, <2>1, <2>2, <2>3 DEF OneEnd
  <1>8. OneAnswer(c)'
    <2>1. \A i, j \in DOMAIN outbox'[c] :
             EndAck(outbox'[c][i]) /\ EndAck(outbox'[c][j]) => i + 1 = j + 1
      BY <1>4 DEF CarefulAt, OneAnswer
    <2>2. \A i, j \in DOMAIN outbox'[c] : i + 1 = j + 1 => i = j
      BY <1>4
    <2>3. EndAck(reply[c]) => \A i \in DOMAIN outbox'[c] : ~EndAck(outbox'[c][i])
      BY <1>4 DEF CarefulAt, OneAnswer
    <2> QED
      BY <1>1, <2>1, <2>2, <2>3 DEF CarefulAt, OneAnswer
  <1>9. BeginStands(c)'
    <2> SUFFICES ASSUME NEW i \in DOMAIN outbox'[c], BeginAck(outbox'[c][i])
                 PROVE  /\ locked[c] /\ ~EndAhead(c) /\ ~EndAck(reply[c])
                        /\ \A j \in DOMAIN outbox'[c] : BeginAck(outbox'[c][j]) => j = i
                        /\ \A j \in DOMAIN outbox'[c] : j > i =>
                             ~EndAck(outbox'[c][j]) /\ outbox'[c][j] # Ready("I")
      BY <1>1, <1>5 DEF BeginStands
    <2>1. i + 1 \in DOMAIN outbox[c] /\ BeginAck(outbox[c][i + 1]) /\ i \in Nat
      BY <1>4
    <2>2. /\ \A j \in DOMAIN outbox[c] : BeginAck(outbox[c][j]) => j = i + 1
          /\ \A j \in DOMAIN outbox[c] : j > i + 1 =>
               ~EndAck(outbox[c][j]) /\ outbox[c][j] # Ready("I")
          /\ locked[c] /\ ~EndAhead(c) /\ ~EndAck(reply[c])
      BY <2>1 DEF CarefulAt, BeginStands
    <2>3. \A j \in DOMAIN outbox'[c] : j + 1 = i + 1 => j = i
      BY <1>4, <2>1
    <2>4. \A j \in DOMAIN outbox'[c] : j > i => j + 1 > i + 1
      BY <1>4, <2>1
    <2> QED
      BY <1>4, <2>2, <2>3, <2>4
  <1>10. HeldWhenNeeded(c)'
    <2>1. EndAhead(c) => locked[c]
      BY DEF CarefulAt, HeldWhenNeeded
    <2>2. ASSUME view'[c] = "open", view[c] = "open"
          PROVE  /\ locked[c]
                 /\ \A i \in DOMAIN outbox'[c] :
                      ~BeginAck(outbox'[c][i]) /\ outbox'[c][i] # Ready("I")
      BY <1>4, <2>2 DEF CarefulAt, HeldWhenNeeded
    <2>3. ASSUME view'[c] = "open", view[c] # "open"
          PROVE  /\ locked[c]
                 /\ \A i \in DOMAIN outbox'[c] :
                      ~BeginAck(outbox'[c][i]) /\ outbox'[c][i] # Ready("I")
      <3>1. BeginAck(outbox[c][1])
        BY <1>2, <1>3, <1>4, <2>3
      <3>2. /\ locked[c]
            /\ \A j \in DOMAIN outbox[c] : BeginAck(outbox[c][j]) => j = 1
            /\ \A j \in DOMAIN outbox[c] : j > 1 => outbox[c][j] # Ready("I")
        BY <1>4, <3>1 DEF CarefulAt, BeginStands
      <3> QED
        BY <1>4, <3>2
    <2> QED
      BY <1>1, <1>5, <2>1, <2>2, <2>3 DEF HeldWhenNeeded
  <1> QED
    BY <1>6, <1>7, <1>8, <1>9, <1>10 DEF CarefulAt

\* An end read from the socket is in hand instead of on its way.
LEMMA PeekTypeCareful ==
    ASSUME Typed, NEW c \in Careful, CarefulAt(c), PeekType(c)
    PROVE  CarefulAt(c)'
  <1> c \in Conns
    BY ConstantsAssumption
  <1>1. /\ inbox'[c] = Tail(inbox[c]) /\ inbox[c] # <<>> /\ inbox[c] \in Seq(InFlight)
        /\ req'[c] = Head(inbox[c]) /\ pc[c] = "peek" /\ pc'[c] = "handle"
        /\ todo'[c] = todo[c] /\ reply'[c] = reply[c] /\ outbox'[c] = outbox[c]
        /\ locked'[c] = locked[c] /\ view'[c] = view[c]
        /\ stmts'[c] = stmts[c] /\ portals'[c] = portals[c]
    BY DEF PeekType, Goto, Typed, TypeOK, clientVars
  <1>2. /\ 1 \in DOMAIN inbox[c] /\ req'[c] = inbox[c][1]
        /\ \A i \in DOMAIN inbox'[c] : /\ i + 1 \in DOMAIN inbox[c]
                                      /\ inbox'[c][i] = inbox[c][i + 1]
                                      /\ i \in Nat /\ i + 1 # 1
    BY <1>1, TailIndex
  <1>3. /\ ~EndInHand(c)
        /\ EndInHand(c)' <=> EndSent(c, 1)
        /\ \A i : EndSent(c, i)' => EndSent(c, i + 1) /\ i \in Nat /\ i + 1 # 1
        /\ EndAhead(c)' => EndAhead(c)
        /\ EndAnswered(c)' = EndAnswered(c)
    BY <1>1, <1>2 DEF EndInHand, EndSent, EndAhead, EndAnswered
  <1>4. OnlyPlainEnds(c)'
    BY <1>1, <1>2 DEF CarefulAt, OnlyPlainEnds
  <1>5. OneEnd(c)'
    <2>1. \A i, j \in DOMAIN inbox[c] : EndSent(c, i) /\ EndSent(c, j) => i = j
      BY DEF CarefulAt, OneEnd
    <2>2. \A i, j \in DOMAIN inbox'[c] : EndSent(c, i)' /\ EndSent(c, j)' => i = j
      BY <1>2, <1>3, <2>1
    <2>3. EndInHand(c)' => \A i \in DOMAIN inbox'[c] : ~EndSent(c, i)'
      BY <1>2, <1>3, <2>1
    <2> QED
      BY <1>1, <1>3, <2>2, <2>3 DEF CarefulAt, OneEnd
  <1>6. OneAnswer(c)'
    BY <1>1 DEF CarefulAt, OneAnswer
  <1>7. BeginStands(c)'
    BY <1>1, <1>3 DEF CarefulAt, BeginStands
  <1>8. HeldWhenNeeded(c)'
    BY <1>1, <1>3 DEF CarefulAt, HeldWhenNeeded
  <1> QED
    BY <1>4, <1>5, <1>6, <1>7, <1>8 DEF CarefulAt

\* Response r is written for c, and neither an end nor a BEGIN is in hand.
LEMMA WriteCareful ==
    ASSUME Typed, NEW c \in Careful, CarefulAt(c), NEW r \in Response,
           outbox'[c] = outbox[c] \/ outbox'[c] = Append(outbox[c], r),
           ~BeginAck(r), r = Ready("I") => ~locked[c],
           EndAck(r) => r = reply[c] /\ reply'[c] = NoResponse,
           reply'[c] \in {reply[c], NoResponse},
           pc[c] # "handle", pc[c] # "run", pc'[c] \notin {"handle", "run"},
           pc'[c] = "reply" => pc[c] = "reply",
           pc'[c] # "reply" => reply'[c] = NoResponse,
           inbox'[c] = inbox[c], req'[c] = req[c], todo'[c] = todo[c],
           locked'[c] = locked[c], stmts'[c] = stmts[c], portals'[c] = portals[c],
           view'[c] = view[c]
    PROVE  CarefulAt(c)'
  <1> c \in Conns
    BY ConstantsAssumption
  <1>1. outbox[c] \in Seq(Response)
    BY DEF Typed, TypeOK
  <1>2. ~EndAck(NoResponse) /\ ~BeginAck(NoResponse) /\ NoResponse.kind # "ready"
    BY DEF EndAck, BeginAck, NoResponse, Complete
  <1>3. /\ ~EndInHand(c) /\ ~EndInHand(c)' /\ EndAhead(c)' = EndAhead(c)
        /\ \A i : EndSent(c, i)' = EndSent(c, i)
    BY DEF EndInHand, EndAhead, EndSent
  <1>4. CASE outbox'[c] = outbox[c]
    <2>1. EndAnswered(c)' => EndAnswered(c)
      BY <1>2, <1>4 DEF EndAnswered
    <2> QED
      BY <1>2, <1>3, <1>4, <2>1 DEF CarefulAt, OnlyPlainEnds, OneEnd, OneAnswer, BeginStands,
         HeldWhenNeeded
  <1>5. CASE outbox'[c] = Append(outbox[c], r)
    <2> DEFINE last == Len(outbox[c]) + 1
    <2>1. /\ DOMAIN outbox'[c] = DOMAIN outbox[c] \cup {last}
          /\ \A i \in DOMAIN outbox[c] : outbox'[c][i] = outbox[c][i] /\ i < last
          /\ outbox'[c][last] = r
          /\ last \notin DOMAIN outbox[c] /\ ~(last > last)
      BY <1>1, <1>5, AppendIndex
    <2> HIDE DEF last
    <2>2. EndAnswered(c)' => EndAnswered(c)
      BY <1>2, <2>1 DEF EndAnswered
    <2>3. OnlyPlainEnds(c)'
      BY DEF CarefulAt, OnlyPlainEnds
    <2>4. OneEnd(c)'
      BY <1>3, <2>2 DEF CarefulAt, OneEnd
    <2>5. OneAnswer(c)'
      BY <1>2, <2>1 DEF CarefulAt, OneAnswer
    <2>6. BeginStands(c)'
      BY <1>2, <1>3, <2>1 DEF CarefulAt, BeginStands
    <2>7. HeldWhenNeeded(c)'
      BY <1>3, <2>1 DEF CarefulAt, HeldWhenNeeded
    <2> QED
      BY <2>3, <2>4, <2>5, <2>6, <2>7 DEF CarefulAt
  <1> QED
    BY <1>4, <1>5

\* receive outside the handlers: it writes what the handler returned, or a
\* ReadyForQuery with the status of the mutex.
LEMMA LoopCareful ==
    ASSUME Typed, NEW c \in Careful, CarefulAt(c), Loop(c)
    PROVE  CarefulAt(c)'
  <1> c \in Conns
    BY ConstantsAssumption
  <1>1. Error("parse") \in Response /\ ~EndAck(Error("parse")) /\ ~BeginAck(Error("parse"))
        /\ Error("parse") # Ready("I")
    BY ResponseTypes DEF EndAck, BeginAck, Error, Complete, Ready
  <1>2. /\ pc[c] # "reply" => reply[c] = NoResponse
        /\ ~BeginAck(reply[c])
    BY DEF CarefulAt, OneAnswer
  <1>3. CASE PeekType(c)
    BY <1>3, PeekTypeCareful
  <1>4. CASE PeekTypeError(c) \/ PeekTypeNonBlocking(c) \/ PollDeadline(c)
    <2>1. /\ pc[c] \in {"peek", "poll"} /\ pc'[c] \in {"closed", "peek", "ready"}
          /\ outbox'[c] = outbox[c] /\ reply'[c] = reply[c]
          /\ inbox'[c] = inbox[c] /\ req'[c] = req[c] /\ todo'[c] = todo[c]
          /\ locked'[c] = locked[c] /\ stmts'[c] = stmts[c] /\ portals'[c] = portals[c]
          /\ view'[c] = view[c]
      BY <1>4 DEF PeekTypeError, PeekTypeNonBlocking, PollDeadline, Goto, Typed, TypeOK, clientVars
    <2> QED
      BY <1>1, <1>2, <2>1, WriteCareful
  <1>5. CASE Respond(c)
    <2>1. /\ pc[c] = "reply" /\ pc'[c] \in {"poll", "closed"} /\ reply'[c] = NoResponse
          /\ inbox'[c] = inbox[c] /\ req'[c] = req[c] /\ todo'[c] = todo[c]
          /\ locked'[c] = locked[c] /\ stmts'[c] = stmts[c] /\ portals'[c] = portals[c]
          /\ view'[c] = view[c]
      BY <1>5 DEF Respond, Goto, Typed, TypeOK, clientVars
    <2>2. CASE reply[c] = NoResponse
      <3>1. outbox'[c] = outbox[c]
        BY <1>5, <2>2 DEF Respond
      <3> QED
        BY <1>1, <2>1, <3>1, WriteCareful
    <2>3. CASE reply[c] # NoResponse
      <3>1. outbox'[c] = outbox[c] \/ outbox'[c] = Append(outbox[c], reply[c])
        BY <1>5, <2>3 DEF Respond, Written, Typed, TypeOK
      <3>2. reply[c] \in Response
        BY <2>3 DEF Typed, TypeOK
      <3>3. reply[c] # Ready("I")
        BY DEF CarefulAt, OneAnswer, Ready
      <3> QED
        BY <1>2, <2>1, <3>1, <3>2, <3>3, WriteCareful
    <2> QED
      BY <2>2, <2>3
  <1>6. CASE ReadyForMessage(c)
    <2> DEFINE r == Ready(TransactionStatus(c))
    <2>1. /\ pc[c] = "ready" /\ pc'[c] \in {"peek", "closed"} /\ reply'[c] = reply[c]
          /\ inbox'[c] = inbox[c] /\ req'[c] = req[c] /\ todo'[c] = todo[c]
          /\ locked'[c] = locked[c] /\ stmts'[c] = stmts[c] /\ portals'[c] = portals[c]
          /\ view'[c] = view[c]
          /\ outbox'[c] = outbox[c] \/ outbox'[c] = Append(outbox[c], r)
      BY <1>6 DEF ReadyForMessage, Goto, Written, Typed, TypeOK, clientVars
    <2>2. /\ r \in Response /\ ~BeginAck(r) /\ ~EndAck(r)
          /\ r = Ready("I") => ~locked[c]
      BY ResponseTypes DEF Ready, BeginAck, EndAck, Complete, TransactionStatus
    <2> HIDE DEF r
    <2> QED
      BY <1>2, <2>1, <2>2, WriteCareful
  <1> QED
    BY <1>3, <1>4, <1>5, <1>6 DEF Loop

-----------------------------------------------------------------------------
\* A handler other than Query's returns r: no end was or is in hand.
LEMMA HandlerCareful ==
    ASSUME Typed, NEW c \in Careful, CarefulAt(c),
           pc[c] = "handle", req[c].msg.type # "query", pc'[c] \in {"reply", "closed"},
           ~EndAck(reply'[c]), ~BeginAck(reply'[c]), reply'[c].kind # "ready",
           pc'[c] # "reply" => reply'[c] = NoResponse,
           stmts'[c] # None => NoEndIn(stmts[c])',
           portals'[c] # None => NoEndIn(portals[c])',
           inbox'[c] = inbox[c], outbox'[c] = outbox[c], locked'[c] = locked[c],
           view'[c] = view[c]
    PROVE  CarefulAt(c)'
  <1>1. ~EndInHand(c) /\ ~EndInHand(c)' /\ EndAhead(c)' = EndAhead(c)
        /\ \A i : EndSent(c, i)' = EndSent(c, i)
    BY DEF EndInHand, EndAhead, EndSent, IsEndQuery
  <1>2. EndAnswered(c)' => EndAnswered(c)
    BY DEF EndAnswered
  <1>3. OnlyPlainEnds(c)'
    BY DEF CarefulAt, OnlyPlainEnds
  <1>4. OneEnd(c)'
    BY <1>1, <1>2 DEF CarefulAt, OneEnd
  <1>5. OneAnswer(c)'
    BY DEF CarefulAt, OneAnswer
  <1>6. BeginStands(c)'
    BY <1>1 DEF CarefulAt, BeginStands
  <1>7. HeldWhenNeeded(c)'
    BY <1>1 DEF CarefulAt, HeldWhenNeeded
  <1> QED
    BY <1>3, <1>4, <1>5, <1>6, <1>7 DEF CarefulAt

\* The same, for a handler that returns and leaves the prepared maps alone
\* or changes them to maps without an end.
LEMMA ReturnCareful ==
    ASSUME Typed, NEW c \in Careful, CarefulAt(c), NEW r, Return(c, r),
           pc[c] = "handle", req[c].msg.type # "query",
           ~EndAck(r), ~BeginAck(r), r.kind # "ready",
           stmts'[c] # None => NoEndIn(stmts[c])',
           portals'[c] # None => NoEndIn(portals[c])',
           UNCHANGED <<fault, req, todo, inbox, outbox, locked, clientVars>>
    PROVE  CarefulAt(c)'
  <1> c \in Conns
    BY ConstantsAssumption
  <1>1. pc'[c] = "reply" /\ reply'[c] = r
    BY DEF Return, Typed, TypeOK
  <1> QED
    BY <1>1, HandlerCareful DEF clientVars

\* The answers of the handlers are not those of BEGIN, COMMIT or ROLLBACK.
LEMMA AnswerKinds ==
    /\ \A x \in RequestType : /\ ~EndAck(Complete(x)) /\ ~EndAck(Error(x))
                             /\ ~BeginAck(Complete(x)) /\ ~BeginAck(Error(x))
    /\ \A x : Complete(x).kind # "ready" /\ Error(x).kind # "ready"
    /\ ~EndAck(NoResponse) /\ ~BeginAck(NoResponse) /\ NoResponse.kind # "ready"
  BY DEF RequestType, EndAck, BeginAck, Complete, Error, NoResponse

\* What a handler reads of the prepared maps of a careful client has no end.
LEMMA EntryHarmless ==
    ASSUME NEW c \in Careful, CarefulAt(c), NEW hit
    PROVE  NoEndIn(Entry(stmts, c, hit)) /\ NoEndIn(Entry(portals, c, hit))
  <1>1. NoEndIn(EmptyMap)
    BY DEF NoEndIn, EmptyMap
  <1> QED
    BY <1>1 DEF Entry, CarefulAt, OnlyPlainEnds

\* A map stays free of ends when a text without one is put in.
LEMMA NoEndUpdate ==
    ASSUME NEW map \in Prepared, NoEndIn(map), NEW n \in Names, NEW t,
           t = None \/ ~HasEnd(t)
    PROVE  NoEndIn([map EXCEPT ![n] = t])
  BY DEF NoEndIn, Prepared

\* Handlers without an effect on statements, portals or the mutex.
LEMMA SimpleCareful ==
    ASSUME Typed, NEW c \in Careful, CarefulAt(c), Simple(c)
    PROVE  CarefulAt(c)'
  <1> USE ConstantsAssumption
  <1>1. /\ stmts[c] # None => NoEndIn(stmts[c])
        /\ portals[c] # None => NoEndIn(portals[c])
    BY DEF CarefulAt, OnlyPlainEnds
  <1>2. ASSUME UNCHANGED <<stmts, portals>>
        PROVE  /\ stmts'[c] # None => NoEndIn(stmts[c])'
               /\ portals'[c] # None => NoEndIn(portals[c])'
    BY <1>1, <1>2 DEF NoEndIn
  <1>3. CASE Sync(c)
    BY <1>2, <1>3, ReturnCareful, AnswerKinds DEF Sync, Handling
  <1>4. CASE Flush(c)
    BY <1>2, <1>4, ReturnCareful, AnswerKinds DEF Flush, Handling
  <1>5. CASE Unsupported(c)
    BY <1>2, <1>5, ReturnCareful, AnswerKinds DEF Unsupported, Handling, RequestType
  <1>6. CASE Terminate(c)
    <2>1. /\ pc[c] = "handle" /\ req[c].msg.type # "query" /\ pc'[c] = "closed"
          /\ reply'[c] = reply[c] /\ inbox'[c] = inbox[c] /\ outbox'[c] = outbox[c]
          /\ locked'[c] = locked[c] /\ view'[c] = view[c]
      BY <1>6 DEF Terminate, Handling, Goto, Typed, TypeOK, clientVars
    <2>2. reply[c] = NoResponse
      BY <2>1 DEF CarefulAt, OneAnswer
    <2>3. UNCHANGED <<stmts, portals>>
      BY <1>6 DEF Terminate
    <2> QED
      BY <1>2, <2>1, <2>2, <2>3, AnswerKinds, HandlerCareful
  <1> QED
    BY <1>3, <1>4, <1>5, <1>6 DEF Simple

\* No handler of the prepared statements lets an end into a map.
LEMMA PrepareCareful ==
    ASSUME Typed, NEW c \in Careful, CarefulAt(c), Prepare(c)
    PROVE  CarefulAt(c)'
  <1> USE ConstantsAssumption
  <1>1. /\ stmts[c] # None => NoEndIn(stmts[c])
        /\ portals[c] # None => NoEndIn(portals[c])
    BY DEF CarefulAt, OnlyPlainEnds
  <1>2. /\ UNCHANGED stmts => (stmts'[c] # None => NoEndIn(stmts[c])')
        /\ UNCHANGED portals => (portals'[c] # None => NoEndIn(portals[c])')
    BY <1>1 DEF NoEndIn
  <1>3. /\ stmts \in [Conns -> Prepared \cup {None}]
        /\ portals \in [Conns -> Prepared \cup {None}]
        /\ c \in Conns
    BY DEF Typed, TypeOK
  <1>4. {"parse", "bind", "describeStatement", "describePortal", "closeStatement",
         "closePortal"} \subseteq RequestType
    BY DEF RequestType
  <1>5. CASE Parse(c)
    <2> DEFINE m == req[c].msg
    <2>1. PICK hit \in Hits(c) :
            /\ stmts' = [stmts EXCEPT ![c] =
                            IF Preparable(m.text)
                            THEN [Entry(stmts, c, hit) EXCEPT ![m.name] = m.text]
                            ELSE Entry(stmts, c, hit)]
            /\ Return(c, IF Preparable(m.text) THEN Complete("parse") ELSE Error("parse"))
      BY <1>5 DEF Parse
    <2>2. m.type = "parse" /\ pc[c] = "handle" /\ m.name \in Names
      BY <1>5, RequestTyped DEF Parse, Handling
    <2>3. ~HasEnd(m.text)
      BY <2>2 DEF CarefulAt, OnlyPlainEnds, Harmless, IsEndQuery
    <2>4. stmts'[c] = IF Preparable(m.text)
                      THEN [Entry(stmts, c, hit) EXCEPT ![m.name] = m.text]
                      ELSE Entry(stmts, c, hit)
      BY <1>3, <2>1
    <2>5. NoEndIn(stmts'[c])
      BY <2>2, <2>3, <2>4, EntryHarmless, EntryTyped, NoEndUpdate
    <2>6. NoEndIn(stmts[c])'
      BY <2>5 DEF NoEndIn
    <2> QED
      BY <1>2, <1>4, <1>5, <2>1, <2>2, <2>6, ReturnCareful, AnswerKinds DEF Parse
  <1>6. CASE Bind(c)
    <2> DEFINE m == req[c].msg
               text(hit) == Entry(stmts, c, hit)[m.from]
    <2>1. PICK hit \in Hits(c) :
            /\ portals' = IF text(hit) = None THEN portals
                          ELSE [portals EXCEPT ![c] =
                                   [Entry(portals, c, hit) EXCEPT ![m.name] = text(hit)]]
            /\ Return(c, IF text(hit) = None THEN Error("bind") ELSE Complete("bind"))
      BY <1>6 DEF Bind
    <2>2. m.type = "bind" /\ pc[c] = "handle" /\ m.name \in Names /\ m.from \in Names
      BY <1>6, RequestTyped DEF Bind, Handling
    <2>3. text(hit) = None \/ ~HasEnd(text(hit))
      BY <2>2, EntryHarmless DEF NoEndIn
    <2> HIDE DEF text
    <2>4. text(hit) # None =>
             portals'[c] = [Entry(portals, c, hit) EXCEPT ![m.name] = text(hit)]
      BY <1>3, <2>1
    <2>5. text(hit) # None => NoEndIn(portals'[c])
      BY <2>2, <2>3, <2>4, EntryHarmless, EntryTyped, NoEndUpdate
    <2>6. portals'[c] # None => NoEndIn(portals[c])'
      BY <1>2, <2>1, <2>5 DEF NoEndIn
    <2> QED
      BY <1>2, <1>4, <1>6, <2>1, <2>2, <2>6, ReturnCareful, AnswerKinds DEF Bind
  <1>7. CASE DescribeStatement(c)
    BY <1>2, <1>4, <1>7, ReturnCareful, AnswerKinds DEF DescribeStatement, Handling
  <1>8. CASE DescribePortal(c)
    BY <1>2, <1>4, <1>8, ReturnCareful, AnswerKinds DEF DescribePortal, Handling
  <1>9. ASSUME NEW maps \in [Conns -> Prepared \cup {None}], NEW n \in Names,
               maps[c] # None, NoEndIn(maps[c])
        PROVE  NoEndIn([maps EXCEPT ![c][n] = None][c])
    <2>1. [maps EXCEPT ![c][n] = None][c] = [maps[c] EXCEPT ![n] = None]
      BY <1>3
    <2> QED
      BY <1>9, <2>1, NoEndUpdate
  <1>10. CASE CloseStatement(c)
    <2>1. /\ req[c].msg.name \in Names /\ req[c].msg.type = "closeStatement"
          /\ pc[c] = "handle"
      BY <1>10, RequestTyped DEF CloseStatement, Handling
    <2>2. \/ UNCHANGED stmts
          \/ stmts[c] # None /\ stmts' = [stmts EXCEPT ![c][req[c].msg.name] = None]
      BY <1>10 DEF CloseStatement
    <2>3. stmts'[c] # None => NoEndIn(stmts'[c])
      BY <1>1, <1>3, <1>9, <2>1, <2>2
    <2>4. stmts'[c] # None => NoEndIn(stmts[c])'
      BY <2>3 DEF NoEndIn
    <2> QED
      BY <1>2, <1>4, <1>10, <2>1, <2>4, ReturnCareful, AnswerKinds DEF CloseStatement
  <1>11. CASE ClosePortal(c)
    <2>1. /\ req[c].msg.name \in Names /\ req[c].msg.type = "closePortal"
          /\ pc[c] = "handle"
      BY <1>11, RequestTyped DEF ClosePortal, Handling
    <2>2. \/ UNCHANGED portals
          \/ portals[c] # None /\ portals' = [portals EXCEPT ![c][req[c].msg.name] = None]
      BY <1>11 DEF ClosePortal
    <2>3. portals'[c] # None => NoEndIn(portals'[c])
      BY <1>1, <1>3, <1>9, <2>1, <2>2
    <2>4. portals'[c] # None => NoEndIn(portals[c])'
      BY <2>3 DEF NoEndIn
    <2> QED
      BY <1>2, <1>4, <1>11, <2>1, <2>4, ReturnCareful, AnswerKinds DEF ClosePortal
  <1> QED
    BY <1>5, <1>6, <1>7, <1>8, <1>10, <1>11 DEF Prepare

-----------------------------------------------------------------------------
\* The statement loop starts on a text that ends a transaction only when that
\* text is the end in hand.
LEMMA RunCareful ==
    ASSUME Typed, NEW c \in Careful, CarefulAt(c), NEW text, Run(c, text),
           pc[c] = "handle",
           IsEndQuery(req[c].msg) <=> text = EndText,
           text = EndText \/ ~HasEnd(text),
           UNCHANGED <<fault, req, inbox, outbox, locked, stmts, portals, clientVars>>
    PROVE  CarefulAt(c)'
  <1> c \in Conns
    BY ConstantsAssumption
  <1>1. CASE text = Unparsable \/ text = <<>>
    <2>1. PICK r : Return(c, r) /\ r \in {Error("query"), Complete("query")}
      BY <1>1 DEF Run
    <2>2. UNCHANGED todo
      BY <1>1 DEF Run
    <2>3. text # EndText
      <3>1. EndText # Unparsable
        BY EndTextEnds DEF HasEnd
      <3>2. EndText # <<>>
        BY DEF EndText
      <3> QED
        BY <1>1, <3>1, <3>2
    <2>4. pc'[c] = "reply" /\ reply'[c] = r
      BY <2>1 DEF Return, Typed, TypeOK
    <2>5. ~EndAck(r) /\ ~BeginAck(r) /\ r.kind # "ready"
      BY <2>1, AnswerKinds DEF RequestType
    <2>6. ~EndInHand(c) /\ ~EndInHand(c)' /\ EndAhead(c)' = EndAhead(c)
          /\ (EndAnswered(c)' => EndAnswered(c))
          /\ \A i : EndSent(c, i)' = EndSent(c, i)
      BY <2>3, <2>4, <2>5 DEF EndInHand, EndAhead, EndSent, EndAnswered
    <2>7. OnlyPlainEnds(c)'
      BY <2>4 DEF CarefulAt, OnlyPlainEnds, NoEndIn
    <2>8. OneEnd(c)'
      BY <2>6 DEF CarefulAt, OneEnd, clientVars
    <2>9. OneAnswer(c)'
      BY <2>4, <2>5 DEF CarefulAt, OneAnswer
    <2>10. BeginStands(c)'
      BY <2>4, <2>5, <2>6 DEF CarefulAt, BeginStands
    <2>11. HeldWhenNeeded(c)'
      BY <2>6 DEF CarefulAt, HeldWhenNeeded, clientVars
    <2> QED
      BY <2>7, <2>8, <2>9, <2>10, <2>11 DEF CarefulAt
  <1>2. CASE text # Unparsable /\ text # <<>>
    <2>1. todo'[c] = text /\ pc'[c] = "run" /\ reply'[c] = reply[c]
      BY <1>2 DEF Run, Goto, Typed, TypeOK
    <2>2. /\ EndInHand(c)' = EndInHand(c) /\ EndAhead(c)' = EndAhead(c)
          /\ EndAnswered(c)' = EndAnswered(c)
          /\ \A i : EndSent(c, i)' = EndSent(c, i)
      BY <2>1 DEF EndInHand, EndAhead, EndSent, EndAnswered
    <2>3. OnlyPlainEnds(c)'
      BY <2>1 DEF CarefulAt, OnlyPlainEnds, NoEndIn
    <2>4. OneEnd(c)'
      BY <2>2 DEF CarefulAt, OneEnd, clientVars
    <2> QED
      BY <2>1, <2>2, <2>3, <2>4
         DEF CarefulAt, OneAnswer, BeginStands, HeldWhenNeeded, clientVars
  <1> QED
    BY <1>1, <1>2

\* What StatementDone does to the connection it runs for: leave the loop with
\* an error, leave it after the last statement, or stay in it.
LEMMA StatementDoneAt ==
    ASSUME Typed, NEW c \in Conns, NEW s \in Statement, NEW ok \in BOOLEAN,
           pc[c] = "run", StatementDone(c, s, ok)
    PROVE  \/ pc'[c] = "reply" /\ reply'[c] = Error(s) /\ outbox'[c] = outbox[c]
           \/ /\ ok /\ pc'[c] = "reply" /\ reply'[c] = NoResponse
              /\ outbox'[c] \in {outbox[c], Append(outbox[c], Complete(s))}
           \/ /\ ok /\ pc'[c] = "run" /\ reply'[c] = reply[c]
              /\ Len(todo[c]) > 1 /\ todo'[c] = Tail(todo[c])
              /\ outbox'[c] \in {outbox[c], Append(outbox[c], Complete(s))}
  <1>1. CASE ~ok
    BY <1>1 DEF StatementDone, Return, Typed, TypeOK
  <1>2. CASE ok
    <2>1. outbox'[c] = IF hungup[c] THEN outbox[c] ELSE Append(outbox[c], Complete(s))
      BY <1>2 DEF StatementDone, Written, Typed, TypeOK
    <2>2. PICK wrote \in WriteOutcomes(c) :
             IF ~wrote THEN Return(c, Error(s)) /\ todo' = [todo EXCEPT ![c] = <<>>]
             ELSE /\ todo' = [todo EXCEPT ![c] = Tail(@)]
                  /\ IF Len(todo[c]) > 1 THEN UNCHANGED <<pc, reply>>
                     ELSE Return(c, NoResponse)
      BY <1>2 DEF StatementDone
    <2>3. ~wrote => hungup[c]
      BY DEF WriteOutcomes
    <2>4. \A r : Return(c, r) => pc'[c] = "reply" /\ reply'[c] = r
      BY DEF Return, Typed, TypeOK
    <2>5. CASE ~wrote
      BY <2>1, <2>2, <2>3, <2>4, <2>5
    <2>6. CASE wrote /\ Len(todo[c]) > 1
      BY <1>2, <2>1, <2>2, <2>6 DEF Typed, TypeOK
    <2>7. CASE wrote /\ ~(Len(todo[c]) > 1)
      BY <1>2, <2>1, <2>2, <2>4, <2>7
    <2> QED
      BY <2>5, <2>6, <2>7
  <1> QED
    BY <1>1, <1>2

\* A BEGIN or another statement of a careful client: no end is in hand before
\* or after, and only a BEGIN that took the mutex is reported as complete.
LEMMA StatementCareful ==
    ASSUME Typed, NEW c \in Careful, CarefulAt(c), NEW s \in {"begin", "work"},
           NEW ok \in BOOLEAN, NextStatement(c, s), StatementDone(c, s, ok),
           s = "work" => locked'[c] = locked[c],
           s = "begin" => locked'[c] /\ (ok => ~locked[c]),
           UNCHANGED <<req, inbox, stmts, portals, clientVars>>
    PROVE  CarefulAt(c)'
  <1> c \in Conns /\ s \in Statement
    BY ConstantsAssumption DEF Statement
  <1> DEFINE last == Len(outbox[c]) + 1
  <1>1. /\ pc[c] = "run" /\ Head(todo[c]) = s /\ todo[c] \in Seq(Statement)
        /\ todo[c] # <<>> /\ outbox[c] \in Seq(Response)
    BY DEF NextStatement, Typed, TypeOK
  <1>2. todo[c] # EndText /\ todo[c] # Unparsable
    BY <1>1, ConstantsAssumption DEF EndText
  <1>3. \A i \in DOMAIN todo[c] : todo[c][i] # "end"
    BY <1>1, <1>2 DEF CarefulAt, OnlyPlainEnds, HasEnd
  <1>4. /\ ~EndAck(Complete(s)) /\ ~EndAck(Error(s)) /\ ~BeginAck(Error(s))
        /\ ~EndAck(NoResponse) /\ ~BeginAck(NoResponse)
        /\ BeginAck(Complete(s)) => s = "begin"
        /\ Complete(s) # Ready("I") /\ Error(s).kind # "ready" /\ NoResponse.kind # "ready"
        /\ Complete(s) \in Response
    BY ResponseTypes DEF EndAck, BeginAck, Complete, Error, Ready, NoResponse
  <1>5. \/ pc'[c] = "reply" /\ reply'[c] = Error(s) /\ outbox'[c] = outbox[c]
        \/ /\ ok /\ pc'[c] = "reply" /\ reply'[c] = NoResponse
           /\ outbox'[c] \in {outbox[c], Append(outbox[c], Complete(s))}
        \/ /\ ok /\ pc'[c] = "run" /\ reply'[c] = reply[c]
           /\ Len(todo[c]) > 1 /\ todo'[c] = Tail(todo[c])
           /\ outbox'[c] \in {outbox[c], Append(outbox[c], Complete(s))}
    BY <1>1, StatementDoneAt
  <1>6. /\ reply[c] = NoResponse
        /\ reply'[c] \in {Error(s), NoResponse}
        /\ pc'[c] # "reply" => reply'[c] = NoResponse
        /\ ~EndAck(reply'[c]) /\ ~BeginAck(reply'[c]) /\ reply'[c].kind # "ready"
    BY <1>1, <1>4, <1>5 DEF CarefulAt, OneAnswer
  <1>7. pc'[c] = "run" => ~HasEnd(todo'[c]) /\ todo'[c] # EndText
    <2>1. \A i \in DOMAIN Tail(todo[c]) : Tail(todo[c])[i] # "end"
      BY <1>1, <1>3, TailIndex
    <2> QED
      BY <1>5, <2>1, EndTextEnds DEF HasEnd
  <1>8. /\ ~EndInHand(c) /\ ~EndInHand(c)' /\ EndAhead(c)' = EndAhead(c)
        /\ \A i : EndSent(c, i)' = EndSent(c, i)
    BY <1>1, <1>2, <1>5, <1>7 DEF EndInHand, EndAhead, EndSent
  <1>9. locked[c] => locked'[c]
    OBVIOUS
  <1>10. OnlyPlainEnds(c)'
    BY <1>5, <1>7 DEF CarefulAt, OnlyPlainEnds, NoEndIn
  <1> HIDE DEF last
  <1>11. CASE outbox'[c] = outbox[c]
    <2>1. EndAnswered(c)' => EndAnswered(c)
      BY <1>6, <1>11 DEF EndAnswered
    <2>2. OneEnd(c)'
      BY <1>8, <2>1 DEF CarefulAt, OneEnd, clientVars
    <2>3. OneAnswer(c)'
      BY <1>6, <1>11 DEF CarefulAt, OneAnswer
    <2>4. BeginStands(c)'
      BY <1>6, <1>8, <1>9, <1>11 DEF CarefulAt, BeginStands
    <2>5. HeldWhenNeeded(c)'
      BY <1>8, <1>9, <1>11 DEF CarefulAt, HeldWhenNeeded, clientVars
    <2> QED
      BY <1>10, <2>2, <2>3, <2>4, <2>5 DEF CarefulAt
  <1>12. CASE ok /\ outbox'[c] = Append(outbox[c], Complete(s))
    <2>1. /\ DOMAIN outbox'[c] = DOMAIN outbox[c] \cup {last}
          /\ \A i \in DOMAIN outbox[c] : outbox'[c][i] = outbox[c][i] /\ i < last
          /\ outbox'[c][last] = Complete(s)
          /\ last \notin DOMAIN outbox[c] /\ ~(last > last)
          /\ \A i \in DOMAIN outbox[c] : ~(i > last)
      BY <1>1, <1>4, <1>12, AppendIndex DEF last
    <2>2. EndAnswered(c)' => EndAnswered(c)
      BY <1>4, <1>6, <2>1 DEF EndAnswered
    <2>3. BeginAck(Complete(s)) =>
             /\ ~locked[c] /\ locked'[c] /\ ~EndAhead(c) /\ view[c] # "open"
             /\ \A i \in DOMAIN outbox[c] : ~BeginAck(outbox[c][i])
      BY <1>4, <1>12 DEF CarefulAt, BeginStands, HeldWhenNeeded
    <2>4. OneEnd(c)'
      BY <1>8, <2>2 DEF CarefulAt, OneEnd, clientVars
    <2>5. OneAnswer(c)'
      BY <1>4, <1>6, <2>1 DEF CarefulAt, OneAnswer
    <2>6. BeginStands(c)'
      BY <1>4, <1>6, <1>8, <1>9, <2>1, <2>3 DEF CarefulAt, BeginStands
    <2>7. HeldWhenNeeded(c)'
      BY <1>4, <1>8, <1>9, <2>1, <2>3 DEF CarefulAt, HeldWhenNeeded, clientVars
    <2> QED
      BY <1>10, <2>4, <2>5, <2>6, <2>7 DEF CarefulAt
  <1> QED
    BY <1>5, <1>11, <1>12

\* COMMIT or ROLLBACK of a careful client: it is the one end there is, the
\* mutex is held, and no BEGIN completion is still to be read.
LEMMA EndCareful ==
    ASSUME Typed, NEW c \in Careful, CarefulAt(c), End(c)
    PROVE  CarefulAt(c)' /\ UNCHANGED fault
  <1> c \in Conns
    BY ConstantsAssumption
  <1> DEFINE last == Len(outbox[c]) + 1
  <1>1. /\ pc[c] = "run" /\ Head(todo[c]) = "end" /\ todo[c] \in Seq(Statement)
        /\ todo[c] # <<>> /\ outbox[c] \in Seq(Response)
    BY DEF End, NextStatement, Typed, TypeOK
  <1>2. todo[c] = EndText
    <2>1. 1 \in DOMAIN todo[c] /\ todo[c][1] = "end"
      BY <1>1, TailIndex
    <2>2. todo[c] # Unparsable
      BY <1>1, ConstantsAssumption
    <2> QED
      BY <1>1, <2>1, <2>2 DEF CarefulAt, OnlyPlainEnds, HasEnd
  <1>3. /\ EndInHand(c) /\ EndAhead(c) /\ ~EndAnswered(c) /\ locked[c] /\ view[c] = "ending"
        /\ \A i \in DOMAIN inbox[c] : ~EndSent(c, i)
        /\ \A i \in DOMAIN outbox[c] : ~EndAck(outbox[c][i]) /\ ~BeginAck(outbox[c][i])
        /\ view[c] \in {"idle", "open", "ending"}
    BY <1>1, <1>2 DEF EndInHand, EndAhead, EndAnswered, CarefulAt, OneEnd, HeldWhenNeeded,
       BeginStands, Typed, TypeOK
  <1>4. /\ UNCHANGED <<fault, req, inbox, stmts, portals, clientVars>>
        /\ \E ok \in BOOLEAN : StatementDone(c, "end", ok)
        /\ locked'[c] = FALSE
    BY <1>3 DEF End, Typed, TypeOK
  <1>5. ~(Len(todo[c]) > 1) /\ "end" \in Statement
    BY <1>2 DEF EndText, Statement
  <1>6. /\ pc'[c] = "reply"
        /\ \/ reply'[c] = Error("end") /\ outbox'[c] = outbox[c]
           \/ /\ reply'[c] = NoResponse
              /\ outbox'[c] \in {outbox[c], Append(outbox[c], Complete("end"))}
    BY <1>1, <1>4, <1>5, StatementDoneAt
  <1>7. /\ Complete("end") \in Response /\ ~BeginAck(Complete("end")) /\ ~BeginAck(Error("end"))
        /\ Complete("end") # Ready("I") /\ Error("end").kind # "ready"
        /\ ~EndAck(NoResponse) /\ ~BeginAck(NoResponse) /\ NoResponse.kind # "ready"
    BY <1>5, ResponseTypes DEF BeginAck, EndAck, Complete, Error, Ready, NoResponse
  <1>8. /\ ~EndInHand(c)' /\ ~EndAhead(c)'
        /\ \A i : EndSent(c, i)' = EndSent(c, i)
    BY <1>3, <1>4, <1>6 DEF EndInHand, EndAhead, EndSent
  <1>9. OnlyPlainEnds(c)'
    BY <1>4, <1>6 DEF CarefulAt, OnlyPlainEnds, NoEndIn
  <1>10. OneEnd(c)'
    BY <1>3, <1>4, <1>8 DEF CarefulAt, OneEnd, clientVars
  <1> HIDE DEF last
  <1>11. CASE outbox'[c] = outbox[c]
    <2>1. OneAnswer(c)'
      BY <1>3, <1>6, <1>7, <1>11 DEF OneAnswer
    <2>2. BeginStands(c)'
      BY <1>3, <1>11 DEF BeginStands
    <2>3. HeldWhenNeeded(c)'
      BY <1>3, <1>4, <1>8 DEF HeldWhenNeeded, clientVars
    <2> QED
      BY <1>4, <1>9, <1>10, <2>1, <2>2, <2>3 DEF CarefulAt
  <1>12. CASE reply'[c] = NoResponse /\ outbox'[c] = Append(outbox[c], Complete("end"))
    <2>1. /\ DOMAIN outbox'[c] = DOMAIN outbox[c] \cup {last}
          /\ \A i \in DOMAIN outbox[c] : outbox'[c][i] = outbox[c][i]
          /\ outbox'[c][last] = Complete("end")
      BY <1>1, <1>7, <1>12, AppendIndex DEF last
    <2>2. OneAnswer(c)'
      BY <1>3, <1>6, <1>7, <1>12, <2>1 DEF OneAnswer
    <2>3. BeginStands(c)'
      BY <1>3, <1>7, <2>1 DEF BeginStands
    <2>4. HeldWhenNeeded(c)'
      BY <1>3, <1>4, <1>8 DEF HeldWhenNeeded, clientVars
    <2> QED
      BY <1>4, <1>9, <1>10, <2>2, <2>3, <2>4 DEF CarefulAt
  <1> QED
    BY <1>6, <1>11, <1>12

\* Running SQL keeps CarefulAt: by the cases above.
LEMMA RunSQLCareful ==
    ASSUME Typed, NEW c \in Careful, CarefulAt(c), RunSQL(c)
    PROVE  CarefulAt(c)'
  <1> c \in Conns
    BY ConstantsAssumption
  <1>1. CASE Query(c)
    <2> DEFINE m == req[c].msg
    <2>1. /\ pc[c] = "handle" /\ m.type = "query" /\ Run(c, m.text)
          /\ UNCHANGED <<fault, req, inbox, outbox, locked, stmts, portals, clientVars>>
      BY <1>1 DEF Query, Handling
    <2>2. m.text = EndText \/ ~HasEnd(m.text)
      BY <2>1 DEF CarefulAt, OnlyPlainEnds, Harmless, IsEndQuery
    <2>3. IsEndQuery(m) <=> m.text = EndText
      BY <2>1 DEF IsEndQuery
    <2> QED
      BY <2>1, <2>2, <2>3, RunCareful
  <1>2. CASE Execute(c)
    <2> DEFINE text(hit) == Entry(portals, c, hit)[req[c].msg.name]
    <2>1. PICK hit \in Hits(c) :
            IF text(hit) = None THEN Return(c, Error("execute")) /\ UNCHANGED todo
            ELSE Run(c, text(hit))
      BY <1>2 DEF Execute
    <2>2. /\ pc[c] = "handle" /\ req[c].msg.type = "execute" /\ req[c].msg.name \in Names
          /\ UNCHANGED <<fault, req, inbox, outbox, locked, stmts, portals, clientVars>>
      BY <1>2, RequestTyped DEF Execute, Handling
    <2>3. text(hit) # None => ~HasEnd(text(hit))
      BY <2>2, EntryHarmless DEF NoEndIn
    <2> HIDE DEF text
    <2>4. CASE text(hit) = None
      <3>1. /\ stmts'[c] # None => NoEndIn(stmts[c])'
            /\ portals'[c] # None => NoEndIn(portals[c])'
        BY <2>2 DEF CarefulAt, OnlyPlainEnds, NoEndIn
      <3>2. "execute" \in RequestType
        BY DEF RequestType
      <3> QED
        BY <2>1, <2>2, <2>4, <3>1, <3>2, ReturnCareful, AnswerKinds
    <2>5. CASE text(hit) # None
      <3>1. text(hit) # EndText
        BY <2>3, <2>5, EndTextEnds
      <3>2. ~IsEndQuery(req[c].msg)
        BY <2>2 DEF IsEndQuery
      <3> QED
        BY <2>1, <2>2, <2>3, <2>5, <3>1, <3>2, RunCareful
    <2> QED
      BY <2>4, <2>5
  <1>3. CASE Begin(c)
    <2>1. /\ NextStatement(c, "begin")
          /\ UNCHANGED <<req, inbox, stmts, portals, clientVars>>
      BY <1>3 DEF Begin
    <2>2. PICK ok \in BOOLEAN :
            StatementDone(c, "begin", ok) /\ locked'[c] /\ (ok => ~locked[c])
      BY <1>3 DEF Begin, Typed, TypeOK
    <2> QED
      BY <2>1, <2>2, StatementCareful
  <1>4. CASE End(c)
    BY <1>4, EndCareful
  <1>5. CASE Work(c)
    <2>1. /\ NextStatement(c, "work") /\ locked'[c] = locked[c]
          /\ UNCHANGED <<req, inbox, stmts, portals, clientVars>>
      BY <1>5 DEF Work
    <2>2. PICK ok \in BOOLEAN : StatementDone(c, "work", ok)
      BY <1>5 DEF Work
    <2> QED
      BY <2>1, <2>2, StatementCareful
  <1> QED
    BY <1>1, <1>2, <1>3, <1>4, <1>5 DEF RunSQL

-----------------------------------------------------------------------------
(***************************************************************************)
(* A step of one connection touches the entries of no other.               *)
(***************************************************************************)
\* The end of a statement.
LEMMA StatementElsewhere ==
    ASSUME Typed, NEW c \in Conns, NEW d \in Conns \ {c}, NEW s, NEW ok,
           StatementDone(d, s, ok)
    PROVE  /\ pc'[c] = pc[c] /\ todo'[c] = todo[c]
           /\ reply'[c] = reply[c] /\ outbox'[c] = outbox[c]
  BY DEF StatementDone, Return, Written, Typed, TypeOK

\* receive outside the handlers.
LEMMA LoopElsewhere ==
    ASSUME Typed, NEW c \in Conns, NEW d \in Conns \ {c}, Loop(d)
    PROVE  Untouched(c)
  <1>1. CASE PeekType(d)
    BY <1>1 DEF PeekType, Goto, Untouched, Typed, TypeOK, clientVars
  <1>2. CASE PeekTypeError(d)
    BY <1>2 DEF PeekTypeError, Goto, Untouched, Typed, TypeOK, clientVars
  <1>3. CASE Respond(d)
    BY <1>3 DEF Respond, Written, Goto, Untouched, Typed, TypeOK, clientVars
  <1>4. CASE PeekTypeNonBlocking(d)
    BY <1>4 DEF PeekTypeNonBlocking, Goto, Untouched, Typed, TypeOK, clientVars
  <1>5. CASE PollDeadline(d)
    BY <1>5 DEF PollDeadline, Goto, Untouched, Typed, TypeOK, clientVars
  <1>6. CASE ReadyForMessage(d)
    BY <1>6 DEF ReadyForMessage, Written, Goto, Untouched, Typed, TypeOK, clientVars
  <1> QED
    BY <1>1, <1>2, <1>3, <1>4, <1>5, <1>6 DEF Loop

\* The handlers that run no SQL.
LEMMA HandlerElsewhere ==
    ASSUME Typed, NEW c \in Conns, NEW d \in Conns \ {c}, Prepare(d) \/ Simple(d)
    PROVE  Untouched(c)
  <1>1. CASE Parse(d)
    BY <1>1 DEF Parse, Return, Untouched, Typed, TypeOK, clientVars
  <1>2. CASE Bind(d)
    BY <1>2 DEF Bind, Return, Untouched, Typed, TypeOK, clientVars
  <1>3. CASE DescribeStatement(d)
    BY <1>3 DEF DescribeStatement, Return, Untouched, Typed, TypeOK, clientVars
  <1>4. CASE DescribePortal(d)
    BY <1>4 DEF DescribePortal, Return, Untouched, Typed, TypeOK, clientVars
  <1>5. CASE CloseStatement(d)
    BY <1>5 DEF CloseStatement, Return, Untouched, Typed, TypeOK, clientVars
  <1>6. CASE ClosePortal(d)
    BY <1>6 DEF ClosePortal, Return, Untouched, Typed, TypeOK, clientVars
  <1>7. CASE Sync(d) \/ Flush(d) \/ Unsupported(d)
    BY <1>7 DEF Sync, Flush, Unsupported, Return, Untouched, Typed, TypeOK, clientVars
  <1>8. CASE Terminate(d)
    BY <1>8 DEF Terminate, Goto, Untouched, Typed, TypeOK, clientVars
  <1> QED
    BY <1>1, <1>2, <1>3, <1>4, <1>5, <1>6, <1>7, <1>8 DEF Prepare, Simple

\* Running SQL.
LEMMA RunSQLElsewhere ==
    ASSUME Typed, NEW c \in Conns, NEW d \in Conns \ {c}, RunSQL(d)
    PROVE  Untouched(c)
  <1> USE StatementElsewhere
  <1>1. CASE Query(d)
    BY <1>1 DEF Query, Run, Return, Goto, Untouched, Typed, TypeOK, clientVars
  <1>2. CASE Execute(d)
    BY <1>2 DEF Execute, Run, Return, Goto, Untouched, Typed, TypeOK, clientVars
  <1>3. CASE Begin(d)
    BY <1>3 DEF Begin, Untouched, Typed, TypeOK, clientVars
  <1>4. CASE End(d)
    BY <1>4 DEF End, Untouched, Typed, TypeOK, clientVars
  <1>5. CASE Work(d)
    BY <1>5 DEF Work, Untouched, Typed, TypeOK, clientVars
  <1> QED
    BY <1>1, <1>2, <1>3, <1>4, <1>5 DEF RunSQL

\* The client of another connection.
LEMMA ClientElsewhere ==
    ASSUME Typed, NEW c \in Conns, NEW d \in Conns \ {c}, Client(d)
    PROVE  Untouched(c)
  <1>1. ASSUME NEW m \in Requests, Send(d, m) PROVE Untouched(c)
    BY <1>1 DEF Send, Untouched, Typed, TypeOK, serverVars
  <1>2. CASE Receive(d)
    BY <1>2 DEF Receive, Untouched, Typed, TypeOK, serverVars
  <1>3. CASE HangUp(d)
    BY <1>3 DEF HangUp, Untouched, Typed, TypeOK, serverVars
  <1> QED
    BY <1>1, <1>2, <1>3 DEF Client

\* Steps that touch no entry CarefulAt speaks of: MapRace stops the process,
\* HangUp is seen by no one yet.
LEMMA NobodyTouched ==
    ASSUME NEW c \in Conns, NEW d \in Conns, MapRace(d) \/ HangUp(d)
    PROVE  Untouched(c) /\ (fault' # fault => fault'.kind = "maprace")
  BY DEF MapRace, HangUp, Untouched, serverVars, clientVars

\* A step of the connection itself.
LEMMA OwnStepCareful ==
    ASSUME Typed, NEW c \in Careful, CarefulAt(c), Goroutine(c) \/ Client(c)
    PROVE  CarefulAt(c)' /\ UNCHANGED fault
  <1> c \in Conns
    BY ConstantsAssumption
  <1>1. CASE Loop(c)
    BY <1>1, LoopCareful DEF Loop, PeekType, PeekTypeError, Respond, PeekTypeNonBlocking,
       PollDeadline, ReadyForMessage
  <1>2. CASE Prepare(c)
    BY <1>2, PrepareCareful DEF Prepare, Parse, Bind, DescribeStatement, DescribePortal,
       CloseStatement, ClosePortal
  <1>3. CASE Simple(c)
    BY <1>3, SimpleCareful DEF Simple, Sync, Flush, Unsupported, Terminate
  <1>4. CASE RunSQL(c)
    BY <1>4, RunSQLCareful, EndCareful DEF RunSQL, Query, Execute, Begin, Work
  <1>5. CASE Client(c)
    BY <1>5, SendCareful, ReceiveCareful, NobodyTouched, UntouchedCareful
       DEF Client, Send, Receive, HangUp, serverVars
  <1> QED
    BY <1>1, <1>2, <1>3, <1>4, <1>5 DEF Goroutine

\* A goroutine or a client stops the process only on its own account.
LEMMA FaultByOwner ==
    ASSUME NEW d \in Conns, Goroutine(d) \/ Client(d)
    PROVE  fault' # fault => fault'.by = d
  <1>1. CASE Loop(d)
    BY <1>1 DEF Loop, PeekType, PeekTypeError, Respond, PeekTypeNonBlocking, PollDeadline,
       ReadyForMessage
  <1>2. CASE Prepare(d)
    BY <1>2 DEF Prepare, Parse, Bind, DescribeStatement, DescribePortal, CloseStatement,
       ClosePortal
  <1>3. CASE Simple(d)
    BY <1>3 DEF Simple, Sync, Flush, Unsupported, Terminate
  <1>4. CASE Query(d) \/ Execute(d) \/ Begin(d) \/ Work(d)
    BY <1>4 DEF Query, Execute, Begin, Work
  <1>5. CASE End(d)
    BY <1>5 DEF End
  <1>6. CASE Client(d)
    BY <1>6, NobodyTouched DEF Client, Send, Receive, HangUp, serverVars
  <1> QED
    BY <1>1, <1>2, <1>3, <1>4, <1>5, <1>6 DEF Goroutine, RunSQL

\* No connection has sent, begun or ended anything at the start.
LEMMA InitCareful == Init => CarefulInv
  <1> SUFFICES ASSUME Init PROVE CarefulInv
    OBVIOUS
  <1>1. CarefulClientNeverKills
    BY DEF Init, CarefulClientNeverKills
  <1>2. ASSUME NEW c \in Careful PROVE CarefulAt(c)
    <2>1. /\ c \in Conns /\ pc[c] = "peek" /\ inbox[c] = <<>> /\ outbox[c] = <<>>
          /\ reply[c] = NoResponse /\ stmts[c] = None /\ portals[c] = None /\ view[c] = "idle"
      BY ConstantsAssumption DEF Init
    <2>2. DOMAIN inbox[c] = {} /\ DOMAIN outbox[c] = {}
      BY <2>1
    <2>3. ~EndAck(reply[c]) /\ ~BeginAck(reply[c]) /\ reply[c].kind # "ready"
      BY <2>1 DEF NoResponse, EndAck, BeginAck, Complete
    <2>4. ~EndInHand(c) /\ ~EndAhead(c) /\ ~EndAnswered(c)
      BY <2>1, <2>2, <2>3 DEF EndInHand, EndAhead, EndAnswered
    <2> QED
      BY <2>1, <2>2, <2>3, <2>4
         DEF CarefulAt, OnlyPlainEnds, OneEnd, OneAnswer, BeginStands, HeldWhenNeeded
  <1> QED
    BY <1>1, <1>2 DEF CarefulInv, CarefulAt

\* Every step keeps CarefulInv: of a careful connection, of another, or a stutter.
LEMMA NextCareful == Typed /\ CarefulInv /\ [Next]_vars => CarefulInv'
  <1> SUFFICES ASSUME Typed, CarefulInv, [Next]_vars PROVE CarefulInv'
    OBVIOUS
  <1> USE ConstantsAssumption
  <1>1. CarefulClientNeverKills /\ \A c \in Careful : CarefulAt(c)
    BY DEF CarefulInv, CarefulAt
  <1>2. CASE UNCHANGED vars
    <2>1. \A c \in Careful : Untouched(c)
      BY <1>2 DEF vars, serverVars, clientVars, Untouched
    <2> QED
      BY <1>1, <1>2, <2>1, UntouchedCareful
         DEF CarefulInv, CarefulAt, CarefulClientNeverKills, vars, serverVars
  <1>3. ASSUME NEW d \in Conns, Goroutine(d) \/ Client(d) \/ MapRace(d)
        PROVE  CarefulInv'
    <2>1. ASSUME NEW c \in Careful, c # d
          PROVE  Untouched(c)
      BY <1>3, <2>1, LoopElsewhere, HandlerElsewhere, RunSQLElsewhere, ClientElsewhere,
         NobodyTouched DEF Goroutine
    <2>2. \A c \in Careful : CarefulAt(c)'
      BY <1>1, <1>3, <2>1, UntouchedCareful, OwnStepCareful, NobodyTouched
    <2>3. fault' # fault => fault'.by \notin Careful \/ fault'.kind = "maprace"
      <3>1. CASE MapRace(d)
        BY <3>1, NobodyTouched
      <3>2. CASE d \in Careful /\ ~MapRace(d)
        BY <1>1, <1>3, <3>2, OwnStepCareful
      <3>3. CASE d \notin Careful /\ ~MapRace(d)
        BY <1>3, <3>3, FaultByOwner
      <3> QED
        BY <3>1, <3>2, <3>3
    <2>4. CarefulClientNeverKills'
      BY <1>1, <2>3 DEF CarefulClientNeverKills
    <2> QED
      BY <2>2, <2>4 DEF CarefulInv, CarefulAt
  <1> QED
    BY <1>2, <1>3 DEF Next

\* CarefulInv is an invariant for any set of connections, careful and careless.
THEOREM CarefulInvariant == Spec => []CarefulInv
  BY InitCareful, NextCareful, SpecTyped, PTL DEF Spec

\* However many connections there are and whatever they send, a client that
\* ends only what it has seen begin does not have the server unlock a mutex
\* that is not held.
THEOREM CarefulSafe == Spec => []CarefulClientNeverKills
  <1>1. CarefulInv => CarefulClientNeverKills
    BY DEF CarefulInv
  <1> QED
    BY <1>1, CarefulInvariant, PTL

\* A careful client whose transaction is open holds the mutex, and no
\* ReadyForQuery on its way to it says that the transaction is over.
THEOREM NeverReportedIdle == Spec => []OpenIsNeverReportedIdle
  <1>1. CarefulInv => OpenIsNeverReportedIdle
    BY DEF CarefulInv, HeldWhenNeeded, OpenIsNeverReportedIdle
  <1> QED
    BY <1>1, CarefulInvariant, PTL
-----------------------------------------------------------------------------
(***************************************************************************)
(* What an Execute runs.  The requests in the socket carry the server's    *)
(* maps, one after the other, to what their sender believes in.            *)
(***************************************************************************)
Books == [stmts : Prepared, portals : Prepared]

\* What the server keeps for c, and what it is once the request in hand is done.
Book(c)   == [stmts |-> Entry(stmts, c, TRUE), portals |-> Entry(portals, c, TRUE)]
Future(c) == IF pc[c] = "handle" THEN Intended(Book(c), req[c].msg) ELSE Book(c)

\* The maps before each request of the socket, and after the last one.
Leads(c, books) ==
    /\ books \in [1 .. Len(inbox[c]) + 1 -> Books]
    /\ books[1] = Future(c)
    /\ \A i \in 1 .. Len(inbox[c]) :
          /\ books[i + 1] = Intended(books[i], inbox[c][i].msg)
          /\ inbox[c][i].want = books[i].portals[inbox[c][i].msg.name]
    /\ books[Len(inbox[c]) + 1] = intent[c]

Followed(c) ==
    c \notin missed =>
        /\ pc[c] = "handle" => req[c].want = Book(c).portals[req[c].msg.name]
        /\ \E books : Leads(c, books)

\* The maps of the server are maps of a client.
LEMMA BookTyped ==
    ASSUME Typed, NEW c \in Conns
    PROVE  /\ Book(c) \in Books /\ Future(c) \in Books /\ intent[c] \in Books
           /\ inbox[c] \in Seq(InFlight) /\ Len(inbox[c]) \in Nat
  <1>1. Book(c) \in Books
    BY EntryTyped DEF Book, Books
  <1>2. Future(c) \in Books
    <2>1. pc[c] = "handle" => req[c].msg \in Message
      BY DEF Typed, InFlight
    <2> QED
      BY <1>1, <2>1, IntendedTyped DEF Future, Books
  <1>3. inbox[c] \in Seq(InFlight)
    BY DEF Typed, TypeOK
  <1>4. Len(inbox[c]) \in Nat
    BY <1>3, LenProperties
  <1>5. intent[c] \in Books
    BY DEF Typed, TypeOK, Books
  <1> QED
    BY <1>1, <1>2, <1>3, <1>4, <1>5

\* A step that does not touch the requests of c, nor what they lead to.
LEMMA SameFollowed ==
    ASSUME NEW c \in Conns, Followed(c), c \notin missed' => c \notin missed,
           inbox'[c] = inbox[c], intent'[c] = intent[c],
           c \notin missed' => Future(c)' = Future(c),
           pc'[c] = "handle" => /\ pc[c] = "handle" /\ req'[c] = req[c]
                                /\ stmts'[c] = stmts[c] /\ portals'[c] = portals[c]
    PROVE  Followed(c)'
  <1> SUFFICES ASSUME c \notin missed'
               PROVE  /\ pc'[c] = "handle" => req'[c].want = Book(c)'.portals[req'[c].msg.name]
                      /\ \E books : Leads(c, books)'
    BY DEF Followed
  <1>1. pc'[c] = "handle" => req'[c].want = Book(c)'.portals[req'[c].msg.name]
    BY DEF Followed, Book, Entry
  <1>2. PICK books : Leads(c, books)
    BY DEF Followed
  <1>3. Leads(c, books)'
    BY <1>2 DEF Leads
  <1> QED
    BY <1>1, <1>3

\* A handler brings the maps to where the request leads.
LEMMA HandledFollowed ==
    ASSUME NEW c \in Conns, Followed(c), c \notin missed' => c \notin missed,
           inbox'[c] = inbox[c], intent'[c] = intent[c], pc[c] = "handle", pc'[c] # "handle",
           c \notin missed' => Book(c)' = Intended(Book(c), req[c].msg)
    PROVE  Followed(c)'
  BY SameFollowed DEF Future

\* The first request of the socket comes into the hands of the server.
LEMMA PeekTypeFollowed ==
    ASSUME Typed, NEW c \in Conns, Followed(c), PeekType(c)
    PROVE  Followed(c)'
  <1>1. /\ pc[c] = "peek" /\ pc'[c] = "handle" /\ inbox[c] # <<>>
        /\ req'[c] = Head(inbox[c]) /\ inbox'[c] = Tail(inbox[c])
        /\ intent'[c] = intent[c] /\ missed' = missed
        /\ stmts'[c] = stmts[c] /\ portals'[c] = portals[c]
    BY DEF PeekType, Goto, Typed, TypeOK, clientVars
  <1>2. PICK k : k = Len(inbox[c])
    OBVIOUS
  <1>3. /\ k \in Nat \ {0} /\ Len(inbox'[c]) = k - 1 /\ Head(inbox[c]) = inbox[c][1]
        /\ \A i \in 1 .. k - 1 : inbox'[c][i] = inbox[c][i + 1]
    <2>1. inbox[c] \in Seq(InFlight)
      BY BookTyped
    <2>2. /\ Head(inbox[c]) = inbox[c][1] /\ Len(Tail(inbox[c])) = Len(inbox[c]) - 1
          /\ \A i \in 1 .. Len(Tail(inbox[c])) : Tail(inbox[c])[i] = inbox[c][i + 1]
          /\ Len(inbox[c]) \in Nat /\ Len(inbox[c]) # 0
      BY <1>1, <2>1, HeadTailProperties, LenProperties, EmptySeq
    <2> QED
      BY <1>1, <1>2, <2>2
  <1>4. Book(c)' = Book(c)
    BY <1>1 DEF Book, Entry
  <1> SUFFICES ASSUME c \notin missed
               PROVE  /\ req'[c].want = Book(c).portals[req'[c].msg.name]
                      /\ \E books : Leads(c, books)'
    BY <1>1, <1>4 DEF Followed
  <1>5. PICK books : Leads(c, books)
    BY DEF Followed
  <1>6. /\ books \in [1 .. k + 1 -> Books] /\ books[1] = Book(c) /\ books[k + 1] = intent[c]
        /\ \A i \in 1 .. k : /\ books[i + 1] = Intended(books[i], inbox[c][i].msg)
                             /\ inbox[c][i].want = books[i].portals[inbox[c][i].msg.name]
    BY <1>1, <1>2, <1>5 DEF Leads, Future
  <1>7. req'[c].want = Book(c).portals[req'[c].msg.name]
    BY <1>1, <1>3, <1>6
  <1> DEFINE rest == [i \in 1 .. k |-> books[i + 1]]
  <1>8. Leads(c, rest)'
    <2>1. rest \in [1 .. k -> Books] /\ (k - 1) + 1 = k
      BY <1>3, <1>6
    <2>2. rest[1] = Future(c)'
      BY <1>1, <1>3, <1>4, <1>6 DEF Future
    <2>3. rest[k] = intent'[c]
      BY <1>1, <1>3, <1>6
    <2>4. ASSUME NEW i \in 1 .. k - 1
          PROVE  /\ rest[i + 1] = Intended(rest[i], inbox'[c][i].msg)
                 /\ inbox'[c][i].want = rest[i].portals[inbox'[c][i].msg.name]
      <3>1. i \in 1 .. k /\ i + 1 \in 1 .. k /\ inbox'[c][i] = inbox[c][i + 1]
        BY <1>3
      <3>2. rest[i] = books[i + 1] /\ rest[i + 1] = books[(i + 1) + 1]
        BY <3>1
      <3> QED
        BY <1>6, <3>1, <3>2
    <2> HIDE DEF rest
    <2>5. Len(inbox'[c]) + 1 = k
      BY <1>3
    <2> QED
      BY <1>3, <2>1, <2>2, <2>3, <2>4, <2>5 DEF Leads
  <1> QED
    BY <1>7, <1>8

\* A new request is sent behind the others, by a client that believes in where
\* they lead.
LEMMA SendFollowed ==
    ASSUME Typed, NEW c \in Conns, Followed(c), NEW m \in Requests, Send(c, m)
    PROVE  Followed(c)'
  <1> DEFINE e == [msg |-> m, want |-> intent[c].portals[m.name]]
  <1>1. /\ inbox'[c] = Append(inbox[c], e) /\ intent'[c] = Intended(intent[c], m)
        /\ pc' = pc /\ req' = req /\ missed' = missed /\ stmts' = stmts /\ portals' = portals
    BY DEF Send, Typed, TypeOK, serverVars
  <1>2. PICK k : k = Len(inbox[c])
    OBVIOUS
  <1>3. /\ k \in Nat /\ Len(inbox'[c]) = k + 1 /\ inbox'[c][k + 1] = e
        /\ \A i \in 1 .. k : inbox'[c][i] = inbox[c][i]
    <2>1. inbox[c] \in Seq(InFlight) /\ Len(inbox[c]) \in Nat
      BY BookTyped
    <2> QED
      BY <1>1, <1>2, <2>1, AppendProperties
  <1>4. Future(c)' = Future(c) /\ Book(c)' = Book(c)
    BY <1>1 DEF Book, Entry, Future
  <1>5. Intended(intent[c], m) \in Books
    BY BookTyped, IntendedTyped, RequestsAssumption DEF Books
  <1> SUFFICES ASSUME c \notin missed PROVE \E books : Leads(c, books)'
    BY <1>1, <1>4 DEF Followed
  <1>6. PICK books : Leads(c, books)
    BY DEF Followed
  <1>7. /\ books \in [1 .. k + 1 -> Books] /\ books[1] = Future(c) /\ books[k + 1] = intent[c]
        /\ \A i \in 1 .. k : /\ books[i + 1] = Intended(books[i], inbox[c][i].msg)
                             /\ inbox[c][i].want = books[i].portals[inbox[c][i].msg.name]
    BY <1>2, <1>6 DEF Leads
  <1>8. PICK more :
          more = [i \in 1 .. k + 2 |-> IF i = k + 2 THEN Intended(intent[c], m) ELSE books[i]]
    OBVIOUS
  <1>9. Leads(c, more)'
    <2>1. more \in [1 .. (k + 1) + 1 -> Books]
      BY <1>3, <1>5, <1>7, <1>8
    <2>2. more[1] = Future(c)' /\ more[(k + 1) + 1] = intent'[c]
      BY <1>1, <1>3, <1>4, <1>7, <1>8
    <2>3. ASSUME NEW i \in 1 .. k + 1
          PROVE  /\ more[i + 1] = Intended(more[i], inbox'[c][i].msg)
                 /\ inbox'[c][i].want = more[i].portals[inbox'[c][i].msg.name]
      <3>1. CASE i = k + 1
        <4>1. more[i] = intent[c] /\ more[i + 1] = Intended(intent[c], m)
          BY <1>3, <1>7, <1>8, <3>1
        <4>2. inbox'[c][i].msg = m /\ inbox'[c][i].want = intent[c].portals[m.name]
          BY <1>3, <3>1
        <4> QED
          BY <4>1, <4>2
      <3>2. CASE i # k + 1
        <4>1. i \in 1 .. k /\ more[i] = books[i] /\ more[i + 1] = books[i + 1]
          BY <1>3, <1>8, <3>2
        <4> QED
          BY <1>3, <1>7, <4>1
      <3> QED
        BY <3>1, <3>2
    <2> HIDE DEF e
    <2>4. PICK n : n = k + 1
      OBVIOUS
    <2>5. /\ Len(inbox'[c]) = n /\ more \in [1 .. n + 1 -> Books]
          /\ more[1] = Future(c)' /\ more[n + 1] = intent'[c]
          /\ \A i \in 1 .. n : /\ more[i + 1] = Intended(more[i], inbox'[c][i].msg)
                               /\ inbox'[c][i].want = more[i].portals[inbox'[c][i].msg.name]
      BY ONLY <1>3, <2>1, <2>2, <2>3, <2>4, Zenon
    <2> QED
      BY ONLY <2>5 DEF Leads
  <1> QED
    BY <1>9

\* What a handler does to the books of its connection when no read missed.
Handled(c) ==
    /\ inbox' = inbox /\ intent' = intent /\ missed \subseteq missed'
    /\ pc[c] = "handle" /\ pc'[c] # "handle"
    /\ c \notin missed' => Book(c)' = Intended(Book(c), req[c].msg)

\* A map the server has made is the book's, and a book has no entry before.
LEMMA EntryOf ==
    ASSUME NEW maps, NEW c
    PROVE  /\ maps[c] # None => Entry(maps, c, TRUE) = maps[c]
           /\ maps[c] = None => Entry(maps, c, TRUE) = EmptyMap
           /\ EmptyMap # None
           /\ \A m \in Prepared : m # None
           /\ \A n \in Names : [EmptyMap EXCEPT ![n] = None] = EmptyMap
  BY ConstantsAssumption DEF Entry, EmptyMap, Prepared

\* Parse sets a statement, Bind a portal, when Intended says so.
LEMMA ParseHandled ==
    ASSUME Typed, NEW c \in Conns, Parse(c)
    PROVE  Handled(c)
  <1> DEFINE m == req[c].msg
  <1>1. PICK hit \in BOOLEAN :
          /\ stmts' = [stmts EXCEPT ![c] =
                          IF Preparable(m.text)
                          THEN [Entry(stmts, c, hit) EXCEPT ![m.name] = m.text]
                          ELSE Entry(stmts, c, hit)]
          /\ Misses(c, hit)
    BY DEF Parse, Hits
  <1>2. /\ inbox' = inbox /\ intent' = intent /\ portals' = portals
        /\ pc[c] = "handle" /\ pc'[c] = "reply" /\ m.type = "parse" /\ m \in Message
    BY DEF Parse, Handling, Return, Typed, TypeOK, clientVars, InFlight
  <1>3. missed \subseteq missed' /\ (c \notin missed' => hit = TRUE)
    BY <1>1 DEF Misses
  <1>4. ASSUME hit = TRUE PROVE Book(c)' = Intended(Book(c), m)
    <2> DEFINE now == IF Preparable(m.text)
                      THEN [Entry(stmts, c, TRUE) EXCEPT ![m.name] = m.text]
                      ELSE Entry(stmts, c, TRUE)
    <2>1. stmts'[c] = now
      BY <1>1, <1>4 DEF Typed, TypeOK
    <2>2. now \in Prepared
      <3>1. Entry(stmts, c, TRUE) \in Prepared
        BY EntryTyped
      <3>2. m.name \in Names /\ m.text \in Texts
        BY <1>2 DEF Message
      <3> QED
        BY <3>1, <3>2 DEF Prepared
    <2>3. Entry(stmts, c, TRUE)' = now
      BY <2>1, <2>2, EntryOf DEF Entry
    <2>4. Entry(portals, c, TRUE)' = Entry(portals, c, TRUE)
      BY <1>2 DEF Entry
    <2>5. Intended(Book(c), m) = [stmts |-> now, portals |-> Entry(portals, c, TRUE)]
      BY <1>2 DEF Intended, Book
    <2> QED
      BY <2>3, <2>4, <2>5 DEF Book
  <1> QED
    BY <1>2, <1>3, <1>4 DEF Handled

LEMMA BindHandled ==
    ASSUME Typed, NEW c \in Conns, Bind(c)
    PROVE  Handled(c)
  <1> DEFINE m == req[c].msg
  <1>1. PICK hit \in BOOLEAN :
          /\ portals' = IF Entry(stmts, c, hit)[m.from] = None THEN portals
                        ELSE [portals EXCEPT ![c] = [Entry(portals, c, hit) EXCEPT
                                                       ![m.name] = Entry(stmts, c, hit)[m.from]]]
          /\ Misses(c, hit)
    BY DEF Bind, Hits
  <1>2. /\ inbox' = inbox /\ intent' = intent /\ stmts' = stmts
        /\ pc[c] = "handle" /\ pc'[c] = "reply" /\ m.type = "bind" /\ m \in Message
    BY DEF Bind, Handling, Return, Typed, TypeOK, clientVars, InFlight
  <1>3. missed \subseteq missed' /\ (c \notin missed' => hit = TRUE)
    BY <1>1 DEF Misses
  <1>4. ASSUME hit = TRUE PROVE Book(c)' = Intended(Book(c), m)
    <2> DEFINE text == Entry(stmts, c, TRUE)[m.from]
               now  == [Entry(portals, c, TRUE) EXCEPT ![m.name] = text]
    <2>1. Entry(stmts, c, TRUE)' = Entry(stmts, c, TRUE)
      BY <1>2 DEF Entry
    <2>2. CASE text = None
      <3>1. portals' = portals
        BY <1>1, <1>4, <2>2
      <3>2. Intended(Book(c), m) = Book(c)
        BY <1>2, <2>2 DEF Intended, Book
      <3> QED
        BY <2>1, <3>1, <3>2 DEF Book, Entry
    <2>3. CASE text # None
      <3>1. portals'[c] = now
        BY <1>1, <1>4, <2>3 DEF Typed, TypeOK
      <3>2. now \in Prepared
        <4>1. Entry(portals, c, TRUE) \in Prepared /\ Entry(stmts, c, TRUE) \in Prepared
          BY EntryTyped
        <4>2. m.name \in Names /\ m.from \in Names
          BY <1>2 DEF Message
        <4> QED
          BY <4>1, <4>2 DEF Prepared
      <3>3. Entry(portals, c, TRUE)' = now
        BY <3>1, <3>2, EntryOf DEF Entry
      <3>4. Intended(Book(c), m) = [stmts |-> Entry(stmts, c, TRUE), portals |-> now]
        BY <1>2, <2>3 DEF Intended, Book
      <3> QED
        BY <2>1, <3>3, <3>4 DEF Book
    <2> QED
      BY <2>2, <2>3
  <1> QED
    BY <1>2, <1>3, <1>4 DEF Handled

\* The two Close handlers empty an entry, of a map that may not be there.
LEMMA ClearedEntry ==
    ASSUME NEW maps \in [Conns -> Prepared \cup {None}], NEW c \in Conns, NEW n \in Names, NEW then,
           then = IF maps[c] # None THEN [maps EXCEPT ![c][n] = None] ELSE maps
    PROVE  Entry(then, c, TRUE) = [Entry(maps, c, TRUE) EXCEPT ![n] = None]
  <1>1. CASE maps[c] = None
    BY <1>1, EntryOf DEF Entry
  <1>2. CASE maps[c] # None
    <2>1. then[c] = [maps[c] EXCEPT ![n] = None] /\ maps[c] \in Prepared
      BY <1>2
    <2>2. then[c] \in Prepared
      BY <2>1 DEF Prepared
    <2> QED
      BY <1>2, <2>1, <2>2, EntryOf
  <1> QED
    BY <1>1, <1>2

LEMMA CloseHandled ==
    ASSUME Typed, NEW c \in Conns, CloseStatement(c) \/ ClosePortal(c)
    PROVE  Handled(c)
  <1> DEFINE m == req[c].msg
  <1>1. CASE CloseStatement(c)
    <2>1. PICK hit \in BOOLEAN :
            /\ stmts' = IF hit /\ stmts[c] # None
                        THEN [stmts EXCEPT ![c][m.name] = None] ELSE stmts
            /\ Misses(c, hit)
      BY <1>1 DEF CloseStatement, Hits
    <2>2. /\ inbox' = inbox /\ intent' = intent /\ portals' = portals
          /\ pc[c] = "handle" /\ pc'[c] = "reply" /\ m.type = "closeStatement" /\ m \in Message
      BY <1>1 DEF CloseStatement, Handling, Return, Typed, TypeOK, clientVars, InFlight
    <2>3. missed \subseteq missed' /\ (c \notin missed' => hit = TRUE)
      BY <2>1 DEF Misses
    <2>4. ASSUME hit = TRUE PROVE Book(c)' = Intended(Book(c), m)
      <3>1. stmts \in [Conns -> Prepared \cup {None}] /\ m.name \in Names
        BY <2>2 DEF Typed, TypeOK, Message
      <3>2. Entry(stmts', c, TRUE) = [Entry(stmts, c, TRUE) EXCEPT ![m.name] = None]
        BY <2>1, <2>4, <3>1, ClearedEntry
      <3>3. Book(c)' = [stmts |-> Entry(stmts', c, TRUE), portals |-> Entry(portals, c, TRUE)]
        BY <2>2 DEF Book, Entry
      <3> QED
        BY <2>2, <3>2, <3>3 DEF Intended, Book
    <2> QED
      BY <2>2, <2>3, <2>4 DEF Handled
  <1>2. CASE ClosePortal(c)
    <2>1. PICK hit \in BOOLEAN :
            /\ portals' = IF hit /\ portals[c] # None
                          THEN [portals EXCEPT ![c][m.name] = None] ELSE portals
            /\ Misses(c, hit)
      BY <1>2 DEF ClosePortal, Hits
    <2>2. /\ inbox' = inbox /\ intent' = intent /\ stmts' = stmts
          /\ pc[c] = "handle" /\ pc'[c] = "reply" /\ m.type = "closePortal" /\ m \in Message
      BY <1>2 DEF ClosePortal, Handling, Return, Typed, TypeOK, clientVars, InFlight
    <2>3. missed \subseteq missed' /\ (c \notin missed' => hit = TRUE)
      BY <2>1 DEF Misses
    <2>4. ASSUME hit = TRUE PROVE Book(c)' = Intended(Book(c), m)
      <3>1. portals \in [Conns -> Prepared \cup {None}] /\ m.name \in Names
        BY <2>2 DEF Typed, TypeOK, Message
      <3>2. Entry(portals', c, TRUE) = [Entry(portals, c, TRUE) EXCEPT ![m.name] = None]
        BY <2>1, <2>4, <3>1, ClearedEntry
      <3>3. Book(c)' = [stmts |-> Entry(stmts, c, TRUE), portals |-> Entry(portals', c, TRUE)]
        BY <2>2 DEF Book, Entry
      <3> QED
        BY <2>2, <3>2, <3>3 DEF Intended, Book
    <2> QED
      BY <2>2, <2>3, <2>4 DEF Handled
  <1> QED
    BY <1>1, <1>2

\* The other handlers leave the maps alone, and so does Intended.
LEMMA ReadOnlyHandled ==
    ASSUME NEW c \in Conns, inbox' = inbox, intent' = intent, missed \subseteq missed',
           stmts' = stmts, portals' = portals, pc[c] = "handle", pc'[c] # "handle",
           req[c].msg.type \notin {"parse", "bind", "closeStatement", "closePortal"}
    PROVE  Handled(c)
  <1>1. Book(c)' = Book(c)
    BY DEF Book, Entry
  <1>2. Intended(Book(c), req[c].msg) = Book(c)
    BY DEF Intended
  <1> QED
    BY <1>1, <1>2 DEF Handled

\* Running SQL takes the goroutine out of the handler.
LEMMA RunLeaves ==
    ASSUME Typed, NEW c \in Conns, NEW text, Run(c, text)
    PROVE  pc'[c] \in {"reply", "run"}
  BY DEF Run, Return, Goto, Typed, TypeOK

LEMMA HandlerHandled ==
    ASSUME Typed, NEW c \in Conns,
           Prepare(c) \/ Simple(c) \/ Query(c) \/ Execute(c)
    PROVE  Handled(c)
  <1>1. CASE Parse(c) \/ Bind(c) \/ CloseStatement(c) \/ ClosePortal(c)
    BY <1>1, ParseHandled, BindHandled, CloseHandled
  <1>2. CASE DescribeStatement(c)
    <2>1. /\ inbox' = inbox /\ intent' = intent /\ stmts' = stmts /\ portals' = portals
          /\ pc[c] = "handle" /\ req[c].msg.type = "describeStatement" /\ pc'[c] = "reply"
          /\ missed \subseteq missed'
      BY <1>2 DEF DescribeStatement, Handling, Return, Misses, Typed, TypeOK, clientVars
    <2> QED
      BY <2>1, ReadOnlyHandled
  <1>3. CASE DescribePortal(c)
    <2>1. /\ inbox' = inbox /\ intent' = intent /\ stmts' = stmts /\ portals' = portals
          /\ pc[c] = "handle" /\ req[c].msg.type = "describePortal" /\ pc'[c] = "reply"
          /\ missed \subseteq missed'
      BY <1>3 DEF DescribePortal, Handling, Return, Misses, Typed, TypeOK, clientVars
    <2> QED
      BY <2>1, ReadOnlyHandled
  <1>4. CASE Simple(c)
    <2>1. /\ inbox' = inbox /\ intent' = intent /\ stmts' = stmts /\ portals' = portals
          /\ pc[c] = "handle" /\ missed' = missed
          /\ req[c].msg.type \in {"sync", "flush", "unsupported", "terminate"}
          /\ pc'[c] \in {"reply", "closed"}
      BY <1>4 DEF Simple, Sync, Flush, Unsupported, Terminate, Handling, Return, Goto,
                  Typed, TypeOK, clientVars
    <2> QED
      BY <2>1, ReadOnlyHandled
  <1>5. CASE Query(c)
    <2>1. /\ inbox' = inbox /\ intent' = intent /\ stmts' = stmts /\ portals' = portals
          /\ pc[c] = "handle" /\ req[c].msg.type = "query" /\ missed' = missed
          /\ Run(c, req[c].msg.text)
      BY <1>5 DEF Query, Handling, clientVars
    <2> QED
      BY <2>1, RunLeaves, ReadOnlyHandled
  <1>6. CASE Execute(c)
    <2>1. /\ inbox' = inbox /\ intent' = intent /\ stmts' = stmts /\ portals' = portals
          /\ pc[c] = "handle" /\ req[c].msg.type = "execute" /\ missed \subseteq missed'
      BY <1>6 DEF Execute, Handling, Misses, clientVars
    <2>2. \E text : (Return(c, Error("execute")) /\ UNCHANGED todo) \/ Run(c, text)
      BY <1>6 DEF Execute
    <2>3. Return(c, Error("execute")) => pc'[c] = "reply"
      BY DEF Return, Typed, TypeOK
    <2>4. pc'[c] \in {"reply", "run"}
      BY <2>2, <2>3, RunLeaves
    <2> QED
      BY <2>1, <2>4, ReadOnlyHandled
  <1> QED
    BY <1>1, <1>2, <1>3, <1>4, <1>5, <1>6 DEF Prepare

\* Steps after which c has the same requests, handled or not, and the same maps.
Steady(c) ==
    /\ inbox'[c] = inbox[c] /\ intent'[c] = intent[c] /\ missed \subseteq missed'
    /\ stmts'[c] = stmts[c] /\ portals'[c] = portals[c]
    /\ (pc[c] = "handle") = (pc'[c] = "handle") /\ req'[c] = req[c]

LEMMA SteadyFollowed ==
    ASSUME NEW c \in Conns, Followed(c), Steady(c)
    PROVE  Followed(c)'
  <1>1. Book(c)' = Book(c)
    BY DEF Book, Entry, Steady
  <1>2. Future(c)' = Future(c)
    BY <1>1 DEF Future, Steady
  <1> QED
    BY <1>2, SameFollowed DEF Steady

\* What one statement of a Query does to the goroutine.
LEMMA StatementLeaves ==
    ASSUME Typed, NEW c \in Conns, NEW s, NEW ok \in BOOLEAN,
           StatementDone(c, s, ok)
    PROVE  pc'[c] = "reply" \/ pc' = pc
  BY DEF StatementDone, Return, Typed, TypeOK

\* The rest of receive, the statements of a Query and the client's other steps.
LEMMA OtherSteady ==
    ASSUME Typed, NEW c \in Conns,
           \/ PeekTypeError(c) \/ Respond(c) \/ PeekTypeNonBlocking(c) \/ PollDeadline(c)
           \/ ReadyForMessage(c) \/ Begin(c) \/ End(c) \/ Work(c)
           \/ Receive(c) \/ HangUp(c) \/ MapRace(c)
    PROVE  Steady(c)
  <1>1. CASE \/ PeekTypeError(c) \/ Respond(c) \/ PeekTypeNonBlocking(c) \/ PollDeadline(c)
             \/ ReadyForMessage(c)
    <2>1. /\ inbox' = inbox /\ intent' = intent /\ missed' = missed
          /\ stmts' = stmts /\ portals' = portals /\ req' = req
          /\ pc[c] \in {"peek", "reply", "poll", "ready"}
      BY <1>1 DEF PeekTypeError, Respond, PeekTypeNonBlocking, PollDeadline, ReadyForMessage,
         clientVars
    <2>2. \E label \in {"closed", "poll", "peek", "ready"} : Goto(c, label)
      BY <1>1 DEF PeekTypeError, Respond, PeekTypeNonBlocking, PollDeadline, ReadyForMessage
    <2>3. pc'[c] # "handle"
      BY <2>2 DEF Goto, Typed, TypeOK
    <2> QED
      BY <2>1, <2>3 DEF Steady
  <1>2. CASE Begin(c) \/ End(c) \/ Work(c)
    <2>1. /\ inbox' = inbox /\ intent' = intent /\ missed' = missed
          /\ stmts' = stmts /\ portals' = portals /\ req' = req /\ pc[c] = "run"
      BY <1>2 DEF Begin, End, Work, NextStatement, clientVars
    <2>2. \/ \E s \in {"begin", "end", "work"}, ok \in BOOLEAN : StatementDone(c, s, ok)
          \/ pc' = pc
      BY <1>2 DEF Begin, End, Work
    <2>3. pc'[c] # "handle"
      BY <2>1, <2>2, StatementLeaves
    <2> QED
      BY <2>1, <2>3 DEF Steady
  <1>3. CASE Receive(c) \/ HangUp(c) \/ MapRace(c)
    BY <1>3 DEF Receive, HangUp, MapRace, Steady, serverVars, clientVars
  <1> QED
    BY <1>1, <1>2, <1>3

\* A step of one connection moves no other client's book, and no connection
\* leaves missed.
LEMMA BooksElsewhere ==
    ASSUME Typed, NEW c \in Conns, NEW d \in Conns \ {c},
           Goroutine(d) \/ Client(d) \/ MapRace(d)
    PROVE  Steady(c)
  <1>1. Untouched(c)
    BY LoopElsewhere, HandlerElsewhere, RunSQLElsewhere, ClientElsewhere, NobodyTouched
       DEF Goroutine
  <1>2. intent'[c] = intent[c] /\ missed \subseteq missed'
    <2>1. CASE Prepare(d) \/ Simple(d) \/ Query(d) \/ Execute(d)
      BY <2>1, HandlerHandled DEF Handled
    <2>2. CASE PeekType(d)
      BY <2>2 DEF PeekType, clientVars
    <2>3. CASE \E m \in Requests : Send(d, m)
      BY <2>3 DEF Send, Typed, TypeOK, serverVars
    <2>4. CASE \/ PeekTypeError(d) \/ Respond(d) \/ PeekTypeNonBlocking(d) \/ PollDeadline(d)
               \/ ReadyForMessage(d) \/ Begin(d) \/ End(d) \/ Work(d)
               \/ Receive(d) \/ HangUp(d) \/ MapRace(d)
      BY <2>4 DEF PeekTypeError, Respond, PeekTypeNonBlocking, PollDeadline, ReadyForMessage,
         Begin, End, Work, Receive, HangUp, MapRace, serverVars, clientVars
    <2> QED
      BY <2>1, <2>2, <2>3, <2>4 DEF Goroutine, Loop, RunSQL, Client
  <1> QED
    BY <1>1, <1>2 DEF Untouched, Steady

\* Nothing is in the sockets at the start, and nobody believes in a portal.
LEMMA InitFollowed == Init => \A c \in Conns : Followed(c)
  <1> SUFFICES ASSUME Init, NEW c \in Conns PROVE Followed(c)
    OBVIOUS
  <1> DEFINE none == [stmts |-> EmptyMap, portals |-> EmptyMap]
             books == [i \in 1 .. 1 |-> none]
  <1>1. /\ inbox[c] = <<>> /\ intent[c] = none /\ pc[c] = "peek"
        /\ stmts[c] = None /\ portals[c] = None
    BY DEF Init
  <1>2. Future(c) = none
    BY <1>1, EntryOf DEF Future, Book
  <1>3. none \in Books
    BY DEF Books, EmptyMap, Prepared
  <1>4. books \in [1 .. 1 -> Books] /\ books[1] = none
    BY <1>3
  <1>5. Len(inbox[c]) = 0
    BY <1>1
  <1>6. Leads(c, books)
    <2> HIDE DEF books, none
    <2> QED
      BY <1>1, <1>2, <1>4, <1>5 DEF Leads
  <1> QED
    BY <1>1, <1>6 DEF Followed

LEMMA NextFollowed ==
    Typed /\ (\A c \in Conns : Followed(c)) /\ [Next]_vars => (\A c \in Conns : Followed(c))'
  <1> SUFFICES ASSUME Typed, \A c \in Conns : Followed(c), [Next]_vars, NEW c \in Conns
               PROVE  Followed(c)'
    OBVIOUS
  <1>1. CASE UNCHANGED vars
    <2>1. Steady(c)
      BY <1>1 DEF Steady, vars, serverVars, clientVars
    <2> QED
      BY <2>1, SteadyFollowed
  <1>2. ASSUME NEW d \in Conns \ {c}, Goroutine(d) \/ Client(d) \/ MapRace(d)
        PROVE  Followed(c)'
    BY <1>2, BooksElsewhere, SteadyFollowed
  <1>3. CASE Prepare(c) \/ Simple(c) \/ Query(c) \/ Execute(c)
    BY <1>3, HandlerHandled, HandledFollowed DEF Handled
  <1>4. CASE PeekType(c)
    BY <1>4, PeekTypeFollowed
  <1>5. CASE \E m \in Requests : Send(c, m)
    BY <1>5, SendFollowed
  <1>6. CASE \/ PeekTypeError(c) \/ Respond(c) \/ PeekTypeNonBlocking(c) \/ PollDeadline(c)
             \/ ReadyForMessage(c) \/ Begin(c) \/ End(c) \/ Work(c)
             \/ Receive(c) \/ HangUp(c) \/ MapRace(c)
    BY <1>6, OtherSteady, SteadyFollowed
  <1>7. CASE Goroutine(c) \/ Client(c) \/ MapRace(c)
    BY <1>3, <1>4, <1>5, <1>6, <1>7 DEF Goroutine, Loop, RunSQL, Client
  <1> QED
    BY <1>1, <1>2, <1>7 DEF Next

\* An Execute runs the text that was bound to the portal when it was sent,
\* however many requests were sent ahead, and whatever the others send.
THEOREM RunsWhatWasBound == Spec => []ExecuteRunsWhatWasBound
  <1>1. (\A c \in Conns : Followed(c)) => ExecuteRunsWhatWasBound
    BY DEF Followed, Book, Handling, ExecuteRunsWhatWasBound
  <1> QED
    BY <1>1, InitFollowed, NextFollowed, SpecTyped, PTL DEF Spec
-----------------------------------------------------------------------------
(***************************************************************************)
(* An Execute runs one statement: the maps hold nothing else, and what is  *)
(* left of a series of one, or answered for it, is not a series.           *)
(***************************************************************************)
SingleIn(map) == \A n \in Names : map[n] # None => Preparable(map[n])

SinglesKept(c) ==
    /\ stmts[c] # None => SingleIn(stmts[c])
    /\ portals[c] # None => SingleIn(portals[c])

OneAtMost(c) ==
    (req[c] # None /\ req[c].msg.type = "execute") =>
        /\ pc[c] = "run" => Len(todo[c]) = 1
        /\ pc[c] = "reply" => reply[c] \notin {Complete("query"), Error("query")}

OneStatement(c) == SinglesKept(c) /\ OneAtMost(c)

\* A map stays one of single statements when such a text is put in.
LEMMA SingleUpdate ==
    /\ \A map \in Prepared, n \in Names : \A t :
          SingleIn(map) /\ (t = None \/ Preparable(t)) => SingleIn([map EXCEPT ![n] = t])
    /\ SingleIn(EmptyMap)
  BY DEF SingleIn, Prepared, EmptyMap

\* So are the maps as a handler reads them, whether or not it misses.
LEMMA EntrySingle ==
    ASSUME NEW c, SinglesKept(c), NEW hit
    PROVE  SingleIn(Entry(stmts, c, hit)) /\ SingleIn(Entry(portals, c, hit))
  BY SingleUpdate DEF Entry, SinglesKept

\* Parse, Bind and Close put nothing but single statements into the maps.
LEMMA PrepareSingles ==
    ASSUME Typed, NEW c \in Conns, SinglesKept(c), Prepare(c)
    PROVE  SinglesKept(c)'
  <1> DEFINE m == req[c].msg
  <1>1. CASE Parse(c)
    <2>1. PICK hit : stmts' = [stmts EXCEPT ![c] =
                          IF Preparable(m.text)
                          THEN [Entry(stmts, c, hit) EXCEPT ![m.name] = m.text]
                          ELSE Entry(stmts, c, hit)]
      BY <1>1 DEF Parse
    <2>2. portals' = portals /\ m \in Message
      BY <1>1 DEF Parse, Handling, Typed, InFlight
    <2>3. SingleIn(Entry(stmts, c, hit)) /\ Entry(stmts, c, hit) \in Prepared
      BY EntrySingle, EntryTyped
    <2>4. Preparable(m.text) => SingleIn([Entry(stmts, c, hit) EXCEPT ![m.name] = m.text])
      BY <2>2, <2>3, SingleUpdate DEF Message
    <2>5. SingleIn(stmts'[c])
      BY <2>1, <2>3, <2>4 DEF Typed, TypeOK
    <2> QED
      BY <2>2, <2>5 DEF SinglesKept, SingleIn
  <1>2. CASE Bind(c)
    <2>1. PICK hit :
            portals' = IF Entry(stmts, c, hit)[m.from] = None THEN portals
                       ELSE [portals EXCEPT ![c] = [Entry(portals, c, hit) EXCEPT
                                                      ![m.name] = Entry(stmts, c, hit)[m.from]]]
      BY <1>2 DEF Bind
    <2>2. stmts' = stmts /\ m \in Message
      BY <1>2 DEF Bind, Handling, Typed, InFlight
    <2>3. /\ SingleIn(Entry(stmts, c, hit)) /\ SingleIn(Entry(portals, c, hit))
          /\ Entry(portals, c, hit) \in Prepared
      BY EntrySingle, EntryTyped
    <2>4. CASE Entry(stmts, c, hit)[m.from] = None
      BY <2>1, <2>2, <2>4 DEF SinglesKept
    <2>5. CASE Entry(stmts, c, hit)[m.from] # None
      <3>1. Preparable(Entry(stmts, c, hit)[m.from])
        BY <2>2, <2>3, <2>5 DEF SingleIn, Message
      <3>2. SingleIn([Entry(portals, c, hit) EXCEPT ![m.name] = Entry(stmts, c, hit)[m.from]])
        BY <2>2, <2>3, <3>1, SingleUpdate DEF Message
      <3>3. SingleIn(portals'[c])
        BY <2>1, <2>5, <3>2 DEF Typed, TypeOK
      <3> QED
        BY <2>2, <3>3 DEF SinglesKept, SingleIn
    <2> QED
      BY <2>4, <2>5
  <1>3. CASE CloseStatement(c)
    <2>1. /\ portals' = portals /\ m.name \in Names
          /\ stmts' = stmts \/ (stmts[c] # None /\ stmts' = [stmts EXCEPT ![c][m.name] = None])
      BY <1>3 DEF CloseStatement, Handling, Typed, InFlight, Message
    <2>2. CASE stmts' # stmts
      <3>1. stmts[c] \in Prepared /\ stmts'[c] = [stmts[c] EXCEPT ![m.name] = None]
        BY <2>1, <2>2 DEF Typed, TypeOK
      <3>2. SingleIn(stmts'[c])
        BY <2>1, <2>2, <3>1, SingleUpdate DEF SinglesKept
      <3> QED
        BY <2>1, <3>2 DEF SinglesKept, SingleIn
    <2> QED
      BY <2>1, <2>2 DEF SinglesKept
  <1>4. CASE ClosePortal(c)
    <2>1. /\ stmts' = stmts /\ m.name \in Names
          /\ portals' = portals
               \/ (portals[c] # None /\ portals' = [portals EXCEPT ![c][m.name] = None])
      BY <1>4 DEF ClosePortal, Handling, Typed, InFlight, Message
    <2>2. CASE portals' # portals
      <3>1. portals[c] \in Prepared /\ portals'[c] = [portals[c] EXCEPT ![m.name] = None]
        BY <2>1, <2>2 DEF Typed, TypeOK
      <3>2. SingleIn(portals'[c])
        BY <2>1, <2>2, <3>1, SingleUpdate DEF SinglesKept
      <3> QED
        BY <2>1, <3>2 DEF SinglesKept, SingleIn
    <2> QED
      BY <2>1, <2>2 DEF SinglesKept
  <1>5. CASE DescribeStatement(c) \/ DescribePortal(c)
    BY <1>5 DEF DescribeStatement, DescribePortal, SinglesKept
  <1> QED
    BY <1>1, <1>2, <1>3, <1>4, <1>5 DEF Prepare

\* The other steps of the connection and of its client leave the maps alone.
LEMMA OwnSingles ==
    ASSUME Typed, NEW c \in Conns, SinglesKept(c), Goroutine(c) \/ Client(c) \/ MapRace(c)
    PROVE  SinglesKept(c)'
  <1>1. CASE Simple(c) \/ Query(c) \/ Execute(c)
    BY <1>1 DEF Simple, Sync, Flush, Unsupported, Terminate, Query, Execute, SinglesKept
  <1>2. CASE PeekType(c) \/ (\E m \in Requests : Send(c, m))
    BY <1>2 DEF PeekType, Send, SinglesKept, serverVars
  <1>3. CASE \/ PeekTypeError(c) \/ Respond(c) \/ PeekTypeNonBlocking(c) \/ PollDeadline(c)
             \/ ReadyForMessage(c) \/ Begin(c) \/ End(c) \/ Work(c)
             \/ Receive(c) \/ HangUp(c) \/ MapRace(c)
    BY <1>3, OtherSteady DEF Steady, SinglesKept
  <1> QED
    BY <1>1, <1>2, <1>3, PrepareSingles DEF Goroutine, Loop, RunSQL, Client

\* What Execute leaves to run is its portal: one statement, and never a text
\* that Query answers by itself.
LEMMA ExecuteOne ==
    ASSUME Typed, NEW c \in Conns, SinglesKept(c), Execute(c)
    PROVE  OneAtMost(c)'
  <1>1. PICK hit :
          LET text == Entry(portals, c, hit)[req[c].msg.name] IN
            IF text = None THEN Return(c, Error("execute")) /\ UNCHANGED todo
            ELSE Run(c, text)
    BY DEF Execute
  <1>2. req[c].msg \in Message
    BY DEF Execute, Handling, Typed, InFlight
  <1> DEFINE text == Entry(portals, c, hit)[req[c].msg.name]
  <1>3. CASE text = None
    <2>1. pc'[c] = "reply" /\ reply'[c] = Error("execute")
      BY <1>1, <1>3 DEF Return, Typed, TypeOK
    <2>2. Error("execute") \notin {Complete("query"), Error("query")}
      BY DEF Error, Complete
    <2> QED
      BY <2>1, <2>2 DEF OneAtMost
  <1>4. CASE text # None
    <2>1. Preparable(text)
      BY <1>2, <1>4, EntrySingle DEF SingleIn, Message
    <2>2. text # Unparsable /\ Len(text) = 1 /\ text # <<>>
      <3> HIDE DEF text
      <3>1. text # Unparsable /\ Len(text) = 1
        BY <2>1 DEF Preparable
      <3>2. text # <<>>
        BY ONLY <3>1
      <3> QED
        BY <3>1, <3>2
    <2>3. pc'[c] = "run" /\ todo'[c] = text
      BY <1>1, <1>4, <2>2 DEF Run, Goto, Typed, TypeOK
    <2> QED
      BY <2>2, <2>3 DEF OneAtMost
  <1> QED
    BY <1>3, <1>4

\* A statement that has run was the last of an Execute.
LEMMA StatementOne ==
    ASSUME Typed, NEW c \in Conns, OneAtMost(c), Begin(c) \/ End(c) \/ Work(c)
    PROVE  OneAtMost(c)'
  <1>1. /\ pc[c] = "run" /\ req' = req
        /\ \/ \E s \in Statement, ok \in BOOLEAN : StatementDone(c, s, ok)
           \/ pc' = pc /\ todo' = todo
    BY DEF Begin, End, Work, NextStatement, Statement
  <1>2. CASE pc' = pc /\ todo' = todo
    BY <1>1, <1>2 DEF OneAtMost
  <1>3. ASSUME NEW s \in Statement, NEW ok \in BOOLEAN, StatementDone(c, s, ok)
        PROVE  OneAtMost(c)'
    <2>1. {Error(s), NoResponse} \cap {Complete("query"), Error("query")} = {}
      BY DEF Statement, Error, Complete, NoResponse
    <2>2. \/ pc'[c] = "reply" /\ reply'[c] \in {Error(s), NoResponse}
          \/ pc'[c] = "run" /\ Len(todo[c]) > 1
      BY <1>1, <1>3, StatementDoneAt
    <2>3. CASE pc'[c] = "reply"
      <3>1. reply'[c] \in {Error(s), NoResponse}
        BY <2>2, <2>3
      <3> QED
        BY <2>1, <2>3, <3>1 DEF OneAtMost
    <2>4. CASE pc'[c] = "run" /\ Len(todo[c]) > 1
      <3>1. Len(todo[c]) \in Nat
        BY LenProperties DEF Typed, TypeOK
      <3>2. \A n \in Nat : n > 1 => n # 1
        OBVIOUS
      <3>3. Len(todo[c]) # 1
        BY ONLY <2>4, <3>1, <3>2, Zenon
      <3> QED
        BY <1>1, <3>3 DEF OneAtMost
    <2> QED
      BY <2>2, <2>3, <2>4
  <1> QED
    BY <1>1, <1>2, <1>3

LEMMA OwnOne ==
    ASSUME Typed, NEW c \in Conns, OneStatement(c), Goroutine(c) \/ Client(c) \/ MapRace(c)
    PROVE  OneStatement(c)'
  <1>1. SinglesKept(c)'
    BY OwnSingles DEF OneStatement
  <1>2. OneAtMost(c)'
    <2>1. CASE Prepare(c) \/ Simple(c) \/ Query(c)
      <3>1. req' = req /\ req[c].msg.type # "execute"
        BY <2>1 DEF Prepare, Parse, Bind, DescribeStatement, DescribePortal, CloseStatement,
           ClosePortal, Simple, Sync, Flush, Unsupported, Terminate, Query, Handling
      <3> QED
        BY <3>1 DEF OneAtMost
    <2>2. CASE Execute(c)
      BY <2>2, ExecuteOne DEF OneStatement
    <2>3. CASE Begin(c) \/ End(c) \/ Work(c)
      BY <2>3, StatementOne DEF OneStatement
    <2>4. CASE Loop(c)
      <3>1. pc'[c] \in {"handle", "closed", "poll", "peek", "ready"}
        BY <2>4 DEF Loop, PeekType, PeekTypeError, Respond, PeekTypeNonBlocking, PollDeadline,
           ReadyForMessage, Goto, Typed, TypeOK
      <3> QED
        BY <3>1 DEF OneAtMost
    <2>5. CASE Client(c) \/ MapRace(c)
      BY <2>5 DEF Client, Send, Receive, HangUp, MapRace, serverVars, OneAtMost, OneStatement
    <2> QED
      BY <2>1, <2>2, <2>3, <2>4, <2>5 DEF Goroutine, RunSQL
  <1> QED
    BY <1>1, <1>2 DEF OneStatement

LEMMA NextOne ==
    Typed /\ (\A c \in Conns : OneStatement(c)) /\ [Next]_vars
        => (\A c \in Conns : OneStatement(c))'
  <1> SUFFICES ASSUME Typed, \A c \in Conns : OneStatement(c), [Next]_vars, NEW c \in Conns
               PROVE  OneStatement(c)'
    OBVIOUS
  <1>1. ASSUME Untouched(c) PROVE OneStatement(c)'
    BY <1>1 DEF Untouched, OneStatement, SinglesKept, OneAtMost
  <1>2. CASE UNCHANGED vars
    BY <1>1, <1>2 DEF vars, serverVars, clientVars, Untouched
  <1>3. ASSUME NEW d \in Conns \ {c}, Goroutine(d) \/ Client(d) \/ MapRace(d)
        PROVE  OneStatement(c)'
    BY <1>1, <1>3, LoopElsewhere, HandlerElsewhere, RunSQLElsewhere, ClientElsewhere,
       NobodyTouched DEF Goroutine
  <1>4. CASE Goroutine(c) \/ Client(c) \/ MapRace(c)
    BY <1>4, OwnOne
  <1> QED
    BY <1>2, <1>3, <1>4 DEF Next

\* An Execute never runs a series of statements, and is never answered by
\* Query for a text it could not parse or that held no statement.
THEOREM RunsOneStatement == Spec => []ExecuteRunsOneStatement
  <1>1. Init => \A c \in Conns : OneStatement(c)
    BY DEF Init, OneStatement, SinglesKept, OneAtMost
  <1>2. (\A c \in Conns : OneStatement(c)) => ExecuteRunsOneStatement
    BY DEF OneStatement, OneAtMost, ExecuteRunsOneStatement
  <1> QED
    BY <1>1, <1>2, NextOne, SpecTyped, PTL DEF Spec

=============================================================================
