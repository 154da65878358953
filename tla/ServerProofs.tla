---------------------------- MODULE ServerProofs ---------------------------
(***************************************************************************)
(* Proofs about Startup and about Server, for any number of connections    *)
(* and of Starts.                                                          *)
(*                                                                         *)
(* Startup: where the goroutine of a connection stands says what its       *)
(* client has been told, whether its socket is open, and whether the       *)
(* manager holds it; a step of one goroutine leaves the others where they  *)
(* are.                                                                    *)
(*                                                                         *)
(* Server: whatever the accepting goroutines and Stop do, the connections  *)
(* of the whole server behave as those of Startup, and the calls and the   *)
(* listeners as those of Lifecycle, whose theorems then hold of it; and    *)
(* what the two promise together.                                          *)
(***************************************************************************)
EXTENDS Server, SequenceTheorems, TLAPS

\* What the place of the goroutine of c says of its connection.
Standing(c) ==
    /\ at[c] = "none" => c \notin open
    /\ at[c] \in {"none", "peek"} => c \notin secure /\ written[c] = <<>>
    /\ at[c] = "handshake" => c \notin secure /\ written[c] = << <<"SSL", FALSE>> >>
    /\ at[c] \in {"none", "ended"} => c \notin sock
    /\ at[c] \notin {"none", "serving", "ended"} => c \in sock
    /\ at[c] # "greet" => greeting[c] = <<>>
    /\ at[c] \notin {"greet", "serving", "ended"} => asked[c] = "no" /\ verified[c] = "unasked"
    /\ c \in manager <=> at[c] = "serving"

Placed == TypeOK /\ \A c \in Conns : Standing(c)

\* A step of c, or of its client, leaves all of the other connections alone.
Alone(c) ==
    \A d \in Conns \ {c} :
        /\ at'[d] = at[d] /\ greeting'[d] = greeting[d] /\ written'[d] = written[d]
        /\ asked'[d] = asked[d] /\ verified'[d] = verified[d]
        /\ (d \in open') = (d \in open) /\ (d \in sock') = (d \in sock)
        /\ (d \in secure') = (d \in secure) /\ (d \in manager') = (d \in manager)
        /\ (d \in silent') = (d \in silent)

Step(c) == Accept(c) \/ HangUp(c) \/ Receive(c)

-----------------------------------------------------------------------------
(***************************************************************************)
(* Types, and what a step does to its connection and to the others.        *)
(***************************************************************************)

\* What Put, End, Fail and Respond do to the connection itself.
LEMMA PutType ==
    ASSUME TypeOK, NEW c \in Conns, NEW msg \in Messages, Put(c, msg)
    PROVE  /\ written' \in [Conns -> Seq(Messages \X BOOLEAN)]
           /\ \A d \in Conns \ {c} : written'[d] = written[d]
           /\ written'[c] = Append(written[c], <<msg, c \in secure>>)
  <1>0. (c \in secure) \in BOOLEAN
    OBVIOUS
  <1>1. <<msg, c \in secure>> \in Messages \X BOOLEAN
    BY <1>0
  <1>2. Append(written[c], <<msg, c \in secure>>) \in Seq(Messages \X BOOLEAN)
    BY <1>1, AppendProperties DEF TypeOK
  <1> QED
    BY <1>2 DEF TypeOK, Put

LEMMA GotoType ==
    ASSUME TypeOK, NEW c \in Conns, NEW p \in Places, Goto(c, p)
    PROVE  /\ at' \in [Conns -> Places]
           /\ at'[c] = p /\ \A d \in Conns \ {c} : at'[d] = at[d]
  BY DEF TypeOK, Goto

LEMMA EndType ==
    ASSUME TypeOK, NEW c \in Conns, End(c)
    PROVE  /\ at' \in [Conns -> Places] /\ sock' \subseteq Conns /\ manager' \subseteq Conns
           /\ greeting' \in [Conns -> Seq(Messages)]
           /\ at'[c] = "ended" /\ greeting'[c] = <<>> /\ c \notin sock' /\ c \notin manager'
           /\ \A d \in Conns \ {c} :
                /\ at'[d] = at[d] /\ greeting'[d] = greeting[d]
                /\ (d \in sock') = (d \in sock) /\ (d \in manager') = (d \in manager)
  <1>1. at' \in [Conns -> Places] /\ at'[c] = "ended" /\ \A d \in Conns \ {c} : at'[d] = at[d]
    BY GotoType DEF End, Places
  <1>2. /\ greeting' \in [Conns -> Seq(Messages)] /\ greeting'[c] = <<>>
        /\ \A d \in Conns \ {c} : greeting'[d] = greeting[d]
    <2>1. <<>> \in Seq(Messages)
      OBVIOUS
    <2> QED
      BY <2>1 DEF End, TypeOK
  <1>3. /\ sock' \subseteq Conns /\ manager' \subseteq Conns /\ c \notin sock' /\ c \notin manager'
        /\ \A d \in Conns \ {c} :
             (d \in sock') = (d \in sock) /\ (d \in manager') = (d \in manager)
    BY DEF End, TypeOK
  <1> QED
    BY <1>1, <1>2, <1>3

\* How a connection that fails has been told, or could not be.
LEMMA FailType ==
    ASSUME TypeOK, NEW c \in Conns, Fail(c)
    PROVE  /\ End(c) /\ written' \in [Conns -> Seq(Messages \X BOOLEAN)]
           /\ \A d \in Conns \ {c} : written'[d] = written[d]
           /\ \/ written'[c] = Append(written[c], <<"E", c \in secure>>)
              \/ ReadFails(c) /\ written' = written
  <1>1. CASE c \in sock /\ Put(c, "E")
    BY <1>1, PutType DEF Fail, Messages
  <1>2. CASE WriteMayFail(c) /\ UNCHANGED written
    BY <1>2 DEF Fail, WriteMayFail, TypeOK
  <1> QED
    BY <1>1, <1>2 DEF Fail

LEMMA RespondType ==
    ASSUME TypeOK, NEW c \in Conns, NEW msg \in Messages, NEW p \in Places, Respond(c, msg, p)
    PROVE  /\ at' \in [Conns -> Places] /\ sock' \subseteq Conns /\ manager' \subseteq Conns
           /\ greeting' \in [Conns -> Seq(Messages)]
           /\ written' \in [Conns -> Seq(Messages \X BOOLEAN)]
           /\ \A d \in Conns \ {c} :
                /\ at'[d] = at[d] /\ greeting'[d] = greeting[d] /\ written'[d] = written[d]
                /\ (d \in sock') = (d \in sock) /\ (d \in manager') = (d \in manager)
           /\ \/ /\ c \in sock /\ at'[c] = p /\ UNCHANGED <<sock, manager, greeting>>
                 /\ written'[c] = Append(written[c], <<msg, c \in secure>>)
              \/ End(c) /\ ReadFails(c) /\ written' = written
  <1>1. CASE c \in sock /\ Put(c, msg) /\ Goto(c, p) /\ UNCHANGED <<sock, manager, greeting>>
    BY <1>1, PutType, GotoType DEF TypeOK
  <1>2. CASE WriteMayFail(c) /\ End(c) /\ UNCHANGED written
    BY <1>2, EndType DEF TypeOK, WriteMayFail
  <1> QED
    BY <1>1, <1>2 DEF Respond

\* The end of a connection: its client is told, unless he has gone, has had
\* his session, or has had his certificate refused with no error.
Leaves(c) ==
    /\ at[c] \notin {"none", "ended"}
    /\ End(c) /\ UNCHANGED <<open, secure, asked, verified>>
    /\ \/ written'[c] = Append(written[c], <<"E", c \in secure>>)
       \/ /\ written'[c] = written[c]
          /\ ReadFails(c) \/ at[c] = "serving" \/ c \in silent'

\* The steps that end a connection, whatever else they could have done.
LEMMA LeavingStep ==
    ASSUME TypeOK, NEW c \in Conns,
           \/ ReadError(c) \/ SSLRequestError(c) \/ HandshakeError(c)
           \/ CertificateRefused(c) \/ Terminate(c) \/ LoopBreaks(c)
    PROVE  TypeOK' /\ Alone(c) /\ Leaves(c)
  <1>1. ASSUME Fail(c), UNCHANGED <<tlsConfig, open, secure, verified, asked, late, silent>>,
               at[c] \notin {"none", "ended"}
        PROVE  TypeOK' /\ Alone(c) /\ Leaves(c)
    BY <1>1, FailType, EndType DEF TypeOK, Alone, Leaves
  <1>2. ASSUME End(c), UNCHANGED <<tlsConfig, open, secure, verified, asked, late, written>>,
               silent' \subseteq Conns, \A d \in Conns \ {c} : (d \in silent') = (d \in silent),
               at[c] = "serving" \/ c \in silent', at[c] \notin {"none", "ended"}
        PROVE  TypeOK' /\ Alone(c) /\ Leaves(c)
    BY <1>2, EndType DEF TypeOK, Alone, Leaves
  <1>3. CASE ReadError(c)
    BY <1>3, <1>1 DEF ReadError
  <1>4. CASE SSLRequestError(c)
    BY <1>4, <1>1 DEF SSLRequestError
  <1>5. CASE HandshakeError(c)
    BY <1>5, <1>1 DEF HandshakeError
  <1>6. CASE CertificateRefused(c)
    <2>1. CASE Fail(c) /\ UNCHANGED silent
      BY <1>6, <2>1, <1>1 DEF CertificateRefused
    <2>2. CASE End(c) /\ silent' = silent \cup {c} /\ UNCHANGED written
      BY <1>6, <2>2, <1>2 DEF CertificateRefused, TypeOK
    <2> QED
      BY <1>6, <2>1, <2>2 DEF CertificateRefused
  <1>7. CASE Terminate(c)
    BY <1>7, <1>2 DEF Terminate, TypeOK
  <1>8. CASE LoopBreaks(c)
    BY <1>8, <1>1 DEF LoopBreaks
  <1> QED
    BY <1>3, <1>4, <1>5, <1>6, <1>7, <1>8

\* The greeting is a sequence of messages that ends with ReadyForQuery.
LEMMA GreetingType ==
    ASSUME NEW auth \in Messages
    PROVE  /\ Greeting(auth) \in Seq(Messages) /\ Len(Greeting(auth)) = 5
           /\ Greeting(auth)[5] = "Z"
           /\ auth # "SSL" => \A i \in 1 .. 5 : Greeting(auth)[i] # "SSL"
  BY DEF Greeting, Messages

\* The steps that write one message and go on, or find the client gone.
LEMMA WritingStep ==
    ASSUME TypeOK, NEW c \in Conns,
           SSLRequest(c) \/ StartupMessage(c) \/ Greet(c)
    PROVE  /\ TypeOK' /\ Alone(c)
           /\ UNCHANGED <<open, secure, asked, verified, silent>>
           /\ \/ Leaves(c)
              \/ /\ c \in sock /\ UNCHANGED <<sock, manager>>
                 /\ \/ /\ at[c] = "peek" /\ at'[c] = "handshake" /\ UNCHANGED greeting
                       /\ written'[c] = Append(written[c], <<"SSL", c \in secure>>)
                    \/ /\ at[c] = "peek" /\ at'[c] = "startup" /\ UNCHANGED greeting
                       /\ written'[c] = Append(written[c], <<"noSSL", c \in secure>>)
                    \/ /\ at[c] = "startup" /\ at'[c] = "password" /\ UNCHANGED greeting
                       /\ written'[c] = Append(written[c], <<"R3", c \in secure>>)
                    \/ /\ at[c] = "greet" /\ at'[c] = "greet" /\ greeting[c] # <<>>
                       /\ greeting'[c] = Tail(greeting[c])
                       /\ written'[c] = Append(written[c], <<Head(greeting[c]), c \in secure>>)
  <1>1. CASE SSLRequest(c)
    <2>1. CASE Respond(c, "SSL", "handshake")
      <3>1. "SSL" \in Messages /\ "handshake" \in Places
        BY DEF Messages, SSLResponses, Places
      <3> QED
        BY <1>1, <2>1, <3>1, RespondType, EndType DEF SSLRequest, TypeOK, Alone, Leaves
    <2>2. CASE Respond(c, "noSSL", "startup")
      <3>1. "noSSL" \in Messages /\ "startup" \in Places
        BY DEF Messages, SSLResponses, Places
      <3> QED
        BY <1>1, <2>2, <3>1, RespondType, EndType DEF SSLRequest, TypeOK, Alone, Leaves
    <2> QED
      BY <1>1, <2>1, <2>2 DEF SSLRequest
  <1>2. CASE StartupMessage(c)
    <2>1. "R3" \in Messages /\ "password" \in Places
      BY DEF Messages, Authentications, Places
    <2> QED
      BY <1>2, <2>1, RespondType, EndType DEF StartupMessage, TypeOK, Alone, Leaves
  <1>3. CASE Greet(c)
    <2>1. CASE WriteMayFail(c) /\ End(c) /\ UNCHANGED written
      BY <1>3, <2>1, EndType DEF Greet, WriteMayFail, TypeOK, Alone, Leaves
    <2>2. CASE /\ c \in sock /\ Put(c, Head(greeting[c]))
               /\ greeting' = [greeting EXCEPT ![c] = Tail(@)]
               /\ UNCHANGED <<at, sock, manager>>
      <3>1. greeting[c] \in Seq(Messages) /\ greeting[c] # <<>>
        BY <1>3 DEF Greet, TypeOK
      <3>2. Head(greeting[c]) \in Messages /\ Tail(greeting[c]) \in Seq(Messages)
        BY <3>1, HeadTailProperties
      <3>3. /\ greeting' \in [Conns -> Seq(Messages)] /\ greeting'[c] = Tail(greeting[c])
            /\ \A d \in Conns \ {c} : greeting'[d] = greeting[d]
        BY <2>2, <3>2 DEF TypeOK
      <3> QED
        BY <1>3, <2>2, <3>1, <3>2, <3>3, PutType DEF Greet, TypeOK, Alone
    <2> QED
      BY <1>3, <2>1, <2>2 DEF Greet
  <1> QED
    BY <1>1, <1>2, <1>3

\* The steps that write nothing.
Quiet(c) == \/ Accept(c) \/ HangUp(c) \/ NotSSLRequest(c) \/ Handshake(c)
            \/ StartupWithoutUser(c) \/ PasswordMessage(c) \/ AddConn(c)

LEMMA QuietStep ==
    ASSUME TypeOK, NEW c \in Conns, Quiet(c)
    PROVE  TypeOK' /\ Alone(c) /\ written' = written /\ silent' = silent
  <1>1. CASE Accept(c)
    BY <1>1, GotoType DEF Accept, TypeOK, Alone, Places
  <1>2. CASE HangUp(c)
    BY <1>2 DEF HangUp, TypeOK, Alone
  <1>3. CASE NotSSLRequest(c)
    BY <1>3, GotoType DEF NotSSLRequest, TypeOK, Alone, Places
  <1>4. CASE Handshake(c)
    BY <1>4, GotoType DEF Handshake, TypeOK, Alone, Places
  <1>5. "E" \in Messages /\ "R0" \in Messages
    BY DEF Messages, Authentications
  <1>6. CASE StartupWithoutUser(c)
    BY <1>5, <1>6, GotoType, GreetingType DEF StartupWithoutUser, TypeOK, Alone, Places
  <1>7. CASE PasswordMessage(c)
    <2>1. PICK ok \in BOOLEAN :
            /\ verified' = [verified EXCEPT ![c] = IF ok THEN "yes" ELSE "no"]
            /\ greeting' = [greeting EXCEPT ![c] = Greeting(IF ok THEN "R0" ELSE "E")]
      BY <1>7 DEF PasswordMessage
    <2>2. Greeting(IF ok THEN "R0" ELSE "E") \in Seq(Messages)
      BY <1>5, GreetingType
    <2>3. /\ greeting' \in [Conns -> Seq(Messages)]
          /\ \A d \in Conns \ {c} : greeting'[d] = greeting[d]
      BY <2>1, <2>2 DEF TypeOK
    <2> QED
      BY <1>7, <2>1, <2>3, GotoType DEF PasswordMessage, TypeOK, Alone, Places
  <1>8. CASE AddConn(c)
    BY <1>8, GotoType DEF AddConn, TypeOK, Alone, Places
  <1> QED
    BY <1>1, <1>2, <1>3, <1>4, <1>6, <1>7, <1>8 DEF Quiet

\* Every step of a connection is of one of these kinds.
LEMMA StepKinds ==
    ASSUME TypeOK, NEW c \in Conns, Step(c)
    PROVE  /\ TypeOK' /\ Alone(c)
           /\ \/ Quiet(c) /\ written' = written /\ silent' = silent
              \/ Leaves(c)
              \/ SSLRequest(c) \/ StartupMessage(c) \/ Greet(c)
  BY LeavingStep, WritingStep, QuietStep DEF Step, Receive, Quiet

-----------------------------------------------------------------------------
(***************************************************************************)
(* Where the goroutines are.                                               *)
(***************************************************************************)
LEMMA StandingStep ==
    ASSUME TypeOK, NEW c \in Conns, Standing(c), Step(c)
    PROVE  Standing(c)'
  <1>1. CASE Leaves(c)
    BY <1>1, EndType DEF Leaves, Standing
  <1>2. CASE SSLRequest(c) \/ StartupMessage(c) \/ Greet(c)
    <2>1. ASSUME c \notin secure, written[c] = <<>>
          PROVE  Append(written[c], <<"SSL", c \in secure>>) = << <<"SSL", FALSE>> >>
      <3>1. (c \in secure) = FALSE
        BY <2>1
      <3>2. Append(<<>>, <<"SSL", FALSE>>) = << <<"SSL", FALSE>> >>
        OBVIOUS
      <3> QED
        BY <2>1, <3>1, <3>2
    <2> QED
      BY <1>1, <1>2, <2>1, WritingStep DEF Standing
  <1>3. CASE Accept(c)
    BY <1>3, QuietStep DEF Quiet, Standing, Accept, Goto, TypeOK
  <1>4. CASE HangUp(c)
    BY <1>4, QuietStep DEF Quiet, Standing, HangUp, TypeOK
  <1>5. CASE NotSSLRequest(c)
    BY <1>5, QuietStep DEF Quiet, Standing, NotSSLRequest, Goto, TypeOK
  <1>6. CASE Handshake(c)
    BY <1>6, QuietStep DEF Quiet, Standing, Handshake, Goto, TypeOK
  <1>7. CASE StartupWithoutUser(c)
    BY <1>7, QuietStep DEF Quiet, Standing, StartupWithoutUser, Goto, TypeOK
  <1>8. CASE PasswordMessage(c)
    BY <1>8, QuietStep DEF Quiet, Standing, PasswordMessage, Goto, TypeOK
  <1>9. CASE AddConn(c)
    BY <1>9, QuietStep DEF Quiet, Standing, AddConn, Goto, TypeOK
  <1> QED
    BY <1>1, <1>2, <1>3, <1>4, <1>5, <1>6, <1>7, <1>8, <1>9, StepKinds DEF Quiet

LEMMA StopKeeps ==
    ASSUME Placed, NEW closed \in SUBSET manager, StopManager(closed)
    PROVE  /\ Placed'
           /\ UNCHANGED <<at, open, secure, verified, asked, greeting, written, silent>>
  <1>1. TypeOK'
    BY DEF Placed, TypeOK, StopManager
  <1>2. ASSUME NEW c \in Conns PROVE Standing(c)'
    BY DEF Placed, Standing, StopManager
  <1> QED
    BY <1>1, <1>2 DEF Placed, StopManager

LEMMA PlacedStep == Placed /\ [Next]_startupVars => Placed'
  <1> SUFFICES ASSUME Placed, [Next]_startupVars PROVE Placed'
    OBVIOUS
  <1>1. ASSUME NEW c \in Conns, Step(c) PROVE Placed'
    <2>1. TypeOK' /\ Alone(c) /\ Standing(c)'
      BY <1>1, StepKinds, StandingStep DEF Placed
    <2>2. ASSUME NEW d \in Conns \ {c} PROVE Standing(d)'
      <3>1. Standing(d)
        BY DEF Placed
      <3>2. /\ at'[d] = at[d] /\ greeting'[d] = greeting[d] /\ written'[d] = written[d]
            /\ asked'[d] = asked[d] /\ verified'[d] = verified[d]
            /\ d \in open' <=> d \in open
            /\ d \in sock' <=> d \in sock
            /\ d \in secure' <=> d \in secure
            /\ d \in manager' <=> d \in manager
        BY <2>1 DEF Alone
      <3> QED
        BY <3>1, <3>2 DEF Standing
    <2> QED
      BY <2>1, <2>2 DEF Placed
  <1>2. ASSUME NEW closed \in SUBSET manager, StopManager(closed) PROVE Placed'
    BY <1>2, StopKeeps
  <1>3. CASE UNCHANGED startupVars
    BY <1>3 DEF startupVars, Placed, TypeOK, Standing
  <1> QED
    BY <1>1, <1>2, <1>3 DEF Next, Step

LEMMA PlacedInit == Init => Placed
  <1> SUFFICES ASSUME Init PROVE Placed
    OBVIOUS
  <1>1. <<>> \in Seq(Messages) /\ <<>> \in Seq(Messages \X BOOLEAN)
    OBVIOUS
  <1>2. TypeOK
    BY <1>1 DEF Init, TypeOK, Places
  <1>3. \A c \in Conns : Standing(c)
    BY DEF Init, Standing
  <1> QED
    BY <1>2, <1>3 DEF Placed

\* The manager holds the connections that are served, and a socket is open
\* while a goroutine needs it (AddConn, RemoveConn and the deferred closes of
\* receive).
THEOREM StartupInvariant == Spec => []StartupInv
  <1>1. Placed => StartupInv
    <2> SUFFICES ASSUME Placed PROVE StartupInv
      OBVIOUS
    <2>1. ManagerHoldsServed
      BY DEF Placed, TypeOK, Standing, ManagerHoldsServed
    <2>2. ASSUME NEW c \in Conns, at[c] = "handshake" PROVE Names(c) = <<"SSL">>
      <3>1. written[c] = << <<"SSL", FALSE>> >>
        BY <2>2 DEF Placed, Standing
      <3> QED
        BY <3>1 DEF Names
    <2>3. SocketsAreOfGoroutines
      BY <2>2 DEF Placed, Standing, SocketsAreOfGoroutines
    <2> QED
      BY <2>1, <2>3 DEF Placed, StartupInv
  <1> QED
    BY <1>1, PlacedInit, PlacedStep, PTL DEF Spec

-----------------------------------------------------------------------------
(***************************************************************************)
(* What goes out in clear.                                                 *)
(***************************************************************************)

\* Behind the acceptance of TLS nothing is in clear, but the error of a
\* handshake that failed, and a greeting accepts no TLS.
Private(c) ==
    /\ \A i \in DOMAIN greeting[c] : greeting[c][i] # "SSL"
    /\ \A i \in DOMAIN written[c] : written[c][i][1] = "SSL" =>
         /\ asked[c] # "clear"
         /\ at[c] \in {"handshake", "ended"} \/ c \in secure
         /\ \A j \in (i + 1) .. Len(written[c]) :
              written[c][j][2] \/ (j = Len(written[c]) /\ written[c][j][1] = "E"
                                   /\ at[c] = "ended")

\* A message that is not the acceptance of TLS keeps what is written private.
LEMMA PrivateWrite ==
    ASSUME TypeOK, NEW c \in Conns, Private(c), at[c] # "ended",
           NEW msg \in Messages, written'[c] = Append(written[c], <<msg, c \in secure>>),
           asked'[c] = asked[c], (c \in secure') = (c \in secure), greeting'[c] = <<>>
               \/ (\A i \in DOMAIN greeting'[c] : greeting'[c][i] # "SSL"),
           \/ at'[c] = "ended" /\ msg = "E"
           \/ at[c] # "handshake" /\ at'[c] # "ended" /\ msg # "SSL"
    PROVE  Private(c)'
  <1> DEFINE new == <<msg, c \in secure>>
  <1>1. written[c] \in Seq(Messages \X BOOLEAN)
    BY DEF TypeOK
  <1>2. /\ Len(written'[c]) = Len(written[c]) + 1 /\ Len(written[c]) \in Nat
        /\ DOMAIN written[c] = 1 .. Len(written[c])
        /\ DOMAIN written'[c] = 1 .. Len(written[c]) + 1
        /\ \A i \in 1 .. Len(written[c]) : written'[c][i] = written[c][i]
        /\ written'[c][Len(written[c]) + 1] = new
    BY <1>1
  <1>3. ASSUME NEW i \in DOMAIN written'[c], written'[c][i][1] = "SSL"
        PROVE  /\ asked'[c] # "clear"
               /\ at'[c] \in {"handshake", "ended"} \/ c \in secure'
               /\ \A j \in (i + 1) .. Len(written'[c]) :
                    written'[c][j][2] \/ (j = Len(written'[c]) /\ written'[c][j][1] = "E"
                                          /\ at'[c] = "ended")
    <2>1. CASE i = Len(written[c]) + 1
      <3>1. msg = "SSL"
        BY <1>2, <1>3, <2>1
      <3> QED
        BY <3>1
    <2>2. CASE i \in 1 .. Len(written[c])
      <3>1. /\ asked[c] # "clear"
            /\ at[c] \in {"handshake", "ended"} \/ c \in secure
            /\ \A j \in (i + 1) .. Len(written[c]) :
                 written[c][j][2] \/ (j = Len(written[c]) /\ written[c][j][1] = "E"
                                      /\ at[c] = "ended")
        BY <1>2, <1>3, <2>2 DEF Private
      <3>2. ASSUME NEW j \in (i + 1) .. Len(written[c])
            PROVE  written'[c][j][2]
        BY <1>2, <2>2, <3>1
      <3>3. at'[c] = "ended" \/ (c \in secure) = TRUE
        BY <3>1
      <3>4. \/ written'[c][Len(written[c]) + 1][2]
            \/ written'[c][Len(written[c]) + 1][1] = "E" /\ at'[c] = "ended"
        <4>1. CASE at'[c] = "ended"
          <5>1. new[1] = "E"
            BY <4>1
          <5> QED
            BY <4>1, <5>1, <1>2
        <4>2. CASE (c \in secure) = TRUE
          <5>1. new = <<msg, TRUE>>
            BY <4>2
          <5>2. new[2]
            BY <5>1
          <5> HIDE DEF new
          <5> QED
            BY <5>2, <1>2
        <4> QED
          BY <3>3, <4>1, <4>2
      <3>5. ASSUME NEW j \in (i + 1) .. Len(written'[c])
            PROVE  written'[c][j][2] \/ (j = Len(written'[c]) /\ written'[c][j][1] = "E"
                                         /\ at'[c] = "ended")
        <4>1. j \in (i + 1) .. Len(written[c]) \/ j = Len(written[c]) + 1
          BY <1>2
        <4> QED
          BY <4>1, <3>2, <3>4, <1>2
      <3> QED
        BY <3>1, <3>5
    <2> QED
      BY <1>2, <2>1, <2>2
  <1>4. \A i \in DOMAIN greeting'[c] : greeting'[c][i] # "SSL"
    OBVIOUS
  <1> QED
    BY <1>3, <1>4 DEF Private

LEMMA PrivateStep ==
    ASSUME TypeOK, NEW c \in Conns, Standing(c), Private(c), Step(c)
    PROVE  Private(c)'
  <1>1. CASE Leaves(c)
    <2>1. /\ at[c] # "ended" /\ at'[c] = "ended" /\ greeting'[c] = <<>>
          /\ asked'[c] = asked[c] /\ (c \in secure') = (c \in secure)
      BY <1>1, EndType DEF Leaves
    <2>2. CASE written'[c] = Append(written[c], <<"E", c \in secure>>)
      BY <2>1, <2>2, PrivateWrite DEF Messages
    <2>3. CASE written'[c] = written[c]
      BY <2>1, <2>3 DEF Private
    <2> QED
      BY <1>1, <2>2, <2>3 DEF Leaves
  <1>2. CASE SSLRequest(c) \/ StartupMessage(c) \/ Greet(c)
    <2>0. CASE Leaves(c)
      BY <1>1, <2>0
    <2>1. CASE at[c] = "peek" /\ at'[c] = "handshake"
      <3>1. /\ written[c] = <<>> /\ asked[c] = "no" /\ greeting[c] = <<>>
            /\ asked' = asked /\ greeting' = greeting
            /\ written'[c] = Append(written[c], <<"SSL", c \in secure>>)
        BY <1>2, <2>1, WritingStep, EndType DEF Standing, Leaves
      <3>2. Len(written'[c]) = 1 /\ DOMAIN written'[c] = {1}
        BY <3>1
      <3> QED
        BY <2>1, <3>1, <3>2 DEF Private
    <2>2. CASE ~Leaves(c) /\ at[c] = "peek" /\ at'[c] = "startup"
      <3>1. /\ greeting'[c] = <<>> /\ asked' = asked /\ secure' = secure
            /\ written'[c] = Append(written[c], <<"noSSL", c \in secure>>)
        BY <1>2, <2>2, WritingStep DEF Standing
      <3> QED
        BY <2>2, <3>1, PrivateWrite DEF Messages, SSLResponses
    <2>3. CASE ~Leaves(c) /\ at[c] = "startup"
      <3>1. /\ greeting'[c] = <<>> /\ asked' = asked /\ secure' = secure
            /\ at'[c] = "password"
            /\ written'[c] = Append(written[c], <<"R3", c \in secure>>)
        BY <1>2, <2>3, WritingStep DEF Standing
      <3> QED
        BY <2>3, <3>1, PrivateWrite DEF Messages, Authentications
    <2>4. CASE ~Leaves(c) /\ at[c] = "greet"
      <3>1. /\ asked' = asked /\ secure' = secure /\ at'[c] = "greet"
            /\ greeting[c] # <<>> /\ greeting'[c] = Tail(greeting[c])
            /\ written'[c] = Append(written[c], <<Head(greeting[c]), c \in secure>>)
        BY <1>2, <2>4, WritingStep
      <3>2. greeting[c] \in Seq(Messages)
        BY DEF TypeOK
      <3>3. /\ Head(greeting[c]) \in Messages /\ Head(greeting[c]) # "SSL"
            /\ \A i \in DOMAIN Tail(greeting[c]) : Tail(greeting[c])[i] # "SSL"
        BY <3>1, <3>2, HeadTailProperties DEF Private
      <3> QED
        BY <2>4, <3>1, <3>3, PrivateWrite
    <2> QED
      BY <1>2, <2>0, <2>1, <2>2, <2>3, <2>4, WritingStep
  <1>3. CASE Quiet(c)
    <2>1. /\ written'[c] = written[c]
          /\ at[c] = "handshake" => at'[c] = "handshake" \/ c \in secure'
          /\ at[c] = "ended" => at'[c] = "ended"
          /\ c \in secure => c \in secure'
          /\ asked'[c] = asked[c]
               \/ (at[c] = "password" /\ (c \in secure => asked'[c] = "tls"))
          /\ greeting'[c] \in {greeting[c], Greeting("E"), Greeting("R0")}
      <3>1. CASE Accept(c)
        BY <3>1 DEF Accept, Goto, TypeOK
      <3>2. CASE HangUp(c)
        BY <3>2 DEF HangUp
      <3>3. CASE NotSSLRequest(c)
        BY <3>3 DEF NotSSLRequest, Goto, TypeOK
      <3>4. CASE Handshake(c)
        BY <3>4 DEF Handshake, Goto, TypeOK
      <3>5. CASE StartupWithoutUser(c)
        BY <3>5 DEF StartupWithoutUser, Goto, TypeOK
      <3>6. CASE PasswordMessage(c)
        BY <3>6 DEF PasswordMessage, Goto, TypeOK
      <3>7. CASE AddConn(c)
        BY <3>7 DEF AddConn, Goto, TypeOK
      <3> QED
        BY <1>3, <3>1, <3>2, <3>3, <3>4, <3>5, <3>6, <3>7 DEF Quiet
    <2>2. \A i \in DOMAIN greeting'[c] : greeting'[c][i] # "SSL"
      <3>1. \A auth \in {"E", "R0"} : \A i \in DOMAIN Greeting(auth) : Greeting(auth)[i] # "SSL"
        BY DEF Greeting
      <3> QED
        BY <2>1, <3>1 DEF Private
    <2>3. ASSUME NEW i \in DOMAIN written[c], written[c][i][1] = "SSL"
          PROVE  /\ asked'[c] # "clear"
                 /\ at'[c] \in {"handshake", "ended"} \/ c \in secure'
                 /\ \A j \in (i + 1) .. Len(written[c]) :
                      written[c][j][2] \/ (j = Len(written[c]) /\ written[c][j][1] = "E"
                                           /\ at'[c] = "ended")
      BY <2>1, <2>3 DEF Private
    <2> QED
      BY <2>1, <2>2, <2>3 DEF Private
  <1> QED
    BY <1>1, <1>2, <1>3, StepKinds

-----------------------------------------------------------------------------
(***************************************************************************)
(* What the client has been told.                                          *)
(***************************************************************************)
Firsts(s) == [i \in DOMAIN s |-> s[i][1]]

LEMMA FirstsType ==
    ASSUME NEW s \in Seq(Messages \X BOOLEAN)
    PROVE  /\ Firsts(s) \in Seq(Messages) /\ Len(Firsts(s)) = Len(s)
           /\ \A i \in 1 .. Len(s) : Firsts(s)[i] = s[i][1]
  <1>1. /\ DOMAIN s = 1 .. Len(s) /\ Len(s) \in Nat
        /\ \A i \in 1 .. Len(s) : s[i] \in Messages \X BOOLEAN
    OBVIOUS
  <1>2. Firsts(s) = [i \in 1 .. Len(s) |-> s[i][1]]
    BY <1>1 DEF Firsts
  <1>3. \A i \in 1 .. Len(s) : s[i][1] \in Messages
    BY <1>1
  <1> QED
    BY <1>1, <1>2, <1>3

LEMMA FirstsAppend ==
    ASSUME NEW s \in Seq(Messages \X BOOLEAN), NEW msg \in Messages, NEW b \in BOOLEAN
    PROVE  Firsts(Append(s, <<msg, b>>)) = Append(Firsts(s), msg)
  <1> DEFINE t == Append(s, <<msg, b>>)
  <1>1. /\ t \in Seq(Messages \X BOOLEAN) /\ Len(t) = Len(s) + 1 /\ Len(s) \in Nat
        /\ t[Len(s) + 1] = <<msg, b>> /\ \A i \in 1 .. Len(s) : t[i] = s[i]
    BY AppendProperties
  <1>2. /\ Append(Firsts(s), msg) \in Seq(Messages)
        /\ Len(Append(Firsts(s), msg)) = Len(s) + 1
        /\ Append(Firsts(s), msg)[Len(s) + 1] = msg
        /\ \A i \in 1 .. Len(s) : Append(Firsts(s), msg)[i] = s[i][1]
    BY FirstsType, AppendProperties
  <1>3. /\ Firsts(t) \in Seq(Messages) /\ Len(Firsts(t)) = Len(s) + 1
        /\ \A i \in 1 .. Len(s) + 1 : Firsts(t)[i] = t[i][1]
    BY <1>1, FirstsType
  <1>4. ASSUME NEW i \in 1 .. Len(s) + 1
        PROVE  Firsts(t)[i] = Append(Firsts(s), msg)[i]
    <2>1. Firsts(t)[i] = t[i][1]
      BY <1>3
    <2>2. CASE i = Len(s) + 1
      BY <2>1, <2>2, <1>1, <1>2
    <2>3. CASE i \in 1 .. Len(s)
      BY <2>1, <2>3, <1>1, <1>2
    <2>4. i = Len(s) + 1 \/ i \in 1 .. Len(s)
      <3>1. Len(s) \in Nat
        BY <1>1
      <3> QED
        BY ONLY <3>1, i \in 1 .. Len(s) + 1
    <2> QED
      BY <2>2, <2>3, <2>4
  <1> HIDE DEF t
  <1>5. Firsts(t) = Append(Firsts(s), msg)
    BY <1>2, <1>3, <1>4, SeqEqual
  <1> QED
    BY <1>5 DEF t

\* A message that has been written is no longer to be written.
LEMMA MovedOver ==
    ASSUME NEW s \in Seq(Messages), NEW g \in Seq(Messages), g # <<>>
    PROVE  Append(s, Head(g)) \o Tail(g) = s \o g
  <1>1. Len(s) \in Nat /\ Len(g) \in Nat /\ Len(g) > 0
    BY EmptySeq
  <1>2. /\ Append(s, Head(g)) \in Seq(Messages) /\ Tail(g) \in Seq(Messages)
        /\ Len(Append(s, Head(g))) = Len(s) + 1 /\ Len(Tail(g)) = Len(g) - 1
    BY <1>1, HeadTailProperties, AppendProperties
  <1>3. /\ Append(s, Head(g)) \o Tail(g) \in Seq(Messages) /\ s \o g \in Seq(Messages)
        /\ Len(Append(s, Head(g)) \o Tail(g)) = Len(s) + Len(g)
        /\ Len(s \o g) = Len(s) + Len(g)
    BY <1>1, <1>2, ConcatProperties
  <1>4. ASSUME NEW i \in 1 .. Len(s) + Len(g)
        PROVE  (Append(s, Head(g)) \o Tail(g))[i] = (s \o g)[i]
    <2>1. (Append(s, Head(g)) \o Tail(g))[i] =
             IF i <= Len(s) + 1 THEN Append(s, Head(g))[i] ELSE Tail(g)[i - (Len(s) + 1)]
      BY <1>1, <1>2, ConcatProperties
    <2>2. (s \o g)[i] = IF i <= Len(s) THEN s[i] ELSE g[i - Len(s)]
      BY <1>1, ConcatProperties
    <2>3. CASE i <= Len(s)
      BY <1>1, <2>1, <2>2, <2>3
    <2>4. CASE i = Len(s) + 1
      BY <1>1, <2>1, <2>2, <2>4
    <2>5. CASE i > Len(s) + 1
      <3>1. i - (Len(s) + 1) \in 1 .. Len(Tail(g))
        BY <1>1, <1>2, <2>5
      <3>2. Tail(g)[i - (Len(s) + 1)] = g[(i - (Len(s) + 1)) + 1]
        BY <1>1, <3>1
      <3>3. (i - (Len(s) + 1)) + 1 = i - Len(s)
        BY <1>1
      <3> QED
        BY <1>1, <2>1, <2>2, <2>5, <3>2, <3>3
    <2> QED
      BY <1>1, <2>3, <2>4, <2>5
  <1> QED
    BY <1>3, <1>4, SeqEqual

\* What has been told, and is still to be told, at each place.
ToldInFull(c) ==
    /\ \E ssl \in SSLAnswer(c) :
         Names(c) \o greeting[c] =
           ssl \o Request(c) \o Greeting(IF verified[c] = "yes" THEN "R0" ELSE "E")
    /\ verified[c] = "yes" => asked[c] # "no"

Told(c) ==
    /\ at[c] = "startup" => Names(c) \in SSLAnswer(c)
    /\ at[c] = "password" => \E ssl \in SSLAnswer(c) : Names(c) = ssl \o <<"R3">>
    /\ at[c] \in {"greet", "serving"} => ToldInFull(c)

LEMMA NamesStep ==
    ASSUME TypeOK, NEW c \in Conns
    PROVE  /\ Names(c) \in Seq(Messages)
           /\ written'[c] = written[c] => Names(c)' = Names(c)
           /\ \A msg \in Messages :
                written'[c] = Append(written[c], <<msg, c \in secure>>)
                  => Names(c)' = Append(Names(c), msg)
  <1>1. written[c] \in Seq(Messages \X BOOLEAN) /\ (c \in secure) \in BOOLEAN
    BY DEF TypeOK
  <1>2. Names(c) = Firsts(written[c]) /\ Names(c)' = Firsts(written'[c])
    BY DEF Names, Firsts
  <1>3. Names(c) \in Seq(Messages)
    BY <1>1, <1>2, FirstsType
  <1>4. ASSUME NEW msg \in Messages, written'[c] = Append(written[c], <<msg, c \in secure>>)
        PROVE  Names(c)' = Append(Names(c), msg)
    <2>1. Firsts(Append(written[c], <<msg, c \in secure>>)) = Append(Firsts(written[c]), msg)
      BY <1>1, FirstsAppend
    <2> QED
      BY <1>2, <1>4, <2>1
  <1> QED
    BY <1>2, <1>3, <1>4

LEMMA SSLAnswerType ==
    ASSUME NEW c, NEW ssl \in SSLAnswer(c)
    PROVE  ssl \in Seq(Messages)
  <1>1. ssl = <<>> \/ ssl = <<"SSL">> \/ ssl = <<"noSSL">>
    BY DEF SSLAnswer
  <1>2. "SSL" \in Messages /\ "noSSL" \in Messages
    BY DEF Messages, SSLResponses
  <1>3. /\ <<>> \in Seq(Messages) /\ <<"SSL">> \in Seq(Messages)
        /\ <<"noSSL">> \in Seq(Messages)
    BY <1>2
  <1> QED
    BY <1>1, <1>3

LEMMA ToldStep ==
    ASSUME TypeOK, NEW c \in Conns, Standing(c), Told(c), Step(c)
    PROVE  Told(c)'
  <1>1. CASE Leaves(c)
    BY <1>1, EndType DEF Leaves, Told
  <1>2. CASE (SSLRequest(c) \/ StartupMessage(c) \/ Greet(c)) /\ ~Leaves(c)
    <2>1. secure' = secure /\ asked' = asked /\ verified' = verified
      BY <1>2, WritingStep
    <2>2. SSLAnswer(c)' = SSLAnswer(c) /\ Request(c)' = Request(c)
      BY <2>1 DEF SSLAnswer, Request
    <2>3. CASE at'[c] = "handshake"
      BY <2>3 DEF Told
    <2>4. CASE at[c] = "peek" /\ at'[c] = "startup"
      <3>1. /\ written'[c] = Append(written[c], <<"noSSL", c \in secure>>)
            /\ written[c] = <<>> /\ c \notin secure
        BY <1>2, <2>4, WritingStep DEF Standing
      <3>2. Names(c) = <<>>
        BY <3>1 DEF Names
      <3>3. Names(c)' = <<"noSSL">>
        <4>1. Names(c)' = Append(Names(c), "noSSL")
          BY <3>1, NamesStep DEF Messages, SSLResponses
        <4>2. Append(<<>>, "noSSL") = <<"noSSL">>
          OBVIOUS
        <4> QED
          BY <3>2, <4>1, <4>2
      <3> QED
        BY <2>1, <2>4, <3>1, <3>3 DEF Told, SSLAnswer
    <2>5. CASE at'[c] = "password"
      <3>1. /\ at[c] = "startup"
            /\ written'[c] = Append(written[c], <<"R3", c \in secure>>)
        BY <1>2, <2>5, WritingStep
      <3>2. Names(c) \in SSLAnswer(c) /\ Names(c)' = Append(Names(c), "R3")
        BY <3>1, NamesStep DEF Told, Messages, Authentications
      <3>3. Append(Names(c), "R3") = Names(c) \o <<"R3">>
        BY NamesStep, AppendIsConcat DEF Messages, Authentications
      <3> QED
        BY <2>2, <2>5, <3>2, <3>3 DEF Told
    <2>6. CASE at'[c] = "greet"
      <3>1. /\ at[c] = "greet" /\ greeting[c] # <<>> /\ greeting'[c] = Tail(greeting[c])
            /\ written'[c] = Append(written[c], <<Head(greeting[c]), c \in secure>>)
        BY <1>2, <2>6, WritingStep
      <3>2. greeting[c] \in Seq(Messages) /\ Head(greeting[c]) \in Messages
        BY <3>1, HeadTailProperties DEF TypeOK
      <3>3. Names(c)' \o greeting'[c] = Names(c) \o greeting[c]
        BY <3>1, <3>2, NamesStep, MovedOver
      <3>4. ToldInFull(c)
        BY <3>1 DEF Told
      <3>5. ToldInFull(c)'
        BY <2>1, <2>2, <3>3, <3>4 DEF ToldInFull
      <3> QED
        BY <2>6, <3>5 DEF Told
    <2> QED
      BY <1>2, <2>3, <2>4, <2>5, <2>6, WritingStep
  <1>3. CASE Quiet(c)
    <2>1. Names(c)' = Names(c) /\ Names(c) \in Seq(Messages)
      BY <1>3, QuietStep, NamesStep
    <2>2. CASE Accept(c)
      BY <2>2 DEF Accept, Goto, TypeOK, Told
    <2>3. CASE HangUp(c)
      BY <2>1, <2>3 DEF HangUp, Told, ToldInFull, SSLAnswer, Request
    <2>4. CASE NotSSLRequest(c)
      <3>1. Names(c) = <<>> /\ at'[c] = "startup" /\ c \notin secure'
        BY <2>4 DEF NotSSLRequest, Goto, TypeOK, Standing, Names
      <3> QED
        BY <2>1, <3>1 DEF Told, SSLAnswer
    <2>5. CASE Handshake(c)
      <3>1. written[c] = << <<"SSL", FALSE>> >> /\ at'[c] = "startup" /\ c \in secure'
        BY <2>5 DEF Handshake, Goto, TypeOK, Standing
      <3>2. Names(c) = <<"SSL">>
        BY <3>1 DEF Names
      <3> QED
        BY <2>1, <3>1, <3>2 DEF Told, SSLAnswer
    <2>6. CASE StartupWithoutUser(c)
      <3>1. /\ at[c] = "startup" /\ at'[c] = "greet" /\ verified'[c] = "no"
            /\ greeting'[c] = Greeting("E") /\ secure' = secure /\ asked' = asked
            /\ asked[c] = "no"
        BY <2>6 DEF StartupWithoutUser, Goto, TypeOK, Standing
      <3>2. Names(c) \in SSLAnswer(c) /\ SSLAnswer(c)' = SSLAnswer(c) /\ Request(c)' = <<>>
        BY <3>1 DEF Told, SSLAnswer, Request
      <3>3. Names(c) \o <<>> = Names(c)
        BY <2>1, ConcatEmptySeq
      <3>4. ToldInFull(c)'
        BY <2>1, <3>1, <3>2, <3>3 DEF ToldInFull
      <3> QED
        BY <3>1, <3>4 DEF Told
    <2>7. CASE PasswordMessage(c)
      <3>1. /\ at[c] = "password" /\ at'[c] = "greet" /\ secure' = secure
            /\ asked'[c] # "no"
            /\ \/ verified'[c] = "yes" /\ greeting'[c] = Greeting("R0")
               \/ verified'[c] = "no" /\ greeting'[c] = Greeting("E")
        BY <2>7 DEF PasswordMessage, Goto, TypeOK
      <3>2. /\ \E ssl \in SSLAnswer(c) : Names(c) = ssl \o <<"R3">>
            /\ SSLAnswer(c)' = SSLAnswer(c) /\ Request(c)' = <<"R3">>
        BY <3>1 DEF Told, SSLAnswer, Request
      <3>3. ToldInFull(c)'
        BY <2>1, <3>1, <3>2 DEF ToldInFull
      <3> QED
        BY <3>1, <3>3 DEF Told
    <2>8. CASE AddConn(c)
      <3>1. /\ at[c] = "greet" /\ at'[c] = "serving" /\ secure' = secure
            /\ asked' = asked /\ verified' = verified /\ greeting' = greeting
        BY <2>8 DEF AddConn, Goto, TypeOK
      <3> QED
        BY <2>1, <3>1 DEF Told, ToldInFull, SSLAnswer, Request
    <2> QED
      BY <1>3, <2>2, <2>3, <2>4, <2>5, <2>6, <2>7, <2>8 DEF Quiet
  <1> QED
    BY <1>1, <1>2, <1>3, StepKinds

\* Whom the server left has been told, if he was there and had not been greeted.
GreetedOnce(c) == \E i \in DOMAIN written[c] : written[c][i][1] = "Z"

Refused(c) ==
    (at[c] = "ended" /\ c \in open \ silent /\ ~GreetedOnce(c))
        => written[c] # <<>> /\ written[c][Len(written[c])][1] = "E"

\* A connection that is served has had its ReadyForQuery.
LEMMA ServedHasReady ==
    ASSUME TypeOK, NEW c \in Conns, Standing(c), Told(c), at[c] = "serving"
    PROVE  GreetedOnce(c)
  <1>1. PICK ssl \in SSLAnswer(c), auth \in {"R0", "E"} :
          Names(c) \o greeting[c] = ssl \o Request(c) \o Greeting(auth)
    BY DEF Told, ToldInFull
  <1>2. Names(c) \in Seq(Messages) /\ greeting[c] = <<>>
    BY NamesStep DEF Standing
  <1>3. Names(c) = (ssl \o Request(c)) \o Greeting(auth)
    BY <1>1, <1>2, ConcatEmptySeq
  <1>4. ssl \o Request(c) \in Seq(Messages)
    <2>1. Request(c) \in Seq(Messages)
      <3>1. Request(c) = <<>> \/ Request(c) = <<"R3">>
        BY DEF Request
      <3>2. "R3" \in Messages
        BY DEF Messages, Authentications
      <3>3. <<>> \in Seq(Messages) /\ <<"R3">> \in Seq(Messages)
        BY <3>2
      <3> QED
        BY <3>1, <3>3
    <2> QED
      BY <2>1, SSLAnswerType, ConcatProperties
  <1>5. Greeting(auth) \in Seq(Messages) /\ Len(Greeting(auth)) = 5 /\ Greeting(auth)[5] = "Z"
    <2>1. auth \in Messages
      BY DEF Messages, Authentications
    <2> QED
      BY <2>1, GreetingType
  <1> DEFINE told == ssl \o Request(c)
             g    == Greeting(auth)
  <1> HIDE DEF told, g
  <1>6. told \in Seq(Messages) /\ g \in Seq(Messages) /\ Len(g) = 5 /\ g[5] = "Z"
    BY <1>4, <1>5 DEF told, g
  <1>7. /\ Len(told \o g) = Len(told) + 5 /\ Len(told) \in Nat
        /\ (told \o g)[Len(told) + 5] = g[(Len(told) + 5) - Len(told)]
    <2>1. Len(told) \in Nat
      BY <1>6
    <2>2. Len(told) + 5 \in 1 .. Len(told) + Len(g) /\ ~(Len(told) + 5 <= Len(told))
      BY <1>6, <2>1
    <2>3. /\ Len(told \o g) = Len(told) + Len(g)
          /\ \A i \in 1 .. Len(told) + Len(g) :
               (told \o g)[i] = IF i <= Len(told) THEN told[i] ELSE g[i - Len(told)]
      BY <1>6, ConcatProperties
    <2> QED
      BY <1>6, <2>1, <2>2, <2>3
  <1>8. (Len(told) + 5) - Len(told) = 5 /\ Len(told) + 5 \in 1 .. Len(told) + 5
    BY <1>7
  <1>9. Names(c) = told \o g
    BY <1>3 DEF told, g
  <1>10. Names(c)[Len(told) + 5] = "Z" /\ Len(told) + 5 \in DOMAIN Names(c)
    BY <1>2, <1>6, <1>7, <1>8, <1>9
  <1> QED
    BY <1>10 DEF Names, GreetedOnce

LEMMA RefusedStep ==
    ASSUME TypeOK, NEW c \in Conns, Standing(c), Told(c), Refused(c), Step(c)
    PROVE  Refused(c)'
  <1>0. written[c] \in Seq(Messages \X BOOLEAN)
    BY DEF TypeOK
  <1>1. CASE Leaves(c)
    <2>1. CASE written'[c] = Append(written[c], <<"E", c \in secure>>)
      <3>1. /\ written'[c] # <<>> /\ Len(written'[c]) = Len(written[c]) + 1
            /\ written'[c][Len(written[c]) + 1] = <<"E", c \in secure>>
        BY <1>0, <2>1
      <3> QED
        BY <3>1 DEF Refused
    <2>2. CASE written'[c] = written[c] /\ at[c] = "serving"
      BY <2>2, ServedHasReady DEF Refused, GreetedOnce
    <2>3. CASE ReadFails(c) /\ at[c] # "serving"
      BY <1>1, <2>3 DEF Leaves, ReadFails, Standing, Refused
    <2>4. CASE c \in silent'
      BY <2>4 DEF Refused
    <2> QED
      BY <1>1, <2>1, <2>2, <2>3, <2>4 DEF Leaves
  <1>2. CASE (SSLRequest(c) \/ StartupMessage(c) \/ Greet(c)) /\ ~Leaves(c)
    BY <1>2, WritingStep DEF Refused
  <1>3. CASE Quiet(c)
    <2>1. at'[c] = "ended" => at[c] = "ended" /\ (c \in open' => c \in open)
      BY <1>3 DEF Quiet, Accept, HangUp, NotSSLRequest, Handshake, StartupWithoutUser,
           PasswordMessage, AddConn, Goto, TypeOK
    <2> QED
      BY <1>3, <2>1, QuietStep DEF Refused, GreetedOnce
  <1> QED
    BY <1>1, <1>2, <1>3, StepKinds

-----------------------------------------------------------------------------
(***************************************************************************)
(* Together.                                                               *)
(***************************************************************************)
ConnInv(c) == Private(c) /\ Told(c) /\ Refused(c)
StartInv   == Placed /\ \A c \in Conns : ConnInv(c)

\* A connection that nothing has happened to.
LEMMA ConnKept ==
    ASSUME NEW d, ConnInv(d),
           at'[d] = at[d], greeting'[d] = greeting[d], written'[d] = written[d],
           asked'[d] = asked[d], verified'[d] = verified[d],
           (d \in open') = (d \in open), (d \in secure') = (d \in secure),
           (d \in silent') = (d \in silent)
    PROVE  ConnInv(d)'
  <1>1. Private(d)'
    BY DEF ConnInv, Private
  <1>2. Told(d)'
    BY DEF ConnInv, Told, ToldInFull, Names, SSLAnswer, Request
  <1>3. Refused(d)'
    BY DEF ConnInv, Refused, GreetedOnce
  <1> QED
    BY <1>1, <1>2, <1>3 DEF ConnInv

LEMMA StartInvStep == StartInv /\ [Next]_startupVars => StartInv'
  <1> SUFFICES ASSUME StartInv, [Next]_startupVars PROVE StartInv'
    OBVIOUS
  <1>0. Placed'
    BY PlacedStep DEF StartInv
  <1>1. ASSUME NEW c \in Conns, Step(c), NEW d \in Conns PROVE ConnInv(d)'
    <2>1. CASE d = c
      BY <1>1, <2>1, PrivateStep, ToldStep, RefusedStep DEF StartInv, Placed, ConnInv
    <2>2. CASE d # c
      BY <1>1, <2>2, StepKinds, ConnKept DEF StartInv, Placed, Alone
    <2> QED
      BY <2>1, <2>2
  <1>2. ASSUME NEW closed \in SUBSET manager, StopManager(closed), NEW d \in Conns
        PROVE  ConnInv(d)'
    BY <1>2, StopKeeps, ConnKept DEF StartInv
  <1>3. ASSUME UNCHANGED startupVars, NEW d \in Conns PROVE ConnInv(d)'
    BY <1>3, ConnKept DEF startupVars, StartInv
  <1> QED
    BY <1>0, <1>1, <1>2, <1>3 DEF StartInv, Next, Step

LEMMA StartInvInit == Init => StartInv
  <1> SUFFICES ASSUME Init PROVE StartInv
    OBVIOUS
  <1>1. ASSUME NEW c \in Conns PROVE ConnInv(c)
    <2>1. at[c] = "none" /\ written[c] = <<>> /\ greeting[c] = <<>>
      BY DEF Init
    <2> QED
      BY <2>1 DEF ConnInv, Private, Told, Refused
  <1> QED
    BY <1>1, PlacedInit DEF StartInv

LEMMA StartInvariant == Spec => []StartInv
  BY StartInvInit, StartInvStep, PTL DEF Spec

\* Nothing but the error of a failed handshake goes out in clear once TLS has
\* been accepted, and no password comes in so (receive, handleStartupMessage).
THEOREM TLSIsKept == Spec => []TLSOnceAccepted
  <1>1. StartInv => TLSOnceAccepted
    BY DEF StartInv, ConnInv, Private, TLSOnceAccepted
  <1> QED
    BY <1>1, StartInvariant, PTL

\* A client is greeted with what the authenticator said, message by message
\* (handleStartupMessage, and receive after it).
THEOREM GreetingFollowsVerification == Spec => [](GreetedAsVerified /\ ServedWasGreeted)
  <1>1. StartInv => GreetedAsVerified
    BY DEF StartInv, ConnInv, Told, ToldInFull, GreetedAsVerified
  <1>2. StartInv => ServedWasGreeted
    <2> SUFFICES ASSUME StartInv, NEW c \in Conns, at[c] = "serving"
                 PROVE  /\ \E ssl \in SSLAnswer(c) :
                             Names(c) = ssl \o Request(c)
                                          \o Greeting(IF verified[c] = "yes" THEN "R0" ELSE "E")
                        /\ verified[c] = "yes" => asked[c] # "no"
      BY DEF ServedWasGreeted
    <2>1. ToldInFull(c) /\ greeting[c] = <<>>
      BY DEF StartInv, ConnInv, Told, Placed, Standing
    <2>2. Names(c) \o greeting[c] = Names(c)
      BY <2>1, NamesStep, ConcatEmptySeq DEF StartInv, Placed
    <2> QED
      BY <2>1, <2>2 DEF ToldInFull
  <1> QED
    BY <1>1, <1>2, StartInvariant, PTL

\* Whoever is turned away while he listens is told so (ResponseError in
\* receive), but for a certificate refused without an error.
THEOREM RefusalIsTold == Spec => []RefusedIsTold
  <1>1. StartInv => RefusedIsTold
    <2> SUFFICES ASSUME StartInv, NEW c \in Conns, at[c] = "ended", c \in open \ silent,
                        "Z" \notin {Names(c)[i] : i \in DOMAIN Names(c)}
                 PROVE  written[c] # <<>> /\ Names(c)[Len(written[c])] = "E"
      BY DEF RefusedIsTold
    <2>1. ~GreetedOnce(c)
      BY DEF GreetedOnce, Names
    <2>2. written[c] # <<>> /\ written[c][Len(written[c])][1] = "E"
      BY <2>1 DEF StartInv, ConnInv, Refused
    <2>3. Len(written[c]) \in DOMAIN written[c]
      <3>1. written[c] \in Seq(Messages \X BOOLEAN)
        BY DEF StartInv, Placed, TypeOK
      <3> QED
        BY <2>2, <3>1, EmptySeq
    <2> QED
      BY <2>2, <2>3 DEF Names
  <1> QED
    BY <1>1, StartInvariant, PTL

-----------------------------------------------------------------------------
(***************************************************************************)
(* The server is an implementation of Startup.                             *)
(***************************************************************************)
LP == INSTANCE LifecycleProofs

\* A step of the server is a step of a connection, a stop of the manager, or
\* none of the connections' business.
LEMMA ServerStep == [ServerNext]_serverVars => [Next]_startupVars
  <1> SUFFICES ASSUME [ServerNext]_serverVars PROVE [Next]_startupVars
    OBVIOUS
  <1>1. ASSUME NEW c \in Conns, ServerAccept(c) PROVE Next
    BY <1>1 DEF ServerAccept, Next
  <1>2. ASSUME NEW c \in Conns, ServerReceive(c) PROVE Next
    BY <1>2 DEF ServerReceive, Next
  <1>3. ASSUME NEW c \in Conns, ServerHangUp(c) PROVE Next
    BY <1>3 DEF ServerHangUp, Next
  <1>4. CASE ServerStopConns
    BY <1>4 DEF ServerStopConns, Next
  <1>5. CASE LifecycleStep
    BY <1>5 DEF LifecycleStep
  <1>6. CASE UNCHANGED serverVars
    BY <1>6 DEF serverVars
  <1> QED
    BY <1>1, <1>2, <1>3, <1>4, <1>5, <1>6 DEF ServerNext

\* The server as a whole is an implementation of the start-up of connections
\* (serve and receive of server_impl.go).
THEOREM ServerImplementsStartup == ServerSpec => Spec
  <1>1. ServerInit => Init
    BY DEF ServerInit
  <1> QED
    BY <1>1, ServerStep, PTL DEF ServerSpec, Spec

\* So what holds of one connection at a time holds of the server: the manager,
\* the sockets, and what each client has been told.
THEOREM ServerKeepsConnections ==
    ServerSpec => [](/\ StartupInv /\ TLSOnceAccepted /\ RefusedIsTold
                     /\ GreetedAsVerified /\ ServedWasGreeted)
  BY ServerImplementsStartup, StartupInvariant, TLSIsKept, RefusalIsTold,
     GreetingFollowsVerification, PTL

-----------------------------------------------------------------------------
(***************************************************************************)
(* The server is an implementation of Lifecycle.                           *)
(***************************************************************************)

\* LP is Lifecycle once more, with its theorems: its actions are those of L.
LEMMA SameCalls ==
    /\ L!Init <=> LP!Init
    /\ L!Calls <=> LP!Calls
    /\ L!Listen <=> LP!Listen
    /\ L!ListenError <=> LP!ListenError
    /\ L!StopConns <=> LP!StopConns
    /\ L!Starts = LP!Starts /\ L!Closers = LP!Closers
    /\ L!Stopped <=> LP!Stopped
  <1>1. L!Starts = LP!Starts /\ L!Closers = LP!Closers
    BY DEF L!Starts, LP!Starts, L!Closers, LP!Closers, L!Control, LP!Control
  <1>2. L!Init <=> LP!Init
    BY <1>1 DEF L!Init, LP!Init, L!Nil, LP!Nil
  <1>3. L!Calls <=> LP!Calls
    BY DEF LP!Calls, L!Calls, LP!Start, LP!Stop, LP!Restart, L!Start, L!Stop, L!Restart,
       L!Alive, LP!Alive, L!history, LP!history
  <1>4. L!Listen <=> LP!Listen
    BY <1>1 DEF L!Listen, LP!Listen, L!Live, LP!Live, L!Alive, LP!Alive
  <1>5. L!ListenError <=> LP!ListenError
    BY DEF L!ListenError, LP!ListenError, L!Alive, LP!Alive, L!Nil, LP!Nil
  <1>6. L!StopConns <=> LP!StopConns
    BY DEF L!StopConns, LP!StopConns, L!Alive, LP!Alive, L!Control, LP!Control, L!history,
       LP!history
  <1>7. L!Stopped <=> LP!Stopped
    BY DEF L!Stopped, LP!Stopped, L!Alive, LP!Alive
  <1> QED
    BY <1>1, <1>2, <1>3, <1>4, <1>5, <1>6, <1>7

LEMMA SameClose == ASSUME NEW x PROVE L!Close(x) <=> LP!Close(x)
  <1>1. L!CloseTest(x) <=> LP!CloseTest(x)
    BY DEF L!CloseTest, LP!CloseTest, L!Alive, LP!Alive, L!Nil, LP!Nil, L!history, LP!history
  <1>2. \A ok : L!CloseReturns(x, ok) <=> LP!CloseReturns(x, ok)
    BY DEF L!CloseReturns, LP!CloseReturns, L!StopReturns, LP!StopReturns, L!Control,
       LP!Control
  <1>3. L!CloseSocket(x) <=> LP!CloseSocket(x)
    BY <1>2 DEF L!CloseSocket, LP!CloseSocket, L!Alive, LP!Alive, L!Nil, LP!Nil, L!history,
       LP!history
  <1>4. L!CloseClear(x) <=> LP!CloseClear(x)
    BY <1>2 DEF L!CloseClear, LP!CloseClear, L!Alive, LP!Alive, L!Nil, LP!Nil, L!history,
       LP!history
  <1> QED
    BY <1>1, <1>3, <1>4 DEF L!Close, LP!Close

LEMMA SameServe == ASSUME NEW k PROVE L!Serve(k) <=> LP!Serve(k)
  <1>1. L!ServeEnter(k) <=> LP!ServeEnter(k)
    BY DEF L!ServeEnter, LP!ServeEnter, L!Alive, LP!Alive, L!Nil, LP!Nil, L!history,
       LP!history
  <1>2. L!AcceptError(k) <=> LP!AcceptError(k)
    BY DEF L!AcceptError, LP!AcceptError, L!Alive, LP!Alive
  <1> QED
    BY <1>1, <1>2 DEF L!Serve, LP!Serve

LEMMA ServerLifecycleStep == [ServerNext]_serverVars => [LP!Next]_LP!vars
  <1> SUFFICES ASSUME [ServerNext]_serverVars PROVE [LP!Next]_LP!vars
    OBVIOUS
  <1>1. CASE UNCHANGED lifecycleVars
    BY <1>1 DEF lifecycleVars, LP!vars, LP!history
  <1>2. CASE ServerStopConns
    BY <1>2, SameCalls DEF ServerStopConns, LP!Next
  <1>3. CASE LifecycleStep
    <2>1. CASE L!Calls \/ L!Listen \/ L!ListenError
      BY <2>1, SameCalls DEF LP!Next
    <2>2. ASSUME NEW x \in L!Closers, L!Close(x) PROVE LP!Next
      BY <2>2, SameCalls, SameClose DEF LP!Next
    <2>3. ASSUME NEW k \in L!Starts, L!Serve(k) PROVE LP!Next
      BY <2>3, SameCalls, SameServe DEF LP!Next
    <2> QED
      BY <1>3, <2>1, <2>2, <2>3 DEF LifecycleStep
  <1>4. CASE \E c \in Conns : ServerAccept(c) \/ ServerReceive(c) \/ ServerHangUp(c)
    BY <1>1, <1>4 DEF ServerAccept, ServerReceive, ServerHangUp
  <1>5. CASE UNCHANGED serverVars
    BY <1>1, <1>5 DEF serverVars
  <1> QED
    BY <1>2, <1>3, <1>4, <1>5 DEF ServerNext

\* The server as a whole is an implementation of starting and stopping (Start,
\* Stop, open, close and serve of server_impl.go): no connection interferes.
THEOREM ServerImplementsLifecycle == ServerSpec => LP!Spec
  <1>1. ServerInit => LP!Init
    BY SameCalls DEF ServerInit
  <1> QED
    BY <1>1, ServerLifecycleStep, PTL DEF ServerSpec, LP!Spec

\* So the calls, the listeners and the goroutines are as LifecycleInv says, and
\* the port is free once the server has been stopped.
LEMMA ServerLifecycle == ServerSpec => [](LP!LifecycleInv /\ LP!StoppedIsClosed)
  <1>1. LP!MaxStartsAssumption /\ LP!FailureAssumption
    BY ServerAssumption DEF LP!MaxStartsAssumption, LP!FailureAssumption
  <1>2. LP!Spec => []LP!LifecycleInv
    BY <1>1, LP!LifecycleInvariant, PTL
  <1>3. LP!Spec => []LP!StoppedIsClosed
    BY <1>1, LP!StoppedServerIsClosed, PTL
  <1> QED
    BY <1>2, <1>3, ServerImplementsLifecycle, PTL

-----------------------------------------------------------------------------
(***************************************************************************)
(* What Stop does to the connections.                                      *)
(***************************************************************************)

\* What may still be, or come to be, connected is late: from the moment Stop
\* has closed the manager's connections on, and until the next Start.
Leftover == sock \subseteq late /\ \A c \in Conns : at[c] = "none" => c \in late
Closing  == control = "close" \/ (control = "idle" /\ ~up /\ started > 0)
ManagedClosed == Closing => Leftover

\* What a goroutine does to its own connection: it opens no socket.
LEMMA ReceiveOpensNone ==
    ASSUME TypeOK, NEW c \in Conns, Receive(c)
    PROVE  sock' \subseteq sock /\ late' = late /\ at[c] # "none"
  <1>1. CASE Greet(c)
    BY <1>1 DEF Greet, End
  <1>2. CASE SSLRequest(c) \/ StartupMessage(c)
    BY <1>2 DEF SSLRequest, StartupMessage, Respond, End
  <1>3. CASE ReadError(c) \/ SSLRequestError(c) \/ HandshakeError(c)
    BY <1>3 DEF ReadError, SSLRequestError, HandshakeError, Fail, End
  <1>4. CASE CertificateRefused(c) \/ Terminate(c) \/ LoopBreaks(c)
    BY <1>4 DEF CertificateRefused, Terminate, LoopBreaks, Fail, End
  <1>5. CASE NotSSLRequest(c) \/ Handshake(c) \/ AddConn(c)
    BY <1>5 DEF NotSSLRequest, Handshake, AddConn
  <1>6. CASE StartupWithoutUser(c) \/ PasswordMessage(c)
    BY <1>6 DEF StartupWithoutUser, PasswordMessage
  <1> QED
    BY <1>1, <1>2, <1>3, <1>4, <1>5, <1>6 DEF Receive

\* It never returns to what it was before it was accepted.
LEMMA ReceiveIsAccepted ==
    ASSUME TypeOK, NEW c \in Conns, Receive(c)
    PROVE  at'[c] # "none" /\ \A d \in Conns \ {c} : at'[d] = at[d]
  <1>1. Alone(c)
    BY StepKinds DEF Step
  <1>2. CASE Leaves(c)
    BY <1>1, <1>2, EndType DEF Leaves, Alone
  <1>3. CASE SSLRequest(c) \/ StartupMessage(c) \/ Greet(c)
    BY <1>1, <1>2, <1>3, WritingStep DEF Alone
  <1>4. CASE \/ NotSSLRequest(c) \/ Handshake(c) \/ AddConn(c)
             \/ StartupWithoutUser(c) \/ PasswordMessage(c)
    BY <1>4 DEF NotSSLRequest, Handshake, AddConn, StartupWithoutUser, PasswordMessage, Goto,
       TypeOK
  <1> QED
    BY <1>1, <1>2, <1>3, <1>4, LeavingStep DEF Receive, Alone

\* No step of a connection adds to what is left over.
LEMMA ConnectionLeftover ==
    ASSUME TypeOK, NEW c \in Conns, Step(c), Leftover
    PROVE  Leftover'
  <1>1. CASE Accept(c)
    BY <1>1 DEF Accept, Goto, TypeOK, Leftover
  <1>2. CASE HangUp(c)
    BY <1>2 DEF HangUp, Leftover
  <1>3. CASE Receive(c)
    BY <1>3, ReceiveOpensNone, ReceiveIsAccepted DEF Leftover
  <1> QED
    BY <1>1, <1>2, <1>3 DEF Step

\* Stop closes what the manager holds, and that is what is being served.
LEMMA StopLeftover ==
    ASSUME StartupInv, StopManager(manager)
    PROVE  Leftover'
  <1>1. \A c \in Conns : at[c] = "none" => c \notin manager
    BY DEF StartupInv, ManagerHoldsServed
  <1> QED
    BY <1>1 DEF StartupInv, TypeOK, StopManager, Leftover

\* Closing begins with a Stop that has not failed, and no other step of the
\* calling goroutine leads into it: close has been called by then.
LEMMA ClosingBegins ==
    ASSUME LP!CloseIsCalled, LP!Calls \/ LP!Listen \/ LP!ListenError
           \/ (\E x \in LP!Closers : LP!Close(x)) \/ (\E k \in LP!Starts : LP!Serve(k)),
           Closing'
    PROVE  Closing
  <1>1. CASE LP!Calls
    BY <1>1 DEF LP!Calls, LP!Start, LP!Stop, LP!Restart, Closing
  <1>2. CASE LP!Listen \/ LP!ListenError
    BY <1>2 DEF LP!Listen, LP!ListenError, Closing
  <1>3. ASSUME NEW x \in LP!Closers, LP!Close(x) PROVE Closing
    <2>1. CASE UNCHANGED <<control, up, started>>
      BY <2>1 DEF Closing
    <2>2. closing[x] # "no"
      BY <1>3 DEF LP!Close, LP!CloseTest, LP!CloseSocket, LP!CloseClear
    <2>3. CASE x = LP!Control
      BY <2>2, <2>3 DEF LP!CloseIsCalled, Closing
    <2>4. CASE x # LP!Control
      BY <1>3, <2>1, <2>4 DEF LP!Close, LP!CloseTest, LP!CloseSocket, LP!CloseClear,
         LP!CloseReturns
    <2> QED
      BY <2>3, <2>4
  <1>4. ASSUME NEW k \in LP!Starts, LP!Serve(k) PROVE Closing
    BY <1>4 DEF LP!Serve, LP!ServeEnter, LP!AcceptError, Closing
  <1> QED
    BY <1>1, <1>2, <1>3, <1>4

LEMMA ManagedClosedStep ==
    ASSUME StartupInv, LP!CloseIsCalled, ManagedClosed, [ServerNext]_serverVars
    PROVE  ManagedClosed'
  <1> SUFFICES ASSUME Closing' PROVE Leftover'
    BY DEF ManagedClosed
  <1>1. ASSUME NEW c \in Conns, Step(c), UNCHANGED lifecycleVars PROVE Leftover'
    BY <1>1, ConnectionLeftover DEF StartupInv, ManagedClosed, Closing, lifecycleVars
  <1>2. CASE ServerStopConns
    BY <1>2, StopLeftover DEF ServerStopConns, L!StopConns, Closing
  <1>3. CASE LifecycleStep
    <2>1. Closing
      BY <1>3, ClosingBegins, SameCalls, SameClose, SameServe DEF LifecycleStep
    <2> QED
      BY <1>3, <2>1 DEF LifecycleStep, startupVars, ManagedClosed, Leftover
  <1>4. CASE UNCHANGED serverVars
    BY <1>4 DEF serverVars, lifecycleVars, startupVars, ManagedClosed, Closing, Leftover
  <1> QED
    BY <1>1, <1>2, <1>3, <1>4 DEF ServerNext, ServerAccept, ServerReceive, ServerHangUp, Step

\* A Stop that has returned nil has closed every connection of the manager
\* (Stop and ConnManager.Stop), however the starts overlap.
THEOREM StopClosesConnections == ServerSpec => []StopClosesManaged
  <1>1. ServerInit => ManagedClosed
    BY DEF ServerInit, L!Init, ManagedClosed, Closing
  <1>2. ManagedClosed => StopClosesManaged
    BY DEF ManagedClosed, Closing, Leftover, StopClosesManaged, L!Stopped
  <1>3. LP!LifecycleInv => LP!CloseIsCalled
    BY DEF LP!LifecycleInv
  <1> QED
    BY <1>1, <1>2, <1>3, ManagedClosedStep, ServerLifecycle, ServerKeepsConnections, PTL
       DEF ServerSpec

\* What is accepted is accepted from an open listener, and a server that has
\* been stopped holds none.
LEMMA AcceptsNoneStep ==
    ASSUME TypeOK, LP!StoppedIsClosed, [ServerNext]_serverVars
    PROVE  AcceptsNone
  <1> SUFFICES ASSUME L!Stopped, ~overlapped, NEW d \in Conns, at[d] = "none"
               PROVE  at'[d] = "none"
    BY DEF AcceptsNone
  <1>1. bound = {}
    BY SameCalls DEF LP!StoppedIsClosed
  <1>2. ASSUME NEW c \in Conns, Receive(c) PROVE at'[d] = "none"
    BY <1>2, ReceiveOpensNone, ReceiveIsAccepted
  <1> QED
    BY <1>1, <1>2 DEF ServerNext, ServerAccept, ServerReceive, ServerHangUp, HangUp,
       ServerStopConns, StopManager, LifecycleStep, serverVars, startupVars

\* A server that was stopped accepts no connection (serve), as long as no start
\* has overlapped the goroutine of an earlier one.
THEOREM StoppedServerAcceptsNone == ServerSpec => StoppedAcceptsNone
  <1>1. StartupInv => TypeOK
    BY DEF StartupInv
  <1> QED
    BY <1>1, AcceptsNoneStep, ServerLifecycle, ServerKeepsConnections, PTL
       DEF ServerSpec, StoppedAcceptsNone

=============================================================================
