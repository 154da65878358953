------------------------------ MODULE Startup ------------------------------
(***************************************************************************)
(* What a connection goes through before its first request: the function   *)
(* receive of the protocol server (protocol/server_impl.go) up to its      *)
(* request loop, which is the subject of Session, and how it ends.         *)
(*                                                                         *)
(* One goroutine per connection peeks the length of the first message,     *)
(* answers an SSLRequest and changes to TLS, reads the Startup message,    *)
(* asks for a password, has the authenticator verify it, greets the        *)
(* client, and registers the connection with the connection manager.  The  *)
(* client is free: it sends any message whenever one is read, and hangs up *)
(* at any moment.  Another goroutine may stop the connection manager.      *)
(***************************************************************************)
EXTENDS Naturals, Sequences

CONSTANT Conns      \* the connections that may be accepted

VARIABLES
    tlsConfig,  \* what Config.TLSConfig returns: a configuration, nil, or an error
    at,         \* where the goroutine of each connection is
    open,       \* the connections whose client has not hung up
    sock,       \* the connections whose socket the server holds open
    secure,     \* the connections that have been replaced by a TLS connection
    verified,   \* what the authenticator said of the client's credentials
    asked,      \* how the password travelled, once it has been read
    greeting,   \* the messages of handleStartupMessage still to be written
    written,    \* what has been written, each message with TRUE if through TLS
    manager,    \* the connections the manager holds
    late,       \* not in the manager when that was last stopped
    silent      \* refused with no error to write

startupVars == <<tlsConfig, at, open, sock, secure, verified, asked, greeting, written,
                 manager, late, silent>>

\* Backend messages: the answers to an SSLRequest, R3 and R0 the request for a
\* clear text password and AuthenticationOk, E an error, S a ParameterStatus,
\* K BackendKeyData, Z ReadyForQuery.
SSLResponses    == {"SSL", "noSSL"}
Authentications == {"R3", "R0"}
Messages == SSLResponses \cup Authentications \cup {"E", "S", "K", "Z"}
Places   == {"none", "peek", "handshake", "startup", "password", "greet", "serving", "ended"}

TypeOK ==
    /\ tlsConfig \in {"set", "nil", "error"}
    /\ at \in [Conns -> Places]
    /\ open \subseteq Conns /\ sock \subseteq Conns
    /\ secure \subseteq Conns
    /\ verified \in [Conns -> {"unasked", "yes", "no"}]
    /\ asked \in [Conns -> {"no", "clear", "tls"}]
    /\ greeting \in [Conns -> Seq(Messages)]
    /\ written \in [Conns -> Seq(Messages \X BOOLEAN)]
    /\ manager \subseteq Conns
    /\ late \subseteq Conns
    /\ silent \subseteq Conns

Init ==
    /\ tlsConfig \in {"set", "nil", "error"}
    /\ at = [c \in Conns |-> "none"]
    /\ open = {} /\ sock = {} /\ secure = {}
    /\ verified = [c \in Conns |-> "unasked"]
    /\ asked = [c \in Conns |-> "no"]
    /\ greeting = [c \in Conns |-> <<>>]
    /\ written = [c \in Conns |-> <<>>]
    /\ manager = {} /\ late = {} /\ silent = {}

-----------------------------------------------------------------------------
(***************************************************************************)
(* Reading and writing.  What a client sent before it hung up may still be *)
(* read, and a write to it may still succeed; once the server has closed   *)
(* the socket neither does.                                                *)
(***************************************************************************)
CanRead(c)   == c \in sock
ReadFails(c) == c \notin open \cap sock

WriteMayFail(c) == ReadFails(c)

Put(c, msg) == written' = [written EXCEPT ![c] = Append(@, <<msg, c \in secure>>)]
Goto(c, p)  == at' = [at EXCEPT ![c] = p]

\* The deferred calls of receive: RemoveConn, conn.Close and netConn.Close.
End(c) ==
    /\ Goto(c, "ended")
    /\ sock' = sock \ {c}
    /\ manager' = manager \ {c}
    /\ greeting' = [greeting EXCEPT ![c] = <<>>]

\* conn.ResponseError(err), then the return.
Fail(c) ==
    /\ End(c)
    /\ \/ c \in sock /\ Put(c, "E")
       \/ WriteMayFail(c) /\ UNCHANGED written

\* conn.ResponseMessage(msg), then on to p; failing, the return.
Respond(c, msg, p) ==
    \/ c \in sock /\ Put(c, msg) /\ Goto(c, p) /\ UNCHANGED <<sock, manager, greeting>>
    \/ WriteMayFail(c) /\ End(c) /\ UNCHANGED written

-----------------------------------------------------------------------------
(***************************************************************************)
(* The client, and the accepting of its connection.                        *)
(***************************************************************************)
Accept(c) ==
    /\ at[c] = "none"
    /\ Goto(c, "peek")
    /\ open' = open \cup {c} /\ sock' = sock \cup {c}
    /\ UNCHANGED <<tlsConfig, secure, verified, asked, greeting, written, manager, late,
                   silent>>

HangUp(c) ==
    /\ c \in open
    /\ open' = open \ {c}
    /\ UNCHANGED <<tlsConfig, at, sock, secure, verified, asked, greeting, written, manager,
                   late, silent>>

-----------------------------------------------------------------------------
(***************************************************************************)
(* The first message.                                                      *)
(***************************************************************************)

\* Variant: the read is tried once more, whatever it failed of.
ReadErrorRetried(c) ==
    /\ at[c] \in {"peek", "startup", "password"}
    /\ UNCHANGED startupVars

\* PeekInt32, the reading of the Startup message, or of the password, finds
\* the end of the stream or bytes it cannot decode.
ReadError(c) ==
    /\ at[c] \in {"peek", "startup", "password"}
    /\ ReadFails(c) \/ at[c] # "peek"
    /\ Fail(c)
    /\ UNCHANGED <<tlsConfig, open, secure, verified, asked, late, silent>>

\* A length other than 8: nothing has been consumed.
NotSSLRequest(c) ==
    /\ at[c] = "peek" /\ CanRead(c)
    /\ Goto(c, "startup")
    /\ UNCHANGED <<tlsConfig, open, sock, secure, verified, asked, greeting, written, manager,
                   late, silent>>

\* Variant: the return comes without an answer.
SSLRequestErrorSilent(c) ==
    /\ at[c] = "peek" /\ CanRead(c)
    /\ End(c)
    /\ UNCHANGED <<tlsConfig, open, secure, verified, asked, written, late, silent>>

\* A length of 8 and another code, or no TLS configuration to be had.
SSLRequestError(c) ==
    /\ at[c] = "peek" /\ CanRead(c)
    /\ Fail(c)
    /\ UNCHANGED <<tlsConfig, open, secure, verified, asked, late, silent>>

SSLRequest(c) ==
    /\ at[c] = "peek" /\ CanRead(c)
    /\ \/ tlsConfig = "set" /\ Respond(c, "SSL", "handshake")
       \/ tlsConfig = "nil" /\ Respond(c, "noSSL", "startup")
    /\ UNCHANGED <<tlsConfig, open, secure, verified, asked, late, silent>>

\* Variant: the reader and the writer stay those of the connection in clear.
HandshakeKeepsConn(c) ==
    /\ at[c] = "handshake" /\ CanRead(c)
    /\ Goto(c, "startup")
    /\ UNCHANGED <<tlsConfig, open, sock, secure, verified, asked, greeting, written, manager,
                   late, silent>>

\* The handshake is made, and the client's certificate is verified: conn is
\* replaced, and the reader with it.
Handshake(c) ==
    /\ at[c] = "handshake" /\ CanRead(c)
    /\ secure' = secure \cup {c}
    /\ Goto(c, "startup")
    /\ UNCHANGED <<tlsConfig, open, sock, verified, asked, greeting, written, manager, late,
                   silent>>

HandshakeError(c) ==
    /\ at[c] = "handshake"
    /\ Fail(c)
    /\ UNCHANGED <<tlsConfig, open, secure, verified, asked, late, silent>>

\* VerifyCertificate says no: an error is written if it gave one.
CertificateRefused(c) ==
    /\ at[c] = "handshake" /\ CanRead(c)
    /\ \/ Fail(c) /\ UNCHANGED silent
       \/ End(c) /\ silent' = silent \cup {c} /\ UNCHANGED written
    /\ UNCHANGED <<tlsConfig, open, secure, verified, asked, late>>

-----------------------------------------------------------------------------
(***************************************************************************)
(* handleStartupMessage.                                                   *)
(***************************************************************************)

\* The rest of the greeting, whatever the authentication has answered.
Greeting(auth) == <<auth, "S", "S", "K", "Z">>

\* A Startup message that names a user, and the request for his password.  It
\* takes no account of a certificate that has been verified.
StartupMessage(c) ==
    /\ at[c] = "startup" /\ CanRead(c)
    /\ Respond(c, "R3", "password")
    /\ UNCHANGED <<tlsConfig, open, secure, verified, asked, late, silent>>

\* Variant: the greeting goes on with no answer to the authentication.
StartupWithoutAnswer(c) ==
    /\ at[c] = "startup" /\ CanRead(c)
    /\ verified' = [verified EXCEPT ![c] = "no"]
    /\ greeting' = [greeting EXCEPT ![c] = Tail(Greeting("E"))]
    /\ Goto(c, "greet")
    /\ UNCHANGED <<tlsConfig, open, sock, secure, asked, written, manager, late, silent>>

\* One that names none, such as a second SSLRequest, which has no parameters.
StartupWithoutUser(c) ==
    /\ at[c] = "startup" /\ CanRead(c)
    /\ verified' = [verified EXCEPT ![c] = "no"]
    /\ greeting' = [greeting EXCEPT ![c] = Greeting("E")]
    /\ Goto(c, "greet")
    /\ UNCHANGED <<tlsConfig, open, sock, secure, asked, written, manager, late, silent>>

\* The password is read and verified.  An error of the authenticator ends the
\* connection, as ReadError does; a plain no does not.
PasswordMessage(c) ==
    /\ at[c] = "password" /\ CanRead(c)
    /\ asked' = [asked EXCEPT ![c] = IF c \in secure THEN "tls" ELSE "clear"]
    /\ \E ok \in BOOLEAN :
         /\ verified' = [verified EXCEPT ![c] = IF ok THEN "yes" ELSE "no"]
         /\ greeting' = [greeting EXCEPT ![c] = Greeting(IF ok THEN "R0" ELSE "E")]
    /\ Goto(c, "greet")
    /\ UNCHANGED <<tlsConfig, open, sock, secure, written, manager, late, silent>>

\* ResponseMessage and ResponseMessages, one message at a time.
Greet(c) ==
    /\ at[c] = "greet" /\ greeting[c] # <<>>
    /\ \/ /\ c \in sock
          /\ Put(c, Head(greeting[c]))
          /\ greeting' = [greeting EXCEPT ![c] = Tail(@)]
          /\ UNCHANGED <<at, sock, manager>>
       \/ WriteMayFail(c) /\ End(c) /\ UNCHANGED written
    /\ UNCHANGED <<tlsConfig, open, secure, verified, asked, late, silent>>

\* SetDatabase and AddConn, after ReadyForQuery has been written.
AddConn(c) ==
    /\ at[c] = "greet" /\ greeting[c] = <<>>
    /\ manager' = manager \cup {c}
    /\ Goto(c, "serving")
    /\ UNCHANGED <<tlsConfig, open, sock, secure, verified, asked, greeting, written, late,
                   silent>>

-----------------------------------------------------------------------------
(***************************************************************************)
(* The end of a session, and that of the manager.                          *)
(***************************************************************************)

\* A Terminate message: no answer.
Terminate(c) ==
    /\ at[c] = "serving" /\ CanRead(c)
    /\ End(c)
    /\ UNCHANGED <<tlsConfig, open, secure, verified, asked, written, late, silent>>

\* Variant: the deferred RemoveConn is missing.
LoopBreaksManaged(c) ==
    /\ at[c] = "serving" /\ ReadFails(c)
    /\ Goto(c, "ended")
    /\ sock' = sock \ {c}
    /\ UNCHANGED <<tlsConfig, open, secure, verified, asked, greeting, written, manager, late,
                   silent>>

\* PeekType fails, or a write does.
LoopBreaks(c) ==
    /\ at[c] = "serving" /\ ReadFails(c)
    /\ Fail(c)
    /\ UNCHANGED <<tlsConfig, open, secure, verified, asked, late, silent>>

\* Variant: the manager forgets its connections and does not close them.
StopManagerForgets(closed) ==
    /\ closed \subseteq manager
    /\ late' = Conns \ closed
    /\ manager' = manager \ closed
    /\ UNCHANGED <<tlsConfig, at, open, sock, secure, verified, asked, greeting, written,
                   silent>>

\* ConnManager.Stop closes every connection it holds, or fails half-way.
StopManager(closed) ==
    /\ closed \subseteq manager
    /\ sock' = sock \ closed
    /\ late' = Conns \ closed
    /\ UNCHANGED <<tlsConfig, at, open, secure, verified, asked, greeting, written, manager,
                   silent>>

-----------------------------------------------------------------------------
\* A step of the goroutine of c.
Receive(c) ==
    \/ ReadError(c) \/ NotSSLRequest(c) \/ SSLRequestError(c) \/ SSLRequest(c)
    \/ Handshake(c) \/ HandshakeError(c) \/ CertificateRefused(c)
    \/ StartupMessage(c) \/ StartupWithoutUser(c) \/ PasswordMessage(c)
    \/ Greet(c) \/ AddConn(c) \/ Terminate(c) \/ LoopBreaks(c)

\* The steps that its goroutine makes once a client has hung up: those that do
\* not wait for it, and the reads that find the end of the stream.
WritesOn(c) == Greet(c) \/ AddConn(c)
GivesUp(c)  == ReadFails(c) /\ (ReadError(c) \/ HandshakeError(c) \/ LoopBreaks(c))

Next == \/ \E c \in Conns : Accept(c) \/ HangUp(c) \/ Receive(c)
        \/ \E closed \in SUBSET manager : StopManager(closed)

Spec == Init /\ [][Next]_startupVars

-----------------------------------------------------------------------------
(***************************************************************************)
(* Safety.  The names of the messages written to a client, whether TLS or  *)
(* not, and what an earlier part of them must have been.                   *)
(***************************************************************************)
Names(c) == [i \in DOMAIN written[c] |-> written[c][i][1]]
SSLAnswer(c) == IF c \in secure THEN {<<"SSL">>} ELSE {<<>>, <<"noSSL">>}
Request(c)   == IF asked[c] = "no" THEN <<>> ELSE <<"R3">>

\* What a client has been told, and is still to be told, when its start-up is
\* through: AuthenticationOk if and only if the authenticator said yes to a
\* password that was asked for, and an error before ParameterStatus and
\* ReadyForQuery otherwise.
GreetedAsVerified ==
    \A c \in Conns : at[c] = "greet" =>
        /\ \E ssl \in SSLAnswer(c) :
             Names(c) \o greeting[c] =
               ssl \o Request(c) \o Greeting(IF verified[c] = "yes" THEN "R0" ELSE "E")
        /\ verified[c] = "yes" => asked[c] # "no"

\* The same of a connection whose requests are served: all of it was written.
ServedWasGreeted ==
    \A c \in Conns : at[c] = "serving" =>
        /\ \E ssl \in SSLAnswer(c) :
             Names(c) = ssl \o Request(c) \o Greeting(IF verified[c] = "yes" THEN "R0" ELSE "E")
        /\ verified[c] = "yes" => asked[c] # "no"

\* Once TLS has been accepted nothing but an error of the handshake goes out
\* in clear, and no password comes in so.
TLSOnceAccepted ==
    \A c \in Conns : \A i \in DOMAIN written[c] :
        written[c][i][1] = "SSL" =>
            /\ asked[c] # "clear"
            /\ \A j \in (i + 1) .. Len(written[c]) :
                 written[c][j][2] \/ (j = Len(written[c]) /\ written[c][j][1] = "E"
                                      /\ at[c] = "ended")

\* A client whose start-up is broken off while it listens has been told of an
\* error, unless its certificate was refused without one.
RefusedIsTold ==
    \A c \in Conns :
        (at[c] = "ended" /\ c \in open \ silent /\ "Z" \notin {Names(c)[i] : i \in DOMAIN Names(c)})
            => written[c] # <<>> /\ Names(c)[Len(written[c])] = "E"

\* The manager holds the connections that are served, and no other: whatever
\* ends a session takes it out, and nothing that is still to be greeted is in.
ManagerHoldsServed == manager = {c \in Conns : at[c] = "serving"}

\* A socket is closed when its goroutine returns, and only a goroutine that has
\* answered an SSLRequest with yes makes a handshake.
SocketsAreOfGoroutines ==
    \A c \in Conns :
        /\ at[c] \in {"none", "ended"} => c \notin sock /\ greeting[c] = <<>>
        /\ at[c] = "handshake" => c \notin secure /\ Names(c) = <<"SSL">>
        /\ at[c] = "none" => c \notin open /\ written[c] = <<>>

StartupInv == TypeOK /\ ManagerHoldsServed /\ SocketsAreOfGoroutines

=============================================================================
