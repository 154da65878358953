------------------------------- MODULE Server ------------------------------
(***************************************************************************)
(* The protocol server as a whole: the connections of Startup, accepted by *)
(* the goroutines of Lifecycle and stopped by its Stop, which stops the    *)
(* connection manager before it closes the listener.                       *)
(***************************************************************************)
EXTENDS Startup

CONSTANTS MaxStarts, ListenMayFail, AcceptMayFail    \* those of Lifecycle

ASSUME ServerAssumption ==
    MaxStarts \in Nat /\ ListenMayFail \in BOOLEAN /\ AcceptMayFail \in BOOLEAN

VARIABLES control, after, up, started, tcpListener, bound, serve, held, closing, tested,
          crashed, overlapped, refused, deaf

L == INSTANCE Lifecycle

lifecycleVars == <<control, after, up, started, tcpListener, bound, serve, held, closing,
                   tested, crashed, overlapped, refused, deaf>>
serverVars == <<startupVars, lifecycleVars>>

ServerInit == Init /\ L!Init

\* A serve goroutine has accepted the connection, and spawns its receive.
ServerAccept(c) ==
    /\ L!Alive
    /\ \E k \in L!Starts : serve[k] = "accepting" /\ held[k] \in bound
    /\ Accept(c)
    /\ UNCHANGED lifecycleVars

ServerReceive(c) == L!Alive /\ Receive(c) /\ UNCHANGED lifecycleVars
ServerHangUp(c)  == HangUp(c) /\ UNCHANGED lifecycleVars

\* Stop's first step.  The manager closes what it holds; failing, some of it.
ServerStopConns ==
    /\ L!StopConns
    /\ \E closed \in SUBSET manager :
         /\ control' = "close" => closed = manager
         /\ StopManager(closed)

\* The steps of Lifecycle that leave the connections alone.
LifecycleStep ==
    /\ \/ L!Calls \/ L!Listen \/ L!ListenError
       \/ \E x \in L!Closers : L!Close(x)
       \/ \E k \in L!Starts : L!Serve(k)
    /\ UNCHANGED startupVars

ServerNext ==
    \/ \E c \in Conns : ServerAccept(c) \/ ServerReceive(c) \/ ServerHangUp(c)
    \/ ServerStopConns
    \/ LifecycleStep

\* A goroutine that does not wait for its client runs on, and so does one whose
\* client has left; nobody is made to send anything.
Fairness ==
    \A c \in Conns :
        /\ WF_serverVars(ServerReceive(c) /\ WritesOn(c))
        /\ WF_serverVars(ServerReceive(c) /\ GivesUp(c))

ServerSpec == ServerInit /\ [][ServerNext]_serverVars /\ Fairness

-----------------------------------------------------------------------------
\* A Stop that returned nil leaves no connection it had in the manager with an
\* open socket: what is still open was being greeted, or accepted, meanwhile.
StopClosesManaged == (L!Stopped /\ started > 0) => sock \subseteq late

\* No connection is accepted by a server that was stopped, unless a goroutine of
\* an earlier start may still hold a listener.
AcceptsNone ==
    (L!Stopped /\ ~overlapped) => \A c \in Conns : at[c] = "none" => at'[c] = "none"
StoppedAcceptsNone == [][AcceptsNone]_serverVars

\* A client that hangs up, or whose socket Stop has closed, is let go, whatever
\* it was asked for.
HungUpEnds ==
    \A c \in Conns : (at[c] # "none" /\ c \notin open \cap sock)
                        ~> (at[c] = "ended" \/ ~L!Alive)

=============================================================================
