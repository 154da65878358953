----------------------------- MODULE Lifecycle -----------------------------
(***************************************************************************)
(* Starting, stopping and restarting the server: server.Start, Stop and    *)
(* Restart (server_impl.go), and Start, Stop, open, close and serve of the *)
(* protocol server they drive (protocol/server_impl.go).                   *)
(*                                                                         *)
(* One goroutine makes the calls (main, or its signal handler).  Each      *)
(* Start that listens spawns a goroutine running serve, which closes the   *)
(* server's listener when it returns.  All of them read and write the      *)
(* field tcpListener without a lock, so close is modelled line by line:    *)
(* it tests the field, calls Close on it, then sets it to nil.             *)
(***************************************************************************)
EXTENDS Naturals

CONSTANTS
    MaxStarts,      \* bound on the calls of Start
    ListenMayFail,  \* net.Listen may fail although the server holds no listener
    AcceptMayFail   \* Accept may fail although its listener is open

ASSUME MaxStartsAssumption == MaxStarts \in Nat
ASSUME FailureAssumption == ListenMayFail \in BOOLEAN /\ AcceptMayFail \in BOOLEAN

\* The listener of the k-th Start is k, and so is the goroutine that serves it.
Starts  == 1 .. MaxStarts
Nil     == 0
Control == 0              \* the goroutine that calls Start, Stop and Restart
Closers == {Control} \cup Starts

VARIABLES
    control,      \* where the calling goroutine is
    after,        \* what follows a Stop: nothing, a Start, or the return of one
    up,           \* the last call was a Start or a Restart, and returned nil
    started,      \* calls of Start so far
    tcpListener,  \* the field: Nil or a listener
    bound,        \* the listeners whose socket is open
    serve,        \* where the goroutine of each Start is
    held,         \* serve's own l: the listener it accepts from
    closing,      \* where each goroutine is in close
    tested,       \* the listener it found in the field
    crashed,      \* the process has died of a nil dereference
    overlapped,   \* a Start listened while an earlier serve had not returned
    refused,      \* net.Listen has failed
    deaf          \* Accept has failed on an open listener

history == <<overlapped, refused, deaf>>
vars == <<control, after, up, started, tcpListener, bound, serve, held, closing, tested,
          crashed, history>>

\* A Stop that fails makes main exit.
Alive == ~crashed /\ control \notin {"connsFailed", "closeFailed"}

TypeOK ==
    /\ control \in {"idle", "listen", "stop", "close", "connsFailed", "closeFailed"}
    /\ after \in {"nothing", "start", "return"}
    /\ up \in BOOLEAN
    /\ started \in 0 .. MaxStarts
    /\ tcpListener \in Starts \cup {Nil}
    /\ bound \subseteq Starts
    /\ serve \in [Starts -> {"none", "entering", "accepting", "returning", "done"}]
    /\ held \in [Starts -> Starts \cup {Nil}]
    /\ closing \in [Closers -> {"no", "test", "close", "clear"}]
    /\ tested \in [Closers -> Starts \cup {Nil}]
    /\ crashed \in BOOLEAN
    /\ overlapped \in BOOLEAN /\ refused \in BOOLEAN /\ deaf \in BOOLEAN

Init ==
    /\ control = "idle" /\ after = "nothing" /\ up = FALSE
    /\ started = 0
    /\ tcpListener = Nil
    /\ bound = {}
    /\ serve = [k \in Starts |-> "none"]
    /\ held = [k \in Starts |-> Nil]
    /\ closing = [x \in Closers |-> "no"]
    /\ tested = [x \in Closers |-> Nil]
    /\ crashed = FALSE
    /\ overlapped = FALSE /\ refused = FALSE /\ deaf = FALSE

-----------------------------------------------------------------------------
(***************************************************************************)
(* Start.                                                                  *)
(***************************************************************************)
Start ==
    /\ Alive
    /\ control = "idle" /\ ~up
    /\ started < MaxStarts
    /\ control' = "listen"
    /\ UNCHANGED <<after, up, started, tcpListener, bound, serve, held, closing, tested,
                   crashed, history>>

\* A goroutine that has been spawned and has not returned.
Live(k) == serve[k] \in {"entering", "accepting", "returning"}

\* open, then the spawn of serve.  The port takes one listener at a time.
Listen ==
    /\ Alive
    /\ control = "listen"
    /\ bound = {}
    /\ started' = started + 1
    /\ tcpListener' = started + 1
    /\ bound' = {started + 1}
    /\ serve' = [serve EXCEPT ![started + 1] = "entering"]
    /\ control' = "idle"
    /\ up' = TRUE
    /\ overlapped' = (overlapped \/ \E k \in Starts : Live(k))
    /\ UNCHANGED <<after, held, closing, tested, crashed, refused, deaf>>

\* net.Listen has failed, and open has stored its nil: Start calls Stop.
ListenError ==
    /\ Alive
    /\ control = "listen"
    /\ bound # {} \/ ListenMayFail
    /\ started' = started + 1
    /\ tcpListener' = Nil
    /\ control' = "stop"
    /\ after' = "return"
    /\ refused' = TRUE
    /\ UNCHANGED <<up, bound, serve, held, closing, tested, crashed, overlapped, deaf>>

-----------------------------------------------------------------------------
(***************************************************************************)
(* Stop and Restart.                                                       *)
(***************************************************************************)
Stop ==
    /\ Alive
    /\ control = "idle" /\ up
    /\ control' = "stop"
    /\ after' = "nothing"
    /\ UNCHANGED <<up, started, tcpListener, bound, serve, held, closing, tested, crashed,
                   history>>

Restart ==
    /\ Alive
    /\ control = "idle" /\ up
    /\ started < MaxStarts
    /\ control' = "stop"
    /\ after' = "start"
    /\ UNCHANGED <<up, started, tcpListener, bound, serve, held, closing, tested, crashed,
                   history>>

\* ConnManager.Stop closes the connections, or fails and leaves the listener.
StopConns ==
    /\ Alive
    /\ control = "stop"
    /\ \/ control' = "close" /\ closing' = [closing EXCEPT ![Control] = "test"]
       \/ control' = "connsFailed" /\ UNCHANGED closing
    /\ UNCHANGED <<after, up, started, tcpListener, bound, serve, held, tested, crashed,
                   history>>

\* What Stop's caller does: Restart goes on to Start; a Start that could not
\* listen returns what Stop returned, and nil is taken for a success.
StopReturns(ok) ==
    /\ control' = IF ~ok THEN "closeFailed"
                  ELSE IF after = "start" THEN "listen" ELSE "idle"
    /\ up' = (ok /\ after = "return")

-----------------------------------------------------------------------------
(***************************************************************************)
(* close, called by Stop and deferred by serve.                            *)
(***************************************************************************)
CloseReturns(x, ok) ==
    /\ closing' = [closing EXCEPT ![x] = "no"]
    /\ IF x = Control
       THEN StopReturns(ok) /\ UNCHANGED serve
       ELSE serve' = [serve EXCEPT ![x] = "done"] /\ UNCHANGED <<control, up>>

\* Variant: the field is cleared and its listener never closed.
CloseTestOnly(x) ==
    /\ Alive
    /\ closing[x] = "test"
    /\ closing' = [closing EXCEPT ![x] = "clear"]
    /\ UNCHANGED <<control, after, up, started, tcpListener, bound, serve, held, tested,
                   crashed, history>>

CloseTest(x) ==
    /\ Alive
    /\ closing[x] = "test"
    /\ closing' = [closing EXCEPT ![x] = IF tcpListener # Nil THEN "close" ELSE "clear"]
    /\ tested' = [tested EXCEPT ![x] = tcpListener]
    /\ UNCHANGED <<control, after, up, started, tcpListener, bound, serve, held, crashed,
                   history>>

\* The call uses the value that was tested or reads the field once more: the
\* compiler may do either.  A nil listener has no Close to call, and closing
\* one twice is an error.
CloseSocket(x) ==
    /\ Alive
    /\ closing[x] = "close"
    /\ \E l \in {tested[x], tcpListener} :
         \/ /\ l = Nil
            /\ crashed' = TRUE
            /\ UNCHANGED <<control, up, bound, serve, closing>>
         \/ /\ l \in bound
            /\ bound' = bound \ {l}
            /\ closing' = [closing EXCEPT ![x] = "clear"]
            /\ UNCHANGED <<control, up, serve, crashed>>
         \/ /\ l \notin bound \cup {Nil}
            /\ CloseReturns(x, FALSE)
            /\ UNCHANGED <<bound, crashed>>
    /\ UNCHANGED <<after, started, tcpListener, held, tested, history>>

CloseClear(x) ==
    /\ Alive
    /\ closing[x] = "clear"
    /\ tcpListener' = Nil
    /\ CloseReturns(x, TRUE)
    /\ UNCHANGED <<after, started, bound, held, tested, crashed, history>>

Close(x) == CloseTest(x) \/ CloseSocket(x) \/ CloseClear(x)

-----------------------------------------------------------------------------
(***************************************************************************)
(* serve.  What it accepts is served by other goroutines (Session).        *)
(***************************************************************************)

\* serve takes its own copy of the field, whatever that holds by now.
ServeEnter(k) ==
    /\ Alive
    /\ serve[k] = "entering"
    /\ held' = [held EXCEPT ![k] = tcpListener]
    /\ IF tcpListener # Nil
       THEN serve' = [serve EXCEPT ![k] = "accepting"] /\ UNCHANGED closing
       ELSE /\ serve' = [serve EXCEPT ![k] = "returning"]
            /\ closing' = [closing EXCEPT ![k] = "test"]
    /\ UNCHANGED <<control, after, up, started, tcpListener, bound, tested, crashed, history>>

\* Variants: Accept fails for no reason, as at a deadline; its error is taken
\* for one of a connection.
AcceptErrorAtWill(k) ==
    /\ Alive
    /\ serve[k] = "accepting"
    /\ serve' = [serve EXCEPT ![k] = "returning"]
    /\ closing' = [closing EXCEPT ![k] = "test"]
    /\ UNCHANGED <<control, after, up, started, tcpListener, bound, held, tested, crashed,
                   history>>
AcceptErrorIgnored(k) ==
    /\ Alive
    /\ serve[k] = "accepting"
    /\ held[k] \notin bound \/ AcceptMayFail
    /\ deaf' = (deaf \/ held[k] \in bound)
    /\ UNCHANGED <<control, after, up, started, tcpListener, bound, serve, held, closing,
                   tested, crashed, overlapped, refused>>

\* Accept fails once the listener is closed, or for want of resources.
AcceptError(k) ==
    /\ Alive
    /\ serve[k] = "accepting"
    /\ held[k] \notin bound \/ AcceptMayFail
    /\ serve' = [serve EXCEPT ![k] = "returning"]
    /\ closing' = [closing EXCEPT ![k] = "test"]
    /\ deaf' = (deaf \/ held[k] \in bound)
    /\ UNCHANGED <<control, after, up, started, tcpListener, bound, held, tested, crashed,
                   overlapped, refused>>

-----------------------------------------------------------------------------
Calls == Start \/ Stop \/ Restart
Serve(k) == ServeEnter(k) \/ AcceptError(k)

Next == \/ Calls \/ Listen \/ ListenError \/ StopConns
        \/ \E x \in Closers : Close(x)
        \/ \E k \in Starts : Serve(k)

Spec == Init /\ [][Next]_vars

\* A call that was made runs on, and so do the goroutines; that Accept fails
\* is forced only once its listener is closed.
Fairness ==
    /\ WF_vars(Listen \/ ListenError \/ StopConns)
    /\ \A x \in Closers : WF_vars(Close(x))
    /\ \A k \in Starts : /\ WF_vars(ServeEnter(k))
                         /\ WF_vars(held[k] \notin bound /\ AcceptError(k))

FairSpec == Spec /\ Fairness

-----------------------------------------------------------------------------
(***************************************************************************)
(* Safety.  As long as no Start overlaps the serve goroutine of an earlier *)
(* one, what the calls report is what the sockets are.                     *)
(***************************************************************************)
Running == Alive /\ control = "idle" /\ up
Stopped == Alive /\ control = "idle" /\ ~up

\* The server listens, and a goroutine of its own serves the listener.
Listening ==
    /\ tcpListener = started /\ bound = {started}
    /\ \/ serve[started] = "entering"
       \/ serve[started] = "accepting" /\ held[started] = started

\* After a Start or a Restart that returned nil the server listens, unless
\* net.Listen or Accept has failed.
RunningListens == (Running /\ ~overlapped /\ ~refused /\ ~deaf) => Listening

\* After a Stop that returned nil the port is free, whatever has failed.
StoppedIsClosed == (Stopped /\ ~overlapped) => bound = {}

\* Stop fails to close the listener only when serve has closed it before,
\* which takes a failure of Accept.
CloseFailsOnlyWhenDeaf == (control = "closeFailed" /\ ~overlapped) => deaf

\* While the server is stopped its goroutines return, and leave close.
ServeReturns ==
    \A k \in Starts : (Stopped /\ ~overlapped /\ Live(k)) ~> (~Live(k) \/ ~Stopped)

-----------------------------------------------------------------------------
(***************************************************************************)
(* The inductive invariant behind the safety properties.  Without overlap  *)
(* there is one listener and one goroutine for it at a time.               *)
(***************************************************************************)
CloseIsCalled ==
    /\ (closing[Control] # "no") <=> (control = "close")
    /\ \A k \in Starts : (closing[k] # "no") <=> (serve[k] = "returning")

FutureIsBlank ==
    /\ \A k \in Starts : k > started => serve[k] = "none"
    /\ control = "listen" => started < MaxStarts
    /\ (control \in {"stop", "close"} /\ after = "start") => started < MaxStarts

OneListener ==
    /\ \A l \in bound : tcpListener = l
    /\ tcpListener # Nil => tcpListener <= started /\ serve[tcpListener] # "none"
    /\ \A x \in Closers : closing[x] = "close" => tested[x] # Nil
    /\ \A x \in Closers : closing[x] = "clear" => bound = {}
    /\ (control = "listen" \/ (control = "idle" /\ ~up)) => bound = {}

OneServe ==
    /\ \A j, k \in Starts : Live(j) /\ Live(k) => j = k
    /\ \A k \in Starts : Live(k) => tcpListener \in {Nil, k}
    /\ \A k \in Starts : serve[k] = "accepting" => held[k] = k
    /\ \A k \in Starts : (serve[k] = "returning" /\ ~deaf) => bound = {}

ClosesOnce ==
    /\ (bound = {} /\ tcpListener # Nil) => (deaf \/ closing[Control] = "clear")
    /\ (closing[Control] = "close" /\ ~deaf) => bound = {tested[Control]}
    /\ control = "closeFailed" => deaf

LifecycleInv ==
    /\ TypeOK
    /\ CloseIsCalled
    /\ FutureIsBlank
    /\ (control \in {"stop", "close"} /\ after = "return") => refused
    /\ ~overlapped => /\ OneListener /\ OneServe /\ ClosesOnce
                      /\ (control = "idle" /\ up /\ ~refused /\ ~deaf) => Listening

(***************************************************************************)
(* What the comments say and the code does not do.                         *)
(***************************************************************************)

\* server_impl.go: "Restart restarts the server."  After it returned nil, the
\* server listens.
RestartListens == (Running /\ after = "start" /\ control = "idle") => Listening

=============================================================================
