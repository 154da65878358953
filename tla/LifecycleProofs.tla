-------------------------- MODULE LifecycleProofs --------------------------
(***************************************************************************)
(* Proofs about Lifecycle: LifecycleInv is inductive for any number of     *)
(* starts, and the safety properties follow from it.                       *)
(***************************************************************************)
EXTENDS Lifecycle, TLAPS

\* The calling goroutine is none of those that serve, and Nil no listener.
LEMMA Numbers ==
    /\ Nil \notin Starts /\ Control \notin Starts /\ Nil = Control
    /\ Control \in Closers /\ \A k \in Starts : k \in Closers /\ k \in Nat
    /\ \A x \in Closers : x # Control => x \in Starts
  BY MaxStartsAssumption DEF Nil, Control, Starts, Closers

\* What a listener has to do with an execution without overlap.
Ordered == /\ OneListener /\ OneServe /\ ClosesOnce
           /\ (control = "idle" /\ up /\ ~refused /\ ~deaf) => Listening

\* A failed Start is on its way to Stop.
RefusedReturns == (control \in {"stop", "close"} /\ after = "return") => refused

\* LifecycleInv holds before the first call.
LEMMA InitLifecycle == Init => LifecycleInv
  <1> SUFFICES ASSUME Init PROVE LifecycleInv
    OBVIOUS
  <1> USE MaxStartsAssumption, Numbers
  <1>1. TypeOK
    <2>1. /\ up \in BOOLEAN /\ crashed \in BOOLEAN
          /\ overlapped \in BOOLEAN /\ refused \in BOOLEAN /\ deaf \in BOOLEAN
      BY DEF Init
    <2>2. /\ started \in 0 .. MaxStarts
          /\ tcpListener \in Starts \cup {Nil}
          /\ bound \subseteq Starts
      BY DEF Init
    <2>3. /\ serve \in [Starts -> {"none", "entering", "accepting", "returning", "done"}]
          /\ held \in [Starts -> Starts \cup {Nil}]
      BY DEF Init
    <2>4. /\ closing \in [Closers -> {"no", "test", "close", "clear"}]
          /\ tested \in [Closers -> Starts \cup {Nil}]
      BY DEF Init
    <2> QED
      BY <2>1, <2>2, <2>3, <2>4 DEF Init, TypeOK
  <1>2. CloseIsCalled /\ FutureIsBlank
    BY DEF Init, CloseIsCalled, FutureIsBlank
  <1>3. OneListener /\ OneServe /\ ClosesOnce
    BY DEF Init, OneListener, OneServe, ClosesOnce, Live
  <1> QED
    BY <1>1, <1>2, <1>3 DEF Init, LifecycleInv

\* The calls change where the calling goroutine is, and what follows.
LEMMA CallsStep ==
    ASSUME LifecycleInv, Calls \/ UNCHANGED vars
    PROVE  LifecycleInv'
  <1> USE MaxStartsAssumption, Numbers DEF LifecycleInv, history
  <1>1. CASE Start
    <2>1. TypeOK' /\ CloseIsCalled' /\ FutureIsBlank'
      BY <1>1 DEF Start, TypeOK, CloseIsCalled, FutureIsBlank
    <2>2. ~overlapped => (OneListener /\ OneServe /\ ClosesOnce)'
      BY <1>1 DEF Start, OneListener, OneServe, ClosesOnce, CloseIsCalled, Live
    <2> QED
      BY <1>1, <2>1, <2>2 DEF Start
  <1>2. CASE Stop \/ Restart
    <2>1. TypeOK' /\ CloseIsCalled' /\ FutureIsBlank'
      BY <1>2 DEF Stop, Restart, TypeOK, CloseIsCalled, FutureIsBlank
    <2>2. ~overlapped => (OneListener /\ OneServe /\ ClosesOnce)'
      BY <1>2 DEF Stop, Restart, OneListener, OneServe, ClosesOnce, CloseIsCalled, Live
    <2> QED
      BY <1>2, <2>1, <2>2 DEF Stop, Restart
  <1>3. CASE UNCHANGED vars
    BY <1>3 DEF vars, TypeOK, CloseIsCalled, FutureIsBlank, OneListener, OneServe, ClosesOnce,
       Listening, Live
  <1> QED
    BY <1>1, <1>2, <1>3 DEF Calls

\* A new listener, and the goroutine that will serve it: without overlap no
\* other goroutine is left, so none is in close.
LEMMA ListenStep ==
    ASSUME LifecycleInv, Listen
    PROVE  LifecycleInv'
  <1> USE MaxStartsAssumption, Numbers DEF LifecycleInv
  <1> DEFINE new == started + 1
  <1>1. /\ new \in Starts /\ started \in Nat /\ new # Nil /\ serve[new] = "none"
    BY DEF Listen, FutureIsBlank, TypeOK, Starts, Nil
  <1>2. /\ control = "listen" /\ control' = "idle" /\ up' = TRUE
        /\ started' = new /\ tcpListener' = new /\ bound' = {new} /\ bound = {}
        /\ serve' \in [Starts -> {"none", "entering", "accepting", "returning", "done"}]
        /\ \A k \in Starts : serve'[k] = (IF k = new THEN "entering" ELSE serve[k])
        /\ overlapped' = (overlapped \/ \E k \in Starts : Live(k))
        /\ UNCHANGED <<after, held, closing, tested, crashed, refused, deaf>>
    BY <1>1 DEF Listen, TypeOK
  <1> HIDE DEF new
  <1>3. TypeOK'
    BY <1>1, <1>2 DEF TypeOK, Starts
  <1>4. CloseIsCalled'
    BY <1>1, <1>2 DEF CloseIsCalled
  <1>5. FutureIsBlank'
    BY <1>1, <1>2 DEF FutureIsBlank, TypeOK, new
  <1>6. ASSUME ~overlapped' PROVE Ordered'
    <2>1. ~overlapped /\ \A k \in Starts : ~Live(k)
      BY <1>2, <1>6 DEF TypeOK
    <2>2. \A x \in Closers : closing[x] = "no"
      BY <1>2, <2>1 DEF CloseIsCalled, Live, TypeOK
    <2>3. OneListener'
      BY <1>1, <1>2, <2>2 DEF OneListener, TypeOK
    <2>4. \A k \in Starts : Live(k)' => k = new
      BY <1>2, <2>1 DEF Live
    <2>5. OneServe'
      BY <1>1, <1>2, <2>1, <2>4 DEF OneServe, Live
    <2>6. ClosesOnce'
      BY <1>2, <2>2 DEF ClosesOnce
    <2>7. Listening'
      BY <1>1, <1>2 DEF Listening
    <2> QED
      BY <2>3, <2>5, <2>6, <2>7 DEF Ordered
  <1> QED
    BY <1>2, <1>3, <1>4, <1>5, <1>6 DEF Ordered

\* A Start that cannot listen holds no listener, and goes on to Stop.
LEMMA ListenErrorStep ==
    ASSUME LifecycleInv, ListenError
    PROVE  LifecycleInv'
  <1> USE MaxStartsAssumption, Numbers DEF LifecycleInv
  <1>1. TypeOK' /\ CloseIsCalled' /\ FutureIsBlank'
    BY DEF ListenError, TypeOK, CloseIsCalled, FutureIsBlank, Starts
  <1>2. ASSUME ~overlapped PROVE OneListener' /\ OneServe' /\ ClosesOnce'
    BY <1>2 DEF ListenError, TypeOK, OneListener, OneServe, ClosesOnce, CloseIsCalled, Live
  <1> QED
    BY <1>1, <1>2 DEF ListenError

\* Stop goes on to close, or fails.
LEMMA StopConnsStep ==
    ASSUME LifecycleInv, StopConns
    PROVE  LifecycleInv'
  <1> USE MaxStartsAssumption, Numbers DEF LifecycleInv, history
  <1>1. TypeOK' /\ CloseIsCalled' /\ FutureIsBlank'
    BY DEF StopConns, TypeOK, CloseIsCalled, FutureIsBlank
  <1>2. ASSUME ~overlapped PROVE OneListener' /\ OneServe' /\ ClosesOnce'
    BY <1>2 DEF StopConns, TypeOK, OneListener, OneServe, ClosesOnce, CloseIsCalled, Live
  <1> QED
    BY <1>1, <1>2 DEF StopConns

-----------------------------------------------------------------------------
\* What a goroutine that returns from close leaves: it is no longer in close.
LEMMA CloseReturnsTyped ==
    ASSUME TypeOK, CloseIsCalled, NEW x \in Closers, closing[x] # "no", NEW ok,
           CloseReturns(x, ok)
    PROVE  /\ control' \in {"idle", "listen", "stop", "close", "connsFailed", "closeFailed"}
           /\ up' \in BOOLEAN
           /\ serve' \in [Starts -> {"none", "entering", "accepting", "returning", "done"}]
           /\ closing' \in [Closers -> {"no", "test", "close", "clear"}]
           /\ CloseIsCalled'
           /\ closing'[x] = "no" /\ \A y \in Closers \ {x} : closing'[y] = closing[y]
           /\ x # Control => /\ serve[x] = "returning" /\ serve'[x] = "done"
                             /\ \A k \in Starts \ {x} : serve'[k] = serve[k]
                             /\ control' = control /\ up' = up
           /\ x = Control => /\ control = "close" /\ serve' = serve
  <1> USE Numbers
  <1>1. /\ closing' = [closing EXCEPT ![x] = "no"]
        /\ closing' \in [Closers -> {"no", "test", "close", "clear"}]
        /\ closing'[x] = "no" /\ \A y \in Closers \ {x} : closing'[y] = closing[y]
    BY DEF CloseReturns, TypeOK
  <1>2. CASE x = Control
    <2>1. control = "close" /\ serve' = serve /\ StopReturns(ok)
      BY <1>2 DEF CloseReturns, CloseIsCalled
    <2>2. /\ control' \in {"idle", "listen", "closeFailed"}
          /\ up' \in BOOLEAN
      BY <2>1 DEF StopReturns
    <2> QED
      BY <1>1, <1>2, <2>1, <2>2 DEF CloseIsCalled, TypeOK
  <1>3. CASE x # Control
    <2>1. /\ x \in Starts /\ serve[x] = "returning"
          /\ serve' = [serve EXCEPT ![x] = "done"] /\ control' = control /\ up' = up
      BY <1>3 DEF CloseReturns, CloseIsCalled
    <2>2. /\ serve'[x] = "done" /\ \A k \in Starts \ {x} : serve'[k] = serve[k]
          /\ serve' \in [Starts -> {"none", "entering", "accepting", "returning", "done"}]
      BY <2>1 DEF TypeOK
    <2> QED
      BY <1>1, <1>3, <2>1, <2>2 DEF CloseIsCalled, TypeOK
  <1> QED
    BY <1>2, <1>3

\* Testing the field changes nothing but what the tester knows.
LEMMA CloseTestStep ==
    ASSUME LifecycleInv, NEW x \in Closers, CloseTest(x)
    PROVE  LifecycleInv'
  <1> USE MaxStartsAssumption, Numbers DEF LifecycleInv, history
  <1>1. TypeOK' /\ CloseIsCalled' /\ FutureIsBlank'
    BY DEF CloseTest, TypeOK, CloseIsCalled, FutureIsBlank
  <1>2. ASSUME ~overlapped PROVE OneListener'
    BY <1>2 DEF CloseTest, TypeOK, OneListener
  <1>3. ASSUME ~overlapped PROVE OneServe'
    BY <1>3 DEF CloseTest, OneServe, Live
  <1>4. ASSUME ~overlapped PROVE ClosesOnce'
    BY <1>4 DEF CloseTest, TypeOK, ClosesOnce, OneListener
  <1> QED
    BY <1>1, <1>2, <1>3, <1>4 DEF CloseTest, Listening

\* Without overlap the listener is closed by the goroutine that owns it, and
\* the second of two that try is the one that is told so.
LEMMA CloseSocketStep ==
    ASSUME LifecycleInv, NEW x \in Closers, CloseSocket(x)
    PROVE  LifecycleInv'
  <1> USE MaxStartsAssumption, Numbers DEF LifecycleInv, history
  <1>1. PICK l \in {tested[x], tcpListener} :
         \/ /\ l = Nil
            /\ crashed' = TRUE
            /\ UNCHANGED <<control, up, bound, serve, closing>>
         \/ /\ l \in bound
            /\ bound' = bound \ {l}
            /\ closing' = [closing EXCEPT ![x] = "clear"]
            /\ UNCHANGED <<control, up, serve, crashed>>
         \/ /\ l \notin bound \cup {Nil}
            /\ CloseReturns(x, FALSE)
            /\ UNCHANGED <<bound, crashed>>
    BY DEF CloseSocket
  <1>2. /\ closing[x] = "close" /\ Alive
        /\ UNCHANGED <<after, started, tcpListener, held, tested, history>>
    BY DEF CloseSocket
  <1>3. CASE l = Nil /\ crashed' = TRUE /\ UNCHANGED <<control, up, bound, serve, closing>>
    BY <1>2, <1>3 DEF TypeOK, CloseIsCalled, FutureIsBlank, OneListener, OneServe, ClosesOnce,
       Listening, Live
  <1>4. CASE /\ l \in bound /\ bound' = bound \ {l}
             /\ closing' = [closing EXCEPT ![x] = "clear"]
             /\ UNCHANGED <<control, up, serve, crashed>>
    <2>1. TypeOK' /\ CloseIsCalled' /\ FutureIsBlank'
      BY <1>2, <1>4 DEF TypeOK, CloseIsCalled, FutureIsBlank
    <2>2. ASSUME ~overlapped PROVE bound' = {} /\ tcpListener = l /\ (x # Control => deaf)
      BY <1>2, <1>4, <2>2 DEF OneListener, OneServe, CloseIsCalled
    <2>3. ASSUME ~overlapped PROVE Ordered'
      <3>1. OneListener'
        BY <1>2, <1>4, <2>2, <2>3 DEF OneListener, TypeOK
      <3>2. OneServe'
        BY <1>2, <1>4, <2>2, <2>3 DEF OneServe, Live
      <3>3. ClosesOnce'
        BY <1>2, <1>4, <2>2, <2>3 DEF ClosesOnce, TypeOK
      <3>4. (control = "idle" /\ up /\ ~refused /\ ~deaf)' => FALSE
        BY <1>2, <1>4, <2>2, <2>3 DEF CloseIsCalled
      <3> QED
        BY <1>2, <3>1, <3>2, <3>3, <3>4 DEF Ordered
    <2> QED
      BY <1>2, <1>4, <2>1, <2>3 DEF Ordered
  <1>5. CASE /\ l \notin bound \cup {Nil} /\ CloseReturns(x, FALSE)
             /\ UNCHANGED <<bound, crashed>>
    <2>1. /\ control' \in {"idle", "listen", "stop", "close", "connsFailed", "closeFailed"}
          /\ up' \in BOOLEAN
          /\ serve' \in [Starts -> {"none", "entering", "accepting", "returning", "done"}]
          /\ closing' \in [Closers -> {"no", "test", "close", "clear"}]
          /\ CloseIsCalled'
          /\ closing'[x] = "no" /\ \A y \in Closers \ {x} : closing'[y] = closing[y]
          /\ x # Control => /\ serve[x] = "returning" /\ serve'[x] = "done"
                            /\ \A k \in Starts \ {x} : serve'[k] = serve[k]
                            /\ control' = control /\ up' = up
          /\ x = Control => /\ control = "close" /\ serve' = serve
      BY <1>2, <1>5, CloseReturnsTyped
    <2>2. x = Control => control' = "closeFailed"
      BY <1>5 DEF CloseReturns, StopReturns
    <2>3. TypeOK'
      BY <1>2, <1>5, <2>1 DEF TypeOK
    <2>4. FutureIsBlank'
      BY <1>2, <2>1, <2>2 DEF FutureIsBlank
    <2>5. ASSUME ~overlapped PROVE Ordered'
      <3>1. OneListener'
        BY <1>2, <1>5, <2>1, <2>2, <2>5 DEF OneListener, TypeOK
      <3>2. OneServe'
        BY <1>2, <1>5, <2>1, <2>5 DEF OneServe, Live
      <3>3. x = Control => deaf
        BY <1>2, <1>5, <2>5 DEF ClosesOnce, OneListener
      <3>4. ClosesOnce'
        BY <1>2, <1>5, <2>1, <2>2, <2>5, <3>3 DEF ClosesOnce
      <3>5. (control = "idle" /\ up /\ ~refused /\ ~deaf)' => Listening'
        BY <1>2, <1>5, <2>1, <2>2, <2>5 DEF Listening, OneServe
      <3> QED
        BY <3>1, <3>2, <3>4, <3>5 DEF Ordered
    <2> QED
      BY <1>2, <2>1, <2>2, <2>3, <2>4, <2>5 DEF Ordered
  <1> QED
    BY <1>1, <1>3, <1>4, <1>5

\* Clearing the field follows the closing of the listener, or its absence.
LEMMA CloseClearStep ==
    ASSUME LifecycleInv, NEW x \in Closers, CloseClear(x)
    PROVE  LifecycleInv'
  <1> USE MaxStartsAssumption, Numbers DEF LifecycleInv, history
  <1>1. /\ closing[x] = "clear" /\ tcpListener' = Nil /\ CloseReturns(x, TRUE)
        /\ UNCHANGED <<after, started, bound, held, tested, crashed, history>>
    BY DEF CloseClear
  <1>2. /\ control' \in {"idle", "listen", "stop", "close", "connsFailed", "closeFailed"}
        /\ up' \in BOOLEAN
        /\ serve' \in [Starts -> {"none", "entering", "accepting", "returning", "done"}]
        /\ closing' \in [Closers -> {"no", "test", "close", "clear"}]
        /\ CloseIsCalled'
        /\ closing'[x] = "no" /\ \A y \in Closers \ {x} : closing'[y] = closing[y]
        /\ x # Control => /\ serve[x] = "returning" /\ serve'[x] = "done"
                          /\ \A k \in Starts \ {x} : serve'[k] = serve[k]
                          /\ control' = control /\ up' = up
        /\ x = Control => /\ control = "close" /\ serve' = serve
    BY <1>1, CloseReturnsTyped
  <1>3. x = Control => /\ control' \in {"listen", "idle"}
                       /\ up' <=> (after = "return")
                       /\ control' = "listen" <=> after = "start"
    BY <1>1 DEF CloseReturns, StopReturns
  <1>4. TypeOK'
    BY <1>1, <1>2 DEF TypeOK
  <1>5. FutureIsBlank'
    BY <1>1, <1>2, <1>3 DEF FutureIsBlank
  <1>6. ASSUME ~overlapped PROVE Ordered'
    <2>1. bound = {}
      BY <1>1, <1>6 DEF OneListener
    <2>2. OneListener'
      BY <1>1, <1>2, <2>1, <1>6 DEF OneListener
    <2>3. OneServe'
      BY <1>1, <1>2, <1>6 DEF OneServe, Live
    <2>4. ClosesOnce'
      BY <1>1, <1>2, <1>3, <1>6, <2>1 DEF ClosesOnce
    <2>5. (control = "idle" /\ up /\ ~refused /\ ~deaf)' => Listening'
      BY <1>1, <1>2, <1>3, <1>6, <2>1 DEF Listening, TypeOK
    <2> QED
      BY <2>2, <2>3, <2>4, <2>5 DEF Ordered
  <1> QED
    BY <1>1, <1>2, <1>3, <1>4, <1>5, <1>6 DEF Ordered

\* serve takes the listener of its own Start or none, and returns only when
\* that listener is closed or Accept has failed.
LEMMA ServeStep ==
    ASSUME LifecycleInv, NEW k \in Starts, Serve(k)
    PROVE  LifecycleInv'
  <1> USE MaxStartsAssumption, Numbers DEF LifecycleInv, history
  <1>1. CASE ServeEnter(k)
    <2>1. TypeOK' /\ CloseIsCalled' /\ FutureIsBlank'
      BY <1>1 DEF ServeEnter, TypeOK, CloseIsCalled, FutureIsBlank
    <2>2. ASSUME ~overlapped PROVE Ordered'
      <3>1. OneListener'
        BY <1>1, <2>2 DEF ServeEnter, OneListener, TypeOK
      <3>2. OneServe'
        BY <1>1, <2>2 DEF ServeEnter, OneServe, OneListener, Live, TypeOK
      <3>3. ClosesOnce'
        BY <1>1, <2>2 DEF ServeEnter, ClosesOnce, TypeOK
      <3>4. (control = "idle" /\ up /\ ~refused /\ ~deaf)' => Listening'
        BY <1>1, <2>2 DEF ServeEnter, Listening, TypeOK
      <3> QED
        BY <3>1, <3>2, <3>3, <3>4 DEF Ordered
    <2> QED
      BY <1>1, <2>1, <2>2 DEF ServeEnter, Ordered
  <1>2. CASE AcceptError(k)
    <2>1. TypeOK' /\ CloseIsCalled' /\ FutureIsBlank'
      BY <1>2 DEF AcceptError, TypeOK, CloseIsCalled, FutureIsBlank
    <2>2. ASSUME ~overlapped PROVE Ordered'
      <3>1. OneListener'
        BY <1>2, <2>2 DEF AcceptError, OneListener, TypeOK
      <3>2. OneServe'
        <4>1. serve[k] = "accepting" /\ held[k] = k /\ tcpListener \in {Nil, k}
          BY <1>2, <2>2 DEF AcceptError, OneServe, Live
        <4>2. ~deaf' => bound = {}
          <5>1. ~deaf' => k \notin bound
            BY <1>2, <4>1 DEF AcceptError, TypeOK
          <5>2. \A l \in bound : l = k
            BY <2>2, <4>1 DEF OneListener, TypeOK
          <5> QED
            BY <5>1, <5>2
        <4>3. /\ \A j \in Starts : serve'[j] = (IF j = k THEN "returning" ELSE serve[j])
              /\ bound' = bound /\ held' = held /\ tcpListener' = tcpListener
              /\ deaf => deaf'
          BY <1>2 DEF AcceptError, TypeOK
        <4>4. \A j \in Starts : Live(j)' <=> Live(j)
          BY <4>1, <4>3 DEF Live
        <4> QED
          BY <2>2, <4>2, <4>3, <4>4 DEF OneServe
      <3>3. ClosesOnce'
        BY <1>2, <2>2 DEF AcceptError, ClosesOnce, TypeOK
      <3>4. (control = "idle" /\ up /\ ~refused /\ ~deaf)' => Listening'
        BY <1>2, <2>2 DEF AcceptError, Listening, OneServe, Live, TypeOK
      <3> QED
        BY <3>1, <3>2, <3>3, <3>4 DEF Ordered
    <2> QED
      BY <1>2, <2>1, <2>2 DEF AcceptError, Ordered
  <1> QED
    BY <1>1, <1>2 DEF Serve

-----------------------------------------------------------------------------
\* LifecycleInv is inductive: it is an invariant for any number of starts,
\* whatever fails.
THEOREM LifecycleInvariant == Spec => []LifecycleInv
  <1>1. LifecycleInv /\ [Next]_vars => LifecycleInv'
    BY CallsStep, ListenStep, ListenErrorStep, StopConnsStep, CloseTestStep, CloseSocketStep,
       CloseClearStep, ServeStep DEF Next, Close
  <1> QED
    BY <1>1, InitLifecycle, PTL DEF Spec

\* After a Start or Restart that returned nil the server listens, as long as
\* no Start overlapped an earlier serve and neither Listen nor Accept failed.
THEOREM RunningServerListens == Spec => []RunningListens
  <1>1. LifecycleInv => RunningListens
    BY DEF LifecycleInv, RunningListens, Running
  <1> QED
    BY <1>1, LifecycleInvariant, PTL

\* After a Stop that returned nil no listener is open, whatever has failed, as
\* long as no Start overlapped an earlier serve.
THEOREM StoppedServerIsClosed == Spec => []StoppedIsClosed
  <1>1. LifecycleInv => StoppedIsClosed
    BY DEF LifecycleInv, OneListener, StoppedIsClosed, Stopped
  <1> QED
    BY <1>1, LifecycleInvariant, PTL

\* Stop fails to close the listener only after a failure of Accept.
THEOREM CloseFailureIsExplained == Spec => []CloseFailsOnlyWhenDeaf
  <1>1. LifecycleInv => CloseFailsOnlyWhenDeaf
    BY DEF LifecycleInv, ClosesOnce, CloseFailsOnlyWhenDeaf
  <1> QED
    BY <1>1, LifecycleInvariant, PTL
=============================================================================
