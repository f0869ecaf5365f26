------------------------- MODULE HttpListenerProofs -------------------------
(***************************************************************************)
(* Proofs about HttpListener: for any finite set of requests of any kind,  *)
(* no session outlives `done`, and stop() cuts off no request before its   *)
(* drain is over.                                                          *)
(***************************************************************************)
EXTENDS HttpListener, FiniteSetTheorems, TLAPS

-----------------------------------------------------------------------------
(* The inductive invariant. *)

Typed ==
  /\ state \in {"idle", "starting", "started", "stopping", "stopped"}
  /\ stopPc \in {"none", "drain", "collect", "close", "wait", "over"}
  /\ timedOut \in BOOLEAN
  /\ inFlight \in Nat
  /\ released \in [Requests -> BOOLEAN]
  /\ conn \in [Requests -> {"none", "open", "answered", "gone"}]
  /\ job \in [Requests -> {"none", "body", "connect", "work", "stream", "done"}]
  /\ to \in [Requests -> Requests]
  /\ sess \in [Requests -> {"none", "open", "dropped", "closed"}]
  /\ sessions \subseteq Requests /\ pendingSessions \subseteq Requests
  /\ closing \subseteq Requests

\* The counter of trackRequest counts the requests that have not settled, which
\* are all finite ones whose response is still open.
Counted == inFlight = Cardinality(Unsettled(Requests))

Tracked ==
  \A r \in Requests :
    /\ conn[r] = "none" => released[r]
    /\ Finite(r) /\ Unanswered(r) => ~released[r]

\* Past the drain nothing is counted, unless its timer ended it.
Drained ==
  stopPc \in {"collect", "close", "wait", "over"} /\ ~timedOut => inFlight = 0

\* Where stop() may be in each state.
Life ==
  /\ state \in {"idle", "starting", "started"} => stopPc = "none"
  /\ state = "stopping" => stopPc \in {"drain", "collect", "close", "wait"}
  /\ state = "stopped" => stopPc \in {"none", "over"}
  /\ stopPc = "none" /\ state # "started" => \A s \in Requests : sess[s] # "open"

\* Every open session is known to somebody who will close it.
Owned ==
  \A s \in Requests : sess[s] = "open" =>
    /\ stopPc \in {"none", "drain", "collect"} => s \in sessions \cup pendingSessions
    /\ stopPc = "close" => s \in closing
    /\ stopPc \notin {"wait", "over"}

ListenerInv == Typed /\ Counted /\ Tracked /\ Drained /\ Life /\ Owned

-----------------------------------------------------------------------------
\* The counter is what it counts, and zero only when nothing is left.
LEMMA CountIsNat ==
  ASSUME Typed
  PROVE  /\ IsFiniteSet(Unsettled(Requests))
         /\ Cardinality(Unsettled(Requests)) \in Nat
         /\ Cardinality(Unsettled(Requests)) = 0 <=> Unsettled(Requests) = {}
<1>1. Unsettled(Requests) \in SUBSET Requests
  BY DEF Unsettled
<1>2. IsFiniteSet(Unsettled(Requests))
  BY <1>1, RequestsAssumption, FS_Subset
<1> QED BY <1>2, FS_CardinalityType, FS_EmptySet

\* A release settles exactly the requests it is for, and ends a drain that has
\* nothing left to wait for.
LEMMA ReleaseCounts ==
  ASSUME Typed, Counted, NEW R \in SUBSET Requests,
         released' = [r \in Requests |-> released[r] \/ r \in R],
         inFlight' = inFlight - Cardinality(Unsettled(R))
  PROVE  /\ released' \in [Requests -> BOOLEAN] /\ Counted'
         /\ inFlight' \in Nat /\ (inFlight = 0 => inFlight' = 0)
<1> DEFINE U == Unsettled(Requests)
<1>1. released' \in [Requests -> BOOLEAN]
  BY DEF Typed
<1>2. IsFiniteSet(U) /\ Cardinality(U) \in Nat
  BY CountIsNat
<1>3. Unsettled(R) = U \cap R /\ Unsettled(R) \in SUBSET U
  BY DEF Unsettled
<1>4. U' = U \ R
  BY DEF Unsettled, Typed
<1>5. Cardinality(U \ R) = Cardinality(U) - Cardinality(U \cap R) /\ IsFiniteSet(U \ R)
  BY <1>2, FS_Difference
<1>6. Cardinality(U \ R) \in Nat /\ Cardinality(Unsettled(R)) \in Nat
  BY <1>2, <1>3, <1>5, FS_CardinalityType, FS_Subset
<1>7. Cardinality(U') = Cardinality(U \ R)
  BY <1>4
<1>8. Counted'
  BY <1>3, <1>5, <1>7 DEF Counted
<1>9. inFlight' \in Nat
  BY <1>6, <1>7, <1>8 DEF Counted
<1> QED BY <1>1, <1>2, <1>3, <1>5, <1>6, <1>8, <1>9 DEF Counted

LEMMA ReleaseKeeps ==
  ASSUME ListenerInv, NEW R \in SUBSET Requests, Release(R), timedOut' = timedOut
  PROVE  /\ released' \in [Requests -> BOOLEAN] /\ inFlight' \in Nat
         /\ Counted' /\ Drained'
         /\ stopPc' = stopPc \/ (stopPc = "drain" /\ stopPc' = "collect")
         /\ stopPc' \in {"none", "drain", "collect", "close", "wait", "over"}
<1>1. /\ released' \in [Requests -> BOOLEAN] /\ Counted'
      /\ inFlight' \in Nat /\ (inFlight = 0 => inFlight' = 0)
  BY ReleaseCounts DEF ListenerInv, Release
<1> QED BY <1>1 DEF ListenerInv, Release, Drained, Typed

\* What nobody has touched stays counted.
LEMMA Untouched ==
  ASSUME Typed, Counted, UNCHANGED trackVars
  PROVE  Counted'
BY DEF Counted, Unsettled, trackVars

-----------------------------------------------------------------------------
LEMMA InitHolds == Init => ListenerInv
<1> SUFFICES ASSUME Init PROVE ListenerInv
  OBVIOUS
<1>1. Typed
  BY DEF Init, Typed
<1>2. Unsettled(Requests) = {}
  BY DEF Init, Unsettled
<1>3. Counted
  BY <1>2, FS_EmptySet DEF Init, Counted
<1> QED BY <1>1, <1>3 DEF Init, ListenerInv, Tracked, Drained, Life, Owned, Unanswered

\* Steps of start() and of Node's listener.
LEMMA ListenerKeeps ==
  ASSUME ListenerInv,
         Start \/ Bind \/ StartStep \/ StopIdle \/ CloseEvent \/ AllClosed \/ StopEnd \/ Stop
  PROVE  ListenerInv'
<1> USE DEF ListenerInv, reqVars, trackVars, sessVars, lifeVars, netVars
<1>1. Counted'
  BY Untouched DEF Start, Bind, BindOk, BindFails, StartStep, Started, StoppedDuringStart,
     StartThrows, StopIdle, CloseEvent, AllClosed, StopEnd, Stop
<1>2. CASE Start \/ Bind \/ StartStep \/ StopIdle \/ CloseEvent
  BY <1>1, <1>2 DEF Start, Bind, BindOk, BindFails, StartStep, Started, StoppedDuringStart,
     StartThrows, StopIdle, CloseEvent, Typed, Tracked, Drained, Life, Owned, Unanswered
<1>3. CASE AllClosed \/ StopEnd \/ Stop
  BY <1>1, <1>3 DEF AllClosed, StopEnd, Stop, Typed, Tracked, Drained, Life, Owned, Unanswered
<1> QED BY <1>2, <1>3

\* A request arrives: only in "started", before any stop().
LEMMA ArriveKeeps ==
  ASSUME ListenerInv, NEW r \in Requests, Arrive(r)
  PROVE  ListenerInv'
<1> USE DEF ListenerInv, sessVars, lifeVars, netVars
<1>1. PICK s \in Requests :
        /\ to' = [to EXCEPT ![r] = s]
        /\ \/ /\ ~Serving /\ UNCHANGED trackVars
              /\ conn' = [conn EXCEPT ![r] = "answered"] /\ job' = [job EXCEPT ![r] = "done"]
           \/ /\ Serving
              /\ conn' = [conn EXCEPT ![r] =
                   IF KindOf[r] = "stream" /\ s \notin sessions THEN "answered" ELSE "open"]
              /\ job' = [job EXCEPT ![r] =
                   IF KindOf[r] # "stream" THEN "body"
                   ELSE IF s \in sessions THEN "stream" ELSE "done"]
              /\ released' = [released EXCEPT ![r] = ~Finite(r)]
              /\ inFlight' = IF Finite(r) THEN inFlight + 1 ELSE inFlight
  BY DEF Arrive
<1>2. conn[r] = "none" /\ released[r]
  BY DEF Arrive, Tracked
<1>3. Counted' /\ inFlight' \in Nat
  <2>1. CASE ~Serving
    BY <1>1, <2>1, Untouched DEF trackVars, Typed
  <2>2. CASE Serving /\ ~Finite(r)
    <3>1. released' = [released EXCEPT ![r] = TRUE] /\ inFlight' = inFlight
      BY <1>1, <2>2 DEF Finite
    <3>2. Unsettled(Requests)' = Unsettled(Requests)
      BY <1>2, <3>1 DEF Unsettled, Typed
    <3> QED BY <3>1, <3>2 DEF Counted, Typed
  <2>3. CASE Serving /\ Finite(r)
    <3>1. released' = [released EXCEPT ![r] = FALSE] /\ inFlight' = inFlight + 1
      BY <1>1, <2>3 DEF Finite
    <3>2. Unsettled(Requests)' = Unsettled(Requests) \cup {r} /\ r \notin Unsettled(Requests)
      BY <1>2, <3>1 DEF Unsettled, Typed
    <3>3. Cardinality(Unsettled(Requests)') = Cardinality(Unsettled(Requests)) + 1
      BY <3>2, CountIsNat, FS_AddElement
    <3> QED BY <3>1, <3>3 DEF Counted, Typed
  <2> QED BY <2>1, <2>2, <2>3
<1>4. UNCHANGED <<sess, sessions, pendingSessions, closing, state, stopPc, timedOut>>
  BY DEF Arrive
<1>5. Typed'
  <2>1. CASE ~Serving
    BY <1>1, <1>3, <1>4, <2>1 DEF Typed, trackVars
  <2>2. CASE Serving
    <3>1. /\ \E x \in {"answered", "open"} : conn' = [conn EXCEPT ![r] = x]
          /\ \E x \in {"body", "stream", "done"} : job' = [job EXCEPT ![r] = x]
          /\ \E x \in BOOLEAN : released' = [released EXCEPT ![r] = x]
          /\ \E x \in Requests : to' = [to EXCEPT ![r] = x]
      BY <1>1, <2>2 DEF Finite
    <3>2. /\ conn' \in [Requests -> {"none", "open", "answered", "gone"}]
          /\ job' \in [Requests -> {"none", "body", "connect", "work", "stream", "done"}]
          /\ released' \in [Requests -> BOOLEAN]
          /\ to' \in [Requests -> Requests]
      BY <3>1 DEF Typed
    <3> QED BY <1>3, <1>4, <3>2 DEF Typed
  <2> QED BY <2>1, <2>2
<1>6. Tracked'
  <2>1. CASE ~Serving
    BY <1>1, <1>2, <2>1 DEF Tracked, Unanswered, Typed, Finite, trackVars
  <2>2. CASE Serving
    <3>1. released' = [released EXCEPT ![r] = ~Finite(r)] /\ conn'[r] # "none"
          /\ \A q \in Requests \ {r} : conn'[q] = conn[q]
      BY <1>1, <2>2 DEF Typed
    <3>2. \A q \in Requests \ {r} : released'[q] = released[q]
      BY <3>1 DEF Typed
    <3>3. released'[r] = ~Finite(r)
      BY <3>1 DEF Typed
    <3> QED BY <3>1, <3>2, <3>3 DEF Tracked, Unanswered, Finite
  <2> QED BY <2>1, <2>2
<1>7. Drained'
  BY <1>1, <1>4 DEF Drained, Life, Serving, trackVars
<1> QED BY <1>3, <1>4, <1>5, <1>6, <1>7 DEF Life, Owned

-----------------------------------------------------------------------------
\* A handler or a socket that ends releases what it has answered.
LEMMA HandlerKeeps ==
  ASSUME ListenerInv, NEW r \in Requests, Handler(r) \/ SocketGone(r)
  PROVE  ListenerInv'
<1> USE DEF ListenerInv, sessVars, lifeVars, netVars
<1>1. ASSUME Answer(r), UNCHANGED <<timedOut, to>>
      PROVE  /\ Counted' /\ Drained' /\ Tracked' /\ inFlight' \in Nat
             /\ released' \in [Requests -> BOOLEAN]
             /\ conn' \in [Requests -> {"none", "open", "answered", "gone"}]
             /\ job' \in [Requests -> {"none", "body", "connect", "work", "stream", "done"}]
             /\ stopPc' = stopPc \/ (stopPc = "drain" /\ stopPc' = "collect")
             /\ stopPc' \in {"none", "drain", "collect", "close", "wait", "over"}
  <2>1. PICK R \in SUBSET Requests :
          Release(R) /\ R = IF conn[r] = "open" THEN {r} ELSE {}
    BY <1>1 DEF Answer
  <2>2. Tracked'
    BY <1>1, <2>1 DEF Answer, Release, Tracked, Unanswered, Typed, Finite
  <2> QED BY <1>1, <2>1, <2>2, ReleaseKeeps DEF Answer, Typed
<1>2. CASE Route(r)
  <2>1. CASE Answer(r) /\ UNCHANGED sessVars
    BY <1>1, <1>2, <2>1 DEF Route, Typed, Life, Owned
  <2>2. CASE ~Answer(r) \/ ~UNCHANGED sessVars
    <3>1. UNCHANGED trackVars /\ UNCHANGED <<conn, stopPc, state, timedOut, to, closing>>
      BY <1>2, <2>2 DEF Route
    <3>2. Counted'
      BY <3>1, Untouched
    <3> QED BY <1>2, <2>2, <3>1, <3>2 DEF Route, Typed, Tracked, Unanswered, Drained, Life,
               Owned, Serving, trackVars
  <2> QED BY <2>1, <2>2
<1>3. CASE Initialized(r)
  <2>1. Counted'
    BY <1>3, Untouched DEF Initialized
  <2> QED BY <1>3, <2>1 DEF Initialized, Typed, Tracked, Unanswered, Drained, Life, Owned, trackVars
<1>4. CASE ConnectFails(r)
  BY <1>1, <1>4 DEF ConnectFails, Typed, Life, Owned
<1>5. CASE Finish(r) /\ KindOf[r] # "delete"
  BY <1>1, <1>5 DEF Finish, Typed, Life, Owned
<1>6. CASE Finish(r) /\ KindOf[r] = "delete"
  <2>1. Release({r}) /\ UNCHANGED <<state, closing, timedOut, to>>
    BY <1>6 DEF Finish
  <2>2. /\ released' \in [Requests -> BOOLEAN] /\ inFlight' \in Nat
        /\ Counted' /\ Drained'
        /\ stopPc' = stopPc \/ (stopPc = "drain" /\ stopPc' = "collect")
        /\ stopPc' \in {"none", "drain", "collect", "close", "wait", "over"}
    BY <2>1, ReleaseKeeps
  <2>3. /\ conn' \in [Requests -> {"none", "open", "answered", "gone"}]
        /\ job' \in [Requests -> {"none", "body", "connect", "work", "stream", "done"}]
        /\ \A q \in Requests : (conn'[q] = "open" => q # r /\ conn[q] = "open")
                               /\ (conn'[q] = "none" => conn[q] = "none")
    <3>1. conn' = [q \in Requests |->
            IF q \in StreamsOf(to[r]) THEN "gone"
            ELSE IF q = r /\ conn[q] = "open" THEN "answered" ELSE conn[q]]
      BY <1>6 DEF Finish
    <3>2. job' = [q \in Requests |->
            IF q = r \/ q \in StreamsOf(to[r]) THEN "done" ELSE job[q]]
      BY <1>6 DEF Finish
    <3>3. \A q \in StreamsOf(to[r]) : q # r
      BY <1>6 DEF Finish, StreamsOf
    <3> QED BY <3>1, <3>2, <3>3 DEF Typed
  <2>4. Tracked'
    BY <2>1, <2>3 DEF Release, Tracked, Unanswered, Finite
  <2>5. to[r] \in Requests
    BY DEF Typed
  <2>6. /\ sess' = [sess EXCEPT ![to[r]] = "closed"]
        /\ sessions' = sessions \ {to[r]} /\ pendingSessions' = pendingSessions \ {to[r]}
    BY <1>6 DEF Finish
  <2>7. Typed'
    BY <2>1, <2>2, <2>3, <2>5, <2>6 DEF Typed
  <2>8. Life' /\ Owned'
    BY <2>1, <2>2, <2>5, <2>6 DEF Typed, Life, Owned
  <2> QED BY <2>2, <2>4, <2>7, <2>8
<1>7. CASE SocketGone(r)
  <2>1. Release({r}) /\ Cut({r}) /\ UNCHANGED <<state, closing, timedOut, to, sessVars>>
    BY <1>7 DEF SocketGone
  <2>2. Tracked'
    BY <2>1 DEF Release, Cut, Tracked, Unanswered, Typed, Finite
  <2> QED BY <2>1, <2>2, ReleaseKeeps DEF Cut, Typed, Life, Owned
<1> QED BY <1>2, <1>3, <1>4, <1>5, <1>6, <1>7 DEF Handler

-----------------------------------------------------------------------------
\* The steps of a pending stop.
LEMMA StopKeeps ==
  ASSUME ListenerInv,
         DrainTimeout \/ Collect \/ CloseTimeout \/ \E s \in Requests : CloseSession(s)
  PROVE  ListenerInv'
<1> USE DEF ListenerInv, sessVars, lifeVars, netVars
<1>1. CASE DrainTimeout
  <2>1. released' = [r \in Requests |-> released[r] \/ r \in Requests]
    BY <1>1 DEF DrainTimeout
  <2>2. /\ released' \in [Requests -> BOOLEAN] /\ Counted' /\ inFlight' \in Nat
    BY <1>1, <2>1, ReleaseCounts DEF DrainTimeout
  <2>3. Cut(Requests) /\ stopPc = "drain"
    BY <1>1 DEF DrainTimeout, DrainTimer
  <2>4. Tracked'
    BY <1>1, <2>3 DEF DrainTimeout, Cut, Tracked, Unanswered, Typed
  <2> QED BY <1>1, <2>2, <2>3, <2>4 DEF DrainTimeout, Cut, Typed, Drained, Life, Owned
<1>2. CASE Collect
  <2>1. Counted'
    BY <1>2, Untouched DEF Collect
  <2> QED BY <1>2, <2>1 DEF Collect, AllSessions, Typed, Tracked, Unanswered, Drained, Life,
             Owned, trackVars, reqVars
<1>3. CASE CloseTimeout
  <2>1. Release(Requests) /\ Cut(Requests) /\ UNCHANGED <<state, closing, timedOut, to, sessVars>>
    BY <1>3 DEF CloseTimeout
  <2>2. Tracked'
    BY <2>1 DEF Release, Cut, Tracked, Unanswered, Typed, Finite
  <2> QED BY <2>1, <2>2, ReleaseKeeps DEF Cut, Typed, Life, Owned
<1>4. ASSUME NEW s \in Requests, CloseSession(s)
      PROVE  ListenerInv'
  <2> DEFINE C == {r \in Requests : to[r] = s /\ job[r] \in {"stream", "work", "connect"}}
             R == {r \in Requests : to[r] = s /\ job[r] \in {"work", "connect"}}
  <2>1. Cut(C) /\ Release(R) /\ R \in SUBSET C /\ R \in SUBSET Requests
    BY <1>4 DEF CloseSession
  <2> HIDE DEF C, R
  <2>2. Tracked'
    BY <2>1 DEF Release, Cut, Tracked, Unanswered, Typed, Finite
  <2>3. /\ conn' \in [Requests -> {"none", "open", "answered", "gone"}]
        /\ job' \in [Requests -> {"none", "body", "connect", "work", "stream", "done"}]
    BY <2>1 DEF Cut, Typed
  <2>4. /\ sess' = [sess EXCEPT ![s] = "closed"] /\ closing' = closing \ {s}
        /\ sessions' = sessions \ {s} /\ pendingSessions' = pendingSessions \ {s}
        /\ stopPc = "close" /\ UNCHANGED <<state, timedOut, to>>
    BY <1>4 DEF CloseSession
  <2>5. /\ released' \in [Requests -> BOOLEAN] /\ inFlight' \in Nat
        /\ Counted' /\ Drained' /\ stopPc' = "close"
    BY <2>1, <2>4, ReleaseKeeps
  <2>6. Typed'
    BY <2>3, <2>4, <2>5 DEF Typed
  <2>7. Life' /\ Owned'
    BY <2>4, <2>5 DEF Typed, Life, Owned
  <2> QED BY <2>2, <2>5, <2>6, <2>7
<1> QED BY <1>1, <1>2, <1>3, <1>4

LEMMA Inductive == ListenerInv /\ [Next]_vars => ListenerInv'
<1> SUFFICES ASSUME ListenerInv, [Next]_vars PROVE ListenerInv'
  OBVIOUS
<1>1. CASE UNCHANGED vars
  BY <1>1 DEF vars, netVars, lifeVars, trackVars, reqVars, sessVars, ListenerInv, Typed, Counted,
     Unsettled, Tracked, Unanswered, Drained, Life, Owned
<1>2. CASE Next
  BY <1>2, ListenerKeeps, ArriveKeeps, HandlerKeeps, StopKeeps DEF Next, StopStep
<1> QED BY <1>1, <1>2

-----------------------------------------------------------------------------
\* The inductive invariant holds in every reachable state: the counter of
\* trackRequest is right, and every open session is known to whoever closes it.
THEOREM ListenerInvariant == Spec => []ListenerInv
<1> QED BY InitHolds, Inductive, PTL DEF Spec

\* When `done` resolves no session is open, whatever was being opened while
\* stop() took its snapshot.
THEOREM SessionsEnd == Spec => []NoSessionOutlivesDone
<1>1. ListenerInv => NoSessionOutlivesDone
  BY DEF ListenerInv, Life, Owned, NoSessionOutlivesDone
<1> QED BY <1>1, ListenerInvariant, PTL

\* Sessions are taken down only after every finite request was answered or left,
\* or after the drain timeout.
THEOREM DrainComesFirst == Spec => []DrainedFirst
<1>1. ListenerInv => DrainedFirst
  <2> SUFFICES ASSUME ListenerInv, stopPc \in {"close", "wait", "over"}, ~timedOut,
                      NEW r \in Requests, Finite(r), Unanswered(r)
               PROVE  FALSE
    BY DEF DrainedFirst
  <2>1. Unsettled(Requests) = {}
    BY CountIsNat DEF ListenerInv, Drained, Counted
  <2> QED BY <2>1 DEF ListenerInv, Tracked, Unsettled
<1> QED BY <1>1, ListenerInvariant, PTL

-----------------------------------------------------------------------------
(* Node's listener. *)

\* What Node has reported, where start() is, and what is left of the socket.
NetInv ==
  /\ listener \in {"none", "binding", "listening", "closed"}
  /\ listenOn \in {"waiting", "ok", "failed", "closed"}
  /\ startPc \in {"none", "bind", "await", "returned", "threw"}
  /\ closeAsked = (state \in {"stopping", "stopped"} /\ stopPc # "none")
  /\ startPc = "none" <=> listener = "none"
  /\ state = "idle" => startPc = "none"
  /\ state = "starting" => startPc = "bind"
  /\ state = "started" <=> startPc = "returned" /\ ~closeAsked
  /\ startPc = "returned" => listenOn = "ok"
  /\ listenOn = "closed" => closeAsked
  /\ listenOn = "failed" => listener = "closed"
  /\ listenOn = "ok" => listener \in {"listening", "closed"}
  /\ listenOn = "ok" /\ startPc \in {"await", "threw"} => listener = "closed"
  /\ startPc = "returned" /\ closeAsked => listener = "closed"
  /\ startPc \notin {"none", "bind"} => listenOn # "waiting"

LEMMA NetStep ==
  ASSUME ListenerInv, NetInv, [Next]_vars
  PROVE  NetInv'
<1> USE DEF ListenerInv, Typed, Life, NetInv
<1>1. ASSUME UNCHANGED netVars, UNCHANGED <<state, startPc>>,
             stopPc' = "none" <=> stopPc = "none"
      PROVE  NetInv'
  BY <1>1 DEF netVars
<1>2. ASSUME NEW R, Release(R)
      PROVE  stopPc' = "none" <=> stopPc = "none"
  BY <1>2 DEF Release
<1>3. ASSUME NEW r \in Requests, Arrive(r) \/ Handler(r) \/ SocketGone(r)
      PROVE  NetInv'
  BY <1>1, <1>2, <1>3 DEF Arrive, Handler, Route, Answer, Initialized, ConnectFails, Finish,
    SocketGone, lifeVars
<1>4. CASE StopStep \/ CloseTimeout
  BY <1>1, <1>2, <1>4 DEF StopStep, DrainTimeout, DrainTimer, Collect, CloseSession, AllClosed,
    CloseTimeout, StopEnd, netVars
<1>5. CASE Start
  BY <1>5 DEF Start
<1>6. CASE StopIdle
  BY <1>6 DEF StopIdle, netVars
<1>7. CASE Stop
  BY <1>7 DEF Stop, ClosedNow
<1>8. CASE Started
  BY <1>8 DEF Started, netVars
<1>9. CASE StoppedDuringStart
  BY <1>9 DEF StoppedDuringStart, ClosedNow
<1>10. CASE StartThrows
  BY <1>10 DEF StartThrows, netVars
<1>11. CASE Bind \/ CloseEvent
  BY <1>11 DEF Bind, BindOk, BindFails, CloseEvent, lifeVars
<1>12. CASE UNCHANGED vars
  BY <1>12 DEF vars, netVars, lifeVars
<1> QED BY <1>3, <1>4, <1>5, <1>6, <1>7, <1>8, <1>9, <1>10, <1>11, <1>12 DEF Next, StartStep

LEMMA NetInvariant == Spec => []NetInv
<1>1. Init => NetInv
  BY DEF Init, NetInv
<1>2. ListenerInv /\ NetInv /\ [Next]_vars => NetInv'
  BY NetStep
<1> QED BY <1>1, <1>2, ListenerInvariant, PTL DEF Spec

\* The types of the listener, the requests and the sessions, and a counter that
\* never exceeds the number of requests nor falls below zero.
THEOREM TypeCorrect == Spec => []TypeOK
<1>1. ListenerInv /\ NetInv => TypeOK
  <2> SUFFICES ASSUME ListenerInv, NetInv PROVE TypeOK
    OBVIOUS
  <2>1. Unsettled(Requests) \subseteq Requests
    BY DEF Unsettled
  <2>2. Cardinality(Unsettled(Requests)) <= Cardinality(Requests) /\ Cardinality(Requests) \in Nat
    BY <2>1, RequestsAssumption, FS_Subset, FS_CardinalityType
  <2>3. inFlight \in 0 .. Cardinality(Requests)
    BY <2>2, CountIsNat DEF ListenerInv, Counted
  <2> QED BY <2>3 DEF ListenerInv, Typed, NetInv, TypeOK
<1> QED BY <1>1, ListenerInvariant, NetInvariant, PTL

\* SocketGoneInTheEnd: after stop() and start() no socket is left that listens
\* or will, unless the 'close' event overtook the bind.
THEOREM SocketEnds == Spec => []SocketGoneInTheEnd
<1>1. NetInv => SocketGoneInTheEnd
  BY DEF NetInv, SocketGoneInTheEnd
<1> QED BY <1>1, NetInvariant, PTL
=============================================================================
