---------------------------- MODULE HttpListener ----------------------------
(***************************************************************************)
(* packages/mcp-gateway/src/downstream-server/http.ts: the loopback HTTP   *)
(* listener of the daemon, its MCP sessions, and its shutdown: start()     *)
(* against stop(), the drain of requests under way, the sessions that are  *)
(* still being opened, and the end of the listening socket.                *)
(*                                                                         *)
(* A request is one member of Requests.  An "init" request opens a         *)
(* session, which is named after it.  The socket of a request (conn) and   *)
(* the handler that works on it (job) end independently of each other: a   *)
(* handler whose client has left goes on in memory.                        *)
(***************************************************************************)
EXTENDS Integers, FiniteSets

CONSTANTS
  Requests,  \* the requests that may arrive
  KindOf     \* [Requests -> Kinds]

\* POST initialize, POST to a session, DELETE and GET (an SSE stream) of one.
Kinds == {"init", "call", "delete", "stream"}

ASSUME KindAssumption == KindOf \in [Requests -> Kinds]
ASSUME RequestsAssumption == IsFiniteSet(Requests)

VARIABLES
  state,     \* LifecycleState
  listener,  \* the Node listener: its socket is none, binding, listening, closed
  listenOn,  \* what the promise of listenOn settled with
  startPc,   \* where start() is
  stopPc,    \* where the pendingStop of stop() is
  closing,   \* allSessions: what is left of the snapshot that stop() closes
  closeAsked,\* listener.close() has been called
  closeFired,\* its callback (the 'close' event) has run
  timedOut,  \* the drain ended by its timer
  inFlight,  \* the counter of trackRequest
  released,  \* released[r]: `settled` of r's trackRequest (or r is not tracked)
  conn,      \* conn[r]: the socket of r
  job,       \* job[r]: the handler of r
  to,        \* to[r]: the session r names
  sess,      \* sess[s]: the transport of session s
  sessions, pendingSessions

netVars == <<listener, listenOn, closeAsked, closeFired>>
lifeVars == <<state, startPc, stopPc, closing, timedOut>>
trackVars == <<inFlight, released>>
reqVars == <<conn, job, to>>
sessVars == <<sess, sessions, pendingSessions>>
vars == <<netVars, lifeVars, trackVars, reqVars, sessVars>>

Finite(r) == KindOf[r] # "stream"
Unanswered(r) == conn[r] = "open"

Init ==
  /\ state = "idle" /\ listener = "none" /\ listenOn = "waiting"
  /\ startPc = "none" /\ stopPc = "none" /\ closing = {}
  /\ closeAsked = FALSE /\ closeFired = FALSE /\ timedOut = FALSE
  /\ inFlight = 0
  /\ released = [r \in Requests |-> TRUE]
  /\ conn = [r \in Requests |-> "none"]
  /\ job = [r \in Requests |-> "none"]
  /\ to = [r \in Requests |-> r]
  /\ sess = [r \in Requests |-> "none"]
  /\ sessions = {} /\ pendingSessions = {}

-----------------------------------------------------------------------------
(* trackRequest *)

\* Mutant: 'finish' and 'close' both count.
ReleaseTwice(R) == R

\* The requests of R that have not settled yet.
Unsettled(R) == {r \in R : ~released[r]}

\* release of every request in R, once each; the last one ends the drain.
Release(R) ==
  /\ released' = [r \in Requests |-> released[r] \/ r \in R]
  /\ inFlight' = inFlight - Cardinality(Unsettled(R))
  /\ stopPc' = IF stopPc = "drain" /\ inFlight' = 0 THEN "collect" ELSE stopPc

\* Sockets of R are gone: their response emits 'close', an unread body fails.
Cut(R) ==
  /\ conn' = [r \in Requests |->
       IF r \in R /\ conn[r] # "none" THEN "gone" ELSE conn[r]]
  /\ job' = [r \in Requests |->
       IF r \in R /\ job[r] \in {"body", "stream"} THEN "done" ELSE job[r]]

\* A response is sent: 'finish'.
Answer(r) ==
  /\ conn' = [conn EXCEPT ![r] = IF @ = "open" THEN "answered" ELSE @]
  /\ job' = [job EXCEPT ![r] = "done"]
  /\ Release(IF conn[r] = "open" THEN {r} ELSE {})

-----------------------------------------------------------------------------
(* handle, routeMcpRequest *)

Serving == state = "started"

\* A request on a new connection or an open keep-alive socket.  It is refused
\* outside "started" (403 before the port is known, 503 in a shutdown);
\* trackRequest counts the finite ones.
Arrive(r) ==
  /\ conn[r] = "none"
  /\ listener = "listening" \/ \E q \in Requests : conn[q] = "answered"
  /\ \E s \in Requests :
       /\ KindOf[r] = "init" => s = r
       /\ KindOf[s] = "init"
       /\ to' = [to EXCEPT ![r] = s]
       /\ IF ~Serving
          THEN /\ conn' = [conn EXCEPT ![r] = "answered"]
               /\ job' = [job EXCEPT ![r] = "done"]
               /\ UNCHANGED trackVars
          ELSE /\ conn' = [conn EXCEPT ![r] =
                    IF KindOf[r] = "stream" /\ s \notin sessions THEN "answered" ELSE "open"]
               /\ job' = [job EXCEPT ![r] =
                    IF KindOf[r] # "stream" THEN "body"
                    ELSE IF s \in sessions THEN "stream" ELSE "done"]
               /\ released' = [released EXCEPT ![r] = ~Finite(r)]
               /\ inFlight' = IF Finite(r) THEN inFlight + 1 ELSE inFlight
  /\ UNCHANGED <<netVars, lifeVars, sessVars>>

\* readJsonBody is over: a bad body, an unknown session or a shutdown is
\* answered; an initialize request mints a session and connects its server.
Route(r) ==
  /\ job[r] = "body"
  /\ \/ /\ Answer(r)                                       \* 400, 404, 413
        /\ KindOf[r] = "delete" => to[r] \notin sessions
        /\ UNCHANGED sessVars
     \/ /\ KindOf[r] \in {"call", "delete"} /\ to[r] \in sessions
        /\ job' = [job EXCEPT ![r] = "work"]
        /\ UNCHANGED <<conn, trackVars, stopPc, sessVars>>
     \/ /\ KindOf[r] = "init" /\ Serving
        /\ pendingSessions' = pendingSessions \cup {r}
        /\ sess' = [sess EXCEPT ![r] = "open"]
        /\ job' = [job EXCEPT ![r] = "connect"]
        /\ UNCHANGED <<conn, trackVars, stopPc, sessions>>
  /\ UNCHANGED <<netVars, state, startPc, closing, timedOut, to>>

\* onsessioninitialized, whatever happened to the transport in the meantime.
Initialized(r) ==
  /\ job[r] = "connect"
  /\ sessions' = sessions \cup {r}
  /\ pendingSessions' = pendingSessions \ {r}
  /\ job' = [job EXCEPT ![r] = "work"]
  /\ UNCHANGED <<netVars, lifeVars, trackVars, conn, to, sess>>

\* server.connect rejects: 500 and the session is dropped, with a transport that
\* has taken no request and that nothing closes.
ConnectFails(r) ==
  /\ job[r] = "connect"
  /\ pendingSessions' = pendingSessions \ {r}
  /\ sess' = [sess EXCEPT ![r] = "dropped"]
  /\ Answer(r)
  /\ UNCHANGED <<netVars, state, startPc, closing, timedOut, to, sessions>>

\* The sockets that end with the transport of session s.
StreamsOf(s) == {r \in Requests : to[r] = s /\ job[r] = "stream"}

\* The handler answers; a DELETE closes its session's transport (onclose).
Finish(r) ==
  /\ job[r] = "work"
  /\ IF KindOf[r] = "delete"
     THEN /\ sess' = [sess EXCEPT ![to[r]] = "closed"]
          /\ sessions' = sessions \ {to[r]}
          /\ pendingSessions' = pendingSessions \ {to[r]}
          /\ conn' = [q \in Requests |->
               IF q \in StreamsOf(to[r]) THEN "gone"
               ELSE IF q = r /\ conn[q] = "open" THEN "answered" ELSE conn[q]]
          /\ job' = [q \in Requests |->
               IF q = r \/ q \in StreamsOf(to[r]) THEN "done" ELSE job[q]]
          /\ Release({r})
     ELSE Answer(r) /\ UNCHANGED sessVars
  /\ UNCHANGED <<netVars, state, startPc, closing, timedOut, to>>

\* The client leaves, or an idle keep-alive socket ends: 'close'.
SocketGone(r) ==
  /\ conn[r] \in {"open", "answered"}
  /\ Cut({r})
  /\ Release({r})
  /\ UNCHANGED <<netVars, state, startPc, closing, timedOut, to, sessVars>>

-----------------------------------------------------------------------------
(* start *)

\* A second start() throws; the first one starts to bind.
Start ==
  /\ state = "idle"
  /\ state' = "starting" /\ startPc' = "bind" /\ listener' = "binding"
  /\ UNCHANGED <<listenOn, closeAsked, closeFired, stopPc, closing, timedOut,
                 trackVars, reqVars, sessVars>>

\* Node binds in its own time; close() does not cancel it.
BindOk ==
  /\ listener = "binding"
  /\ listener' = "listening"
  /\ listenOn' = IF listenOn = "waiting" THEN "ok" ELSE listenOn
  /\ UNCHANGED <<closeAsked, closeFired, lifeVars, trackVars, reqVars, sessVars>>

BindFails ==
  /\ listener = "binding"
  /\ listener' = "closed"
  /\ listenOn' = IF listenOn = "waiting" THEN "failed" ELSE listenOn
  /\ UNCHANGED <<closeAsked, closeFired, lifeVars, trackVars, reqVars, sessVars>>

\* The bind is over and no stop() came in between: serve, or give up.
Started ==
  /\ startPc = "bind" /\ listenOn # "waiting" /\ state = "starting"
  /\ state' = IF listenOn = "ok" THEN "started" ELSE "stopped"
  /\ startPc' = IF listenOn = "ok" THEN "returned" ELSE "threw"
  /\ UNCHANGED <<netVars, stopPc, closing, timedOut, trackVars, reqVars, sessVars>>

ClosedNow == IF listener = "listening" THEN "closed" ELSE listener

\* A stop() came in between: close what has been bound, wait for pendingStop.
StoppedDuringStart ==
  /\ startPc = "bind" /\ listenOn # "waiting" /\ state # "starting"
  /\ listener' = IF listenOn = "ok" THEN ClosedNow ELSE listener
  /\ startPc' = "await"
  /\ UNCHANGED <<listenOn, closeAsked, closeFired, state, stopPc, closing, timedOut,
                 trackVars, reqVars, sessVars>>

StartThrows ==
  /\ startPc = "await" /\ state = "stopped"
  /\ startPc' = "threw"
  /\ UNCHANGED <<netVars, state, stopPc, closing, timedOut, trackVars, reqVars, sessVars>>

-----------------------------------------------------------------------------
(* stop *)

StopIdle ==
  /\ state = "idle"
  /\ state' = "stopped"
  /\ UNCHANGED <<netVars, startPc, stopPc, closing, timedOut, trackVars, reqVars, sessVars>>

\* By a caller or onSignal.  listener.close() ends a listening socket; on one
\* that is not listening yet it has no handle to close.
Stop ==
  /\ state \in {"starting", "started"}
  /\ state' = "stopping"
  /\ closeAsked' = TRUE
  /\ listener' = ClosedNow
  /\ stopPc' = IF inFlight > 0 THEN "drain" ELSE "collect"
  /\ UNCHANGED <<listenOn, closeFired, startPc, closing, timedOut, trackVars, reqVars, sessVars>>

\* The 'close' event: at once when close() found no handle, else when the last
\* socket is gone.  It settles listenOn and stop()'s listenerClosed.
CloseEvent ==
  /\ closeAsked /\ ~closeFired
  /\ \A r \in Requests : conn[r] \in {"none", "gone"}
  /\ closeFired' = TRUE
  /\ listenOn' = IF listenOn = "waiting" THEN "closed" ELSE listenOn
  /\ UNCHANGED <<listener, closeAsked, lifeVars, trackVars, reqVars, sessVars>>

\* Mutant: the drain's timer is missing.
NoDrainTimer == FALSE

DrainTimer == stopPc = "drain"

\* drainTimeoutMs: closeAllConnections.
DrainTimeout ==
  /\ DrainTimer
  /\ timedOut' = TRUE
  /\ stopPc' = "collect"
  /\ Cut(Requests)
  /\ released' = [r \in Requests |-> TRUE]
  /\ inFlight' = inFlight - Cardinality(Unsettled(Requests))
  /\ UNCHANGED <<netVars, state, startPc, closing, to, sessVars>>

\* Mutant: only the sessions that are keyed by an id.
OnlyOpened == sessions

AllSessions == sessions \cup pendingSessions

Collect ==
  /\ stopPc = "collect"
  /\ closing' = AllSessions
  /\ sessions' = {} /\ pendingSessions' = {}
  /\ stopPc' = "close"
  /\ UNCHANGED <<netVars, state, startPc, timedOut, trackVars, reqVars, sess>>

\* transport.close() and server.close(), one session after the other.
CloseSession(s) ==
  /\ stopPc = "close" /\ s \in closing
  /\ closing' = closing \ {s}
  /\ sess' = [sess EXCEPT ![s] = "closed"]
  /\ sessions' = sessions \ {s} /\ pendingSessions' = pendingSessions \ {s}
  /\ Cut({r \in Requests : to[r] = s /\ job[r] \in {"stream", "work", "connect"}})
  /\ Release({r \in Requests : to[r] = s /\ job[r] \in {"work", "connect"}})
  /\ UNCHANGED <<netVars, state, startPc, timedOut, to>>

AllClosed ==
  /\ stopPc = "close" /\ closing = {}
  /\ stopPc' = "wait"
  /\ UNCHANGED <<netVars, state, startPc, closing, timedOut, trackVars, reqVars, sessVars>>

\* waitForListenerClose's timer: closeAllConnections.
CloseTimeout ==
  /\ stopPc = "wait" /\ ~closeFired
  /\ Cut(Requests)
  /\ Release(Requests)
  /\ UNCHANGED <<netVars, state, startPc, closing, timedOut, to, sessVars>>

\* finalizeStopped: `done` resolves.
StopEnd ==
  /\ stopPc = "wait" /\ closeFired
  /\ state' = "stopped"
  /\ stopPc' = "over"
  /\ UNCHANGED <<netVars, startPc, closing, timedOut, trackVars, reqVars, sessVars>>

-----------------------------------------------------------------------------
Bind == BindOk \/ BindFails
StartStep == Started \/ StoppedDuringStart \/ StartThrows
StopStep ==
  \/ DrainTimeout \/ Collect \/ AllClosed \/ StopEnd
  \/ \E s \in Requests : CloseSession(s)
Handler(r) == Route(r) \/ Initialized(r) \/ ConnectFails(r) \/ Finish(r)

Next ==
  \/ Start \/ Bind \/ StartStep
  \/ StopIdle \/ Stop \/ StopStep \/ CloseEvent \/ CloseTimeout
  \/ \E r \in Requests : Arrive(r) \/ Handler(r) \/ SocketGone(r)

Spec == Init /\ [][Next]_vars

\* Node's events and timers come, and start() and stop() go on; requests, their
\* answers and the departure of clients are not promised.
FairSpec ==
  /\ Spec
  /\ WF_vars(Bind) /\ WF_vars(StartStep)
  /\ WF_vars(StopStep) /\ WF_vars(CloseEvent) /\ WF_vars(CloseTimeout)

-----------------------------------------------------------------------------
TypeOK ==
  /\ state \in {"idle", "starting", "started", "stopping", "stopped"}
  /\ listener \in {"none", "binding", "listening", "closed"}
  /\ listenOn \in {"waiting", "ok", "failed", "closed"}
  /\ startPc \in {"none", "bind", "await", "returned", "threw"}
  /\ stopPc \in {"none", "drain", "collect", "close", "wait", "over"}
  /\ inFlight \in 0 .. Cardinality(Requests)
  /\ conn \in [Requests -> {"none", "open", "answered", "gone"}]
  /\ job \in [Requests -> {"none", "body", "connect", "work", "stream", "done"}]
  /\ sess \in [Requests -> {"none", "open", "dropped", "closed"}]
  /\ (sessions \cup pendingSessions \cup closing) \subseteq Requests

\* When `done` resolves, every session ever opened has been closed: the ones
\* whose first POST was still being processed when stop() took its snapshot,
\* and the ones that reach onsessioninitialized only after it.
NoSessionOutlivesDone ==
  state = "stopped" => \A s \in Requests : sess[s] # "open"

\* stop() cuts off no request it has promised to drain: the sessions are taken
\* down only when every finite request was answered or left by its client, or
\* when the drain timeout passed.
DrainedFirst ==
  (stopPc \in {"close", "wait", "over"} /\ ~timedOut) =>
    \A r \in Requests : Finite(r) => ~Unanswered(r)

\* Every stop() ends, whatever handlers hang and whatever streams stay open,
\* and so does every start(), stopped or not.
StopEnds ==
  /\ state = "stopping" ~> state = "stopped"
  /\ startPc = "bind" ~> startPc \in {"returned", "threw"}

\* `done` resolving means that the listening socket is gone (the comments of
\* start() and stop()).  Node's bind is not cancelled by close(), so a stop()
\* that comes during the bind does not keep this promise.
SocketGoneWhenDone == state = "stopped" => listener # "listening"

\* What is kept: once start() has ended too the socket is gone, unless the 'close'
\* event came before the bind, so that start() never saw a socket to close.
SocketGoneInTheEnd ==
  state = "stopped" /\ startPc \in {"none", "returned", "threw"} /\ listenOn # "closed"
    => listener \in {"none", "closed"}
=============================================================================
