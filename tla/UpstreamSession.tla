--------------------------- MODULE UpstreamSession ---------------------------
(***************************************************************************)
(* packages/mcp-gateway/src/upstream-client/session.ts: the gateway's      *)
(* connection manager for one upstream MCP server.  The session is one     *)
(* JavaScript object: a step is the code between two awaits, and the       *)
(* interleavings are those of its suspended attempts, timers, pings, list  *)
(* refreshes, tool calls, restart and dispose.                             *)
(*                                                                         *)
(* A client object (stdio.ts, http.ts) is a number; a number is used again *)
(* once nothing refers to the client it stood for, as with an object that  *)
(* has become garbage.                                                     *)
(***************************************************************************)
EXTENDS Naturals, FiniteSets

CONSTANTS
  MaxClients,    \* bound: client objects referred to at one time
  Calls,         \* callers of callTool, each making one call after another
  AllowRestart,  \* TRUE: restart() is called (only tests and embedders do)
  TokenEvents    \* TRUE: the stored credential expires, goes or comes back

ASSUME SessionAssumption ==
  /\ MaxClients \in Nat \ {0}
  /\ AllowRestart \in BOOLEAN /\ TokenEvents \in BOOLEAN

Clients == 1 .. MaxClients
NoClient == 0

VARIABLES
  phase,      \* phase.kind
  cur,        \* phase.client in "starting" and "connected"
  retryOf,    \* phase.retryHandle in "waiting": the client whose end set it
  status,     \* the kind of the last status set
  cached,     \* the cached tools/list result: "none", an "empty" list, "tools"
  listener,   \* activeListeners.client
  pingTimer,  \* the client whose keepalive interval runs
  authTimer,  \* authRecoveryHandle is set
  retries,    \* the retry timers that are pending
  conn,       \* conn[k]: the connection of client k
  job,        \* job[k]: where the attempt that made client k is suspended
  recovering, \* recovering[k]: that attempt's argument
  failure,    \* failure[k]: the auth error it is about to surface
  pings,      \* clients with a keepalive ping in flight
  refreshes,  \* clients with a tools_list_changed refresh in flight
  call,       \* call[c]: where the tool call of caller c is suspended
  callOn,     \* callOn[c]: the client it waits for
  startOn,    \* pendingStart: the client of its attempt
  restarting, \* pendingRestart: "no", in its "teardown", or in its "attempt"
  restartOn,  \* the client of that attempt
  disposing,  \* dispose() awaits its teardown
  up,         \* the upstream can be reached
  token       \* the stored credential: "valid", "expired", "missing"

phaseVars == <<phase, cur, retryOf>>
watchVars == <<listener, pingTimer>>
timerVars == <<authTimer, retries>>
jobVars == <<job, recovering, failure>>
flightVars == <<pings, refreshes>>
callVars == <<call, callOn>>
ownerVars == <<startOn, restarting, restartOn>>
envVars == <<up, token>>
vars == <<phaseVars, status, cached, watchVars, timerVars, conn, jobVars,
          flightVars, callVars, ownerVars, disposing, envVars>>

-----------------------------------------------------------------------------
Phases == {"idle", "starting", "connected", "waiting", "auth_required",
           "auth_expired", "stopped"}
Statuses == {"stopped", "starting", "connected", "error", "auth_required",
             "auth_expired"}
Jobs == {"none", "connect", "list", "drop", "retry", "surface"}
AuthErrors == {"auth_required", "auth_expired"}

\* The phase still belongs to the attempt, ping or call that holds client k.
IsStarting(k) == phase = "starting" /\ cur = k
IsConnected(k) == phase = "connected" /\ cur = k

\* The process or the socket of client k exists.  disconnect() of a client that
\* is still connecting only abandons it: connect() itself closes it, later.
Live(k) == conn[k] # "closed"

\* Nothing refers to client k.
Garbage(k) ==
  /\ job[k] = "none" /\ k \notin pings \cup refreshes \cup retries
  /\ cur # k /\ listener # k /\ pingTimer # k /\ retryOf # k
  /\ startOn # k /\ restartOn # k
  /\ \A c \in Calls : callOn[c] # k
  /\ ~Live(k)

\* The number createClient's next object gets.
FreshClient(k) == Garbage(k) /\ \A i \in Clients : Garbage(i) => k <= i

\* setStatus
Emit(s) == status' = s
Silent == UNCHANGED status

\* client.disconnect(), and what connect() does with the transport when it fails.
Disconnect(k) ==
  conn' = [conn EXCEPT ![k] = IF @ = "connecting" THEN "abandoned" ELSE "closed"]
Close(k) == conn' = [conn EXCEPT ![k] = "closed"]

\* detachClientListeners and clearPing.
Unwatch == listener' = NoClient /\ pingTimer' = NoClient

SetPhase(p) == phase' = p /\ cur' = NoClient /\ retryOf' = NoClient

\* classifyOAuthFailure: a request the upstream refuses is told apart by what
\* the store holds when it is read again.
AuthFailure == IF token = "missing" THEN "auth_required" ELSE "auth_expired"

\* connect(): a credential that is not there is noticed before anything is sent
\* (buildHeaders), and a connection that disconnect() has overtaken is an error.
ConnectOutcomes(k) ==
  (IF ~up \/ conn[k] # "connecting" THEN {"error"} ELSE {})
  \cup (IF up /\ conn[k] = "connecting" /\ token = "valid" THEN {"ok"} ELSE {})
  \cup (IF token = "missing" \/ (up /\ token # "valid") THEN {AuthFailure} ELSE {})

\* listTools, callTool and ping of client k: an error without a connection
\* (requireClient) or an answer; a refusal may be on its way when the client is
\* closed.
RequestOutcomes(k) ==
  (IF conn[k] # "open" \/ ~up THEN {"error"} ELSE {})
  \cup (IF conn[k] = "open" /\ up /\ token = "valid" THEN {"ok"} ELSE {})
  \cup (IF up /\ token # "valid" THEN {AuthFailure} ELSE {})

\* onclose of the transport, which ends the client.
TransportCloses(k) == conn[k] = "open" /\ ~up /\ Close(k)

-----------------------------------------------------------------------------
Init ==
  /\ phase = "idle" /\ cur = NoClient /\ retryOf = NoClient
  /\ status = "stopped"
  /\ cached = "none"
  /\ listener = NoClient /\ pingTimer = NoClient
  /\ authTimer = FALSE /\ retries = {}
  /\ conn = [k \in Clients |-> "closed"]
  /\ job = [k \in Clients |-> "none"]
  /\ recovering = [k \in Clients |-> FALSE]
  /\ failure = [k \in Clients |-> "none"]
  /\ pings = {} /\ refreshes = {}
  /\ call = [c \in Calls |-> "none"]
  /\ callOn = [c \in Calls |-> NoClient]
  /\ startOn = NoClient /\ restarting = "no" /\ restartOn = NoClient
  /\ disposing = FALSE
  /\ up = TRUE
  /\ token \in {"valid", "expired", "missing"}

-----------------------------------------------------------------------------
(* Shared pieces of the code. *)

\* runConnectAttempt up to its first await; k is the client it makes.
BeginAttempt(k, rec) ==
  /\ FreshClient(k)
  /\ phase' = "starting" /\ cur' = k /\ retryOf' = NoClient
  /\ conn' = [conn EXCEPT ![k] = "connecting"]
  /\ job' = [job EXCEPT ![k] = "connect"]
  /\ recovering' = [recovering EXCEPT ![k] = rec]
  /\ Emit("starting")
  /\ UNCHANGED failure

\* The attempt of client k goes on to its next await, or it is over: then the
\* promises of start() and restart() settle.
GoOn(k, j) ==
  /\ job' = [job EXCEPT ![k] = j]
  /\ UNCHANGED <<recovering, ownerVars>>

EndAttempt(k) ==
  /\ job' = [job EXCEPT ![k] = "none"]
  /\ recovering' = [recovering EXCEPT ![k] = FALSE]
  /\ failure' = [failure EXCEPT ![k] = "none"]
  /\ startOn' = IF startOn = k THEN NoClient ELSE startOn
  /\ IF restartOn = k
     THEN restarting' = "no" /\ restartOn' = NoClient
     ELSE UNCHANGED <<restarting, restartOn>>

\* Mutant: a transport loss overrides an auth state or a stop.
NeverGivesWay == FALSE

\* scheduleRetry leaves an auth state and a stopped session alone.
RetryGivesWay == phase \in {"stopped", "auth_required", "auth_expired"}

ScheduleRetry(k) ==
  IF RetryGivesWay
  THEN Silent /\ UNCHANGED <<phaseVars, retries>>
  ELSE /\ phase' = "waiting" /\ cur' = NoClient /\ retryOf' = k
       /\ retries' = retries \cup {k}
       /\ Emit("error")

\* Mutant: no background reconnect.
NeverCallable == FALSE

\* No tool was ever listed, so no call can drive the recovery.
NothingCached == cached = "none"

EnterAuthExpired ==
  /\ SetPhase("auth_expired")
  /\ Emit("auth_expired")
  /\ authTimer' = (authTimer \/ NothingCached)

\* surfaceConnectAuthFailure
SurfaceConnectFailure(k) ==
  IF failure[k] = "auth_required" /\ ~recovering[k]
  THEN SetPhase("auth_required") /\ Emit("auth_required") /\ UNCHANGED authTimer
  ELSE EnterAuthExpired

\* Mutant: a credential that was removed ends the session at once.
LosesForGood(k) ==
  /\ Unwatch
  /\ Disconnect(k)
  /\ SetPhase("auth_required") /\ Emit("auth_required")
  /\ UNCHANGED authTimer

\* Mutant: the client is not disconnected.
LeavesOpen(k) == Unwatch /\ UNCHANGED conn /\ EnterAuthExpired

\* Mid-session loss of the credential on the connected client k, as the ping,
\* the list refresh and the tool call see it.
LoseCredential(k) ==
  /\ Unwatch
  /\ Disconnect(k)
  /\ EnterAuthExpired

\* What an attempt that lost the phase does with its client.
DropStale(k) == Close(k)

-----------------------------------------------------------------------------
(* start, and the attempt's continuations. *)

Start(k) ==
  /\ startOn = NoClient /\ phase = "idle"
  /\ BeginAttempt(k, FALSE)
  /\ startOn' = k
  /\ UNCHANGED <<cached, watchVars, timerVars, flightVars, callVars, restarting,
                 restartOn, disposing, envVars>>

\* client.connect() settles.  disconnect() during it makes it fail.
ConnectResolves(k) ==
  /\ job[k] = "connect"
  /\ Silent
  /\ \E o \in ConnectOutcomes(k) :
       \/ /\ o = "ok" /\ IsStarting(k)
          /\ conn' = [conn EXCEPT ![k] = "open"]
          /\ GoOn(k, "list") /\ UNCHANGED failure
       \/ /\ o = "ok" /\ ~IsStarting(k)
          /\ DropStale(k)
          /\ GoOn(k, "drop") /\ UNCHANGED failure
       \/ /\ o # "ok" /\ phase \in {"stopped", "auth_required"}
          /\ Close(k)
          /\ GoOn(k, "drop") /\ UNCHANGED failure
       \/ /\ o \in AuthErrors /\ phase \notin {"stopped", "auth_required"}
          /\ Close(k)
          /\ failure' = [failure EXCEPT ![k] = o]
          /\ GoOn(k, "surface")
       \/ /\ o = "error" /\ phase \notin {"stopped", "auth_required"}
          /\ Close(k)
          /\ GoOn(k, "retry") /\ UNCHANGED failure
  /\ UNCHANGED <<phaseVars, cached, watchVars, timerVars, flightVars, callVars,
                 disposing, envVars>>

\* attachClient and startPing.
Watch(k) == listener' = k /\ pingTimer' = k

\* The initial refreshTools settles.  Any list it gets is cached, whoever owns
\* the phase by then; an error that is not about auth is swallowed.
ListResolves(k) ==
  /\ job[k] = "list"
  /\ \E o \in RequestOutcomes(k) :
       /\ IF o = "ok" THEN cached' \in {"empty", "tools"} ELSE UNCHANGED cached
       /\ \/ /\ ~IsStarting(k)
             /\ DropStale(k) /\ GoOn(k, "drop") /\ Silent
             /\ UNCHANGED <<phaseVars, watchVars, failure>>
          \/ /\ IsStarting(k) /\ o \in AuthErrors
             /\ Disconnect(k) /\ GoOn(k, "surface") /\ Silent
             /\ failure' = [failure EXCEPT ![k] = o]
             /\ UNCHANGED <<phaseVars, watchVars>>
          \/ /\ IsStarting(k) /\ o \notin AuthErrors
             /\ phase' = "connected" /\ Watch(k) /\ EndAttempt(k)
             /\ Emit("connected")
             /\ UNCHANGED <<cur, retryOf, conn>>
  /\ UNCHANGED <<timerVars, flightVars, callVars, disposing, envVars>>

\* Mutant: the attempt does not look again after the disconnect.
AlwaysOwns(k) == TRUE

\* The phase is still this attempt's after the await of the disconnect.
StillOwns(k) == IsStarting(k)

\* The await of client.disconnect() after a failed or overtaken attempt.  A
\* generic connect failure goes to scheduleRetry without looking again.
DisconnectResolves(k) ==
  /\ job[k] \in {"drop", "retry", "surface"}
  /\ EndAttempt(k)
  /\ \/ /\ job[k] = "retry"
        /\ ScheduleRetry(k)
        /\ UNCHANGED authTimer
     \/ /\ job[k] = "surface" /\ StillOwns(k)
        /\ SurfaceConnectFailure(k)
        /\ UNCHANGED retries
     \/ /\ job[k] = "drop" \/ (job[k] = "surface" /\ ~StillOwns(k))
        /\ Silent
        /\ UNCHANGED <<phaseVars, timerVars>>
  /\ UNCHANGED <<cached, watchVars, conn, flightVars, callVars, disposing, envVars>>

-----------------------------------------------------------------------------
(* Timers. *)

\* The callback looks at the phase only, not at whose timer fired.
RetryFires(t) ==
  /\ t \in retries
  /\ retries' = retries \ {t}
  /\ \/ phase = "waiting" /\ \E k \in Clients : BeginAttempt(k, FALSE)
     \/ phase # "waiting" /\ Silent /\ UNCHANGED <<phaseVars, conn, jobVars>>
  /\ UNCHANGED <<cached, watchVars, authTimer, flightVars, callVars, ownerVars,
                 disposing, envVars>>

AuthRecoveryFires ==
  /\ authTimer
  /\ authTimer' = FALSE
  /\ \/ phase = "auth_expired" /\ \E k \in Clients : BeginAttempt(k, TRUE)
     \/ phase # "auth_expired" /\ Silent /\ UNCHANGED <<phaseVars, conn, jobVars>>
  /\ UNCHANGED <<cached, watchVars, retries, flightVars, callVars, ownerVars,
                 disposing, envVars>>

PingTick ==
  /\ pingTimer # NoClient /\ IsConnected(pingTimer)
  /\ pings' = pings \cup {pingTimer}
  /\ Silent
  /\ UNCHANGED <<phaseVars, cached, watchVars, timerVars, conn, jobVars,
                 refreshes, callVars, ownerVars, disposing, envVars>>

PingResolves(k) ==
  /\ k \in pings
  /\ pings' = pings \ {k}
  /\ \E o \in RequestOutcomes(k) :
       \/ /\ o = "ok" \/ ~IsConnected(k)
          /\ Silent
          /\ UNCHANGED <<phaseVars, watchVars, timerVars, conn>>
       \/ /\ o \in AuthErrors /\ IsConnected(k)
          /\ LoseCredential(k)
          /\ UNCHANGED retries
       \/ /\ o = "error" /\ IsConnected(k)
          /\ Unwatch /\ Disconnect(k) /\ ScheduleRetry(k)
          /\ UNCHANGED authTimer
  /\ UNCHANGED <<cached, jobVars, refreshes, callVars, ownerVars, disposing, envVars>>

-----------------------------------------------------------------------------
(* Events of the client. *)

\* The connection drops.  Only an attached client's exit is heard.
ClientExits(k) ==
  /\ TransportCloses(k)
  /\ IF listener = k /\ IsConnected(k)
     THEN Unwatch /\ ScheduleRetry(k)
     ELSE Silent /\ UNCHANGED <<phaseVars, watchVars, retries>>
  /\ UNCHANGED <<cached, authTimer, jobVars, flightVars, callVars, ownerVars,
                 disposing, envVars>>

ToolsListChanged(k) ==
  /\ listener = k /\ conn[k] = "open" /\ up
  /\ refreshes' = refreshes \cup {k}
  /\ Silent
  /\ UNCHANGED <<phaseVars, cached, watchVars, timerVars, conn, jobVars, pings,
                 callVars, ownerVars, disposing, envVars>>

\* refreshTools of the notification: listeners are told even when it failed.
RefreshResolves(k) ==
  /\ k \in refreshes
  /\ refreshes' = refreshes \ {k}
  /\ \E o \in RequestOutcomes(k) :
       \/ /\ o \notin AuthErrors
          /\ IF o = "ok" THEN cached' \in {"empty", "tools"} ELSE UNCHANGED cached
          /\ Silent
          /\ UNCHANGED <<phaseVars, watchVars, authTimer, conn>>
       \/ /\ o \in AuthErrors /\ IsConnected(k)
          /\ LoseCredential(k)
          /\ UNCHANGED cached
       \/ /\ o \in AuthErrors /\ ~IsConnected(k)
          /\ Silent
          /\ UNCHANGED <<phaseVars, cached, watchVars, authTimer, conn>>
  /\ UNCHANGED <<retries, jobVars, pings, callVars, ownerVars, disposing, envVars>>

-----------------------------------------------------------------------------
(* callTool *)

Recovers == phase = "auth_expired"

\* In auth_expired the call drives one reconnect and clears the scheduled one;
\* connected, it goes to the client; else it fails at once and changes nothing.
CallTool(c) ==
  /\ call[c] = "none"
  /\ \/ /\ Recovers
        /\ authTimer' = FALSE
        /\ \E k \in Clients :
             /\ BeginAttempt(k, TRUE)
             /\ callOn' = [callOn EXCEPT ![c] = k]
        /\ call' = [call EXCEPT ![c] = "recover"]
     \/ /\ phase = "connected"
        /\ call' = [call EXCEPT ![c] = "client"]
        /\ callOn' = [callOn EXCEPT ![c] = cur]
        /\ Silent
        /\ UNCHANGED <<phaseVars, authTimer, conn, jobVars>>
  /\ UNCHANGED <<cached, watchVars, retries, flightVars, ownerVars, disposing, envVars>>

\* Mutant: the call waits until some attempt succeeds.
WaitsForConnection(c) == phase = "connected"

RecoveryOver(c) == job[callOn[c]] = "none"

\* The awaited attempt is over: use whatever client is connected by now.
CallContinues(c) ==
  /\ call[c] = "recover" /\ RecoveryOver(c)
  /\ IF phase = "connected"
     THEN call' = [call EXCEPT ![c] = "client"] /\ callOn' = [callOn EXCEPT ![c] = cur]
     ELSE call' = [call EXCEPT ![c] = "none"] /\ callOn' = [callOn EXCEPT ![c] = NoClient]
  /\ Silent
  /\ UNCHANGED <<phaseVars, cached, watchVars, timerVars, conn, jobVars, flightVars,
                 ownerVars, disposing, envVars>>

CallResolves(c) ==
  /\ call[c] = "client"
  /\ call' = [call EXCEPT ![c] = "none"]
  /\ callOn' = [callOn EXCEPT ![c] = NoClient]
  /\ \E o \in RequestOutcomes(callOn[c]) :
       IF o \in AuthErrors /\ IsConnected(callOn[c])
       THEN LoseCredential(callOn[c])
       ELSE Silent /\ UNCHANGED <<phaseVars, watchVars, authTimer, conn>>
  /\ UNCHANGED <<cached, retries, jobVars, flightVars, ownerVars, disposing, envVars>>

-----------------------------------------------------------------------------
(* restart and dispose *)

ClearsRetry == retries' = retries \ {retryOf}

\* teardown up to its await: the phase changes before anything can interleave.
Teardown(p) ==
  /\ SetPhase(p)
  /\ Unwatch
  /\ authTimer' = FALSE
  /\ IF phase = "waiting" THEN ClearsRetry ELSE UNCHANGED retries
  /\ IF phase \in {"connected", "starting"} THEN Disconnect(cur) ELSE UNCHANGED conn

Restart ==
  /\ AllowRestart
  /\ restarting = "no" /\ phase # "stopped"
  /\ Teardown("idle")
  /\ restarting' = "teardown"
  /\ Silent
  /\ UNCHANGED <<cached, jobVars, flightVars, callVars, startOn, restartOn,
                 disposing, envVars>>

\* The teardown's await is over: runConnectAttempt(1) unless a dispose or a
\* missing credential came in between.
RestartContinues ==
  /\ restarting = "teardown"
  /\ \/ /\ phase \notin {"stopped", "auth_required"}
        /\ \E k \in Clients : BeginAttempt(k, FALSE) /\ restartOn' = k
        /\ restarting' = "attempt"
     \/ /\ phase \in {"stopped", "auth_required"}
        /\ restarting' = "no"
        /\ Silent
        /\ UNCHANGED <<phaseVars, conn, jobVars, restartOn>>
  /\ UNCHANGED <<cached, watchVars, timerVars, flightVars, callVars, startOn,
                 disposing, envVars>>

Dispose ==
  /\ phase # "stopped"
  /\ Teardown("stopped")
  /\ disposing' = TRUE
  /\ Silent
  /\ UNCHANGED <<cached, jobVars, flightVars, callVars, ownerVars, envVars>>

DisposeContinues ==
  /\ disposing
  /\ disposing' = FALSE
  /\ Emit("stopped")
  /\ UNCHANGED <<phaseVars, cached, watchVars, timerVars, conn, jobVars, flightVars,
                 callVars, ownerVars, envVars>>

-----------------------------------------------------------------------------
(* The upstream and the credential. *)

UpstreamChanges ==
  /\ up' = ~up
  /\ Silent
  /\ UNCHANGED <<phaseVars, cached, watchVars, timerVars, conn, jobVars, flightVars,
                 callVars, ownerVars, disposing, token>>

\* The token ages out, tlbx auth logout removes it, tlbx auth login renews it.
TokenChanges ==
  /\ TokenEvents
  /\ token' \in {"valid", "expired", "missing"} \ {token}
  /\ Silent
  /\ UNCHANGED <<phaseVars, cached, watchVars, timerVars, conn, jobVars, flightVars,
                 callVars, ownerVars, disposing, up>>

-----------------------------------------------------------------------------
\* The session's own steps: promises that settle and timers that fire.
Settles ==
  \/ \E k \in Clients :
       ConnectResolves(k) \/ ListResolves(k) \/ DisconnectResolves(k)
  \/ RestartContinues \/ DisposeContinues
Timers == (\E t \in Clients : RetryFires(t)) \/ AuthRecoveryFires
Watches == \E k \in Clients : PingResolves(k) \/ RefreshResolves(k)
CallSettles == \E c \in Calls : CallContinues(c) \/ CallResolves(c)

Next ==
  \/ Settles \/ Timers \/ Watches \/ CallSettles
  \/ \E k \in Clients : Start(k) \/ ClientExits(k) \/ ToolsListChanged(k)
  \/ PingTick
  \/ \E c \in Calls : CallTool(c)
  \/ Restart \/ Dispose
  \/ UpstreamChanges \/ TokenChanges

Spec == Init /\ [][Next]_vars

\* Every request has a timeout, every timer fires, the interval keeps ticking.
\* Nothing is assumed of the upstream, of the credential or of the callers.
FairSpec ==
  /\ Spec
  /\ \A k \in Clients :
       /\ WF_vars(ConnectResolves(k)) /\ WF_vars(ListResolves(k))
       /\ WF_vars(DisconnectResolves(k)) /\ WF_vars(RetryFires(k))
       /\ WF_vars(PingResolves(k)) /\ WF_vars(RefreshResolves(k))
  /\ WF_vars(AuthRecoveryFires) /\ WF_vars(PingTick)
  /\ WF_vars(RestartContinues) /\ WF_vars(DisposeContinues)
  /\ \A c \in Calls : WF_vars(CallContinues(c)) /\ WF_vars(CallResolves(c))

-----------------------------------------------------------------------------
TypeOK ==
  /\ phase \in Phases /\ cur \in Clients \cup {NoClient}
  /\ retryOf \in Clients \cup {NoClient}
  /\ status \in Statuses
  /\ cached \in {"none", "empty", "tools"}
  /\ listener \in Clients \cup {NoClient} /\ pingTimer \in Clients \cup {NoClient}
  /\ authTimer \in BOOLEAN /\ retries \subseteq Clients
  /\ conn \in [Clients -> {"connecting", "abandoned", "open", "closed"}]
  /\ job \in [Clients -> Jobs]
  /\ recovering \in [Clients -> BOOLEAN]
  /\ failure \in [Clients -> AuthErrors \cup {"none"}]
  /\ pings \subseteq Clients /\ refreshes \subseteq Clients
  /\ call \in [Calls -> {"none", "recover", "client"}]
  /\ callOn \in [Calls -> Clients \cup {NoClient}]
  /\ startOn \in Clients \cup {NoClient} /\ restartOn \in Clients \cup {NoClient}
  /\ restarting \in {"no", "teardown", "attempt"}
  /\ disposing \in BOOLEAN /\ up \in BOOLEAN
  /\ token \in {"valid", "expired", "missing"}

(* Safety *)

\* The session never has two live connections to its upstream, and one it has
\* belongs to its phase or to an attempt that will still close it: no client
\* process or socket is leaked by a stale attempt.
OneConnection ==
  \A k \in Clients : Live(k) =>
    /\ job[k] # "none" \/ cur = k
    /\ \A i \in Clients \ {k} : ~Live(i)

\* A connected session always listens to its client's exit and pings it, and
\* no other client: a connection cannot be lost without being noticed.
ConnectedIsWatched ==
  /\ phase = "connected" => listener = cur /\ pingTimer = cur
  /\ phase # "connected" => listener = NoClient /\ pingTimer = NoClient

\* A session that waits has the timer that ends the wait, and no timer is left
\* to start a second attempt: waiting has exactly its retry timer, auth_expired
\* with nothing cached has the recovery timer, every other phase has none.
TimersMatchPhase ==
  /\ retries = IF phase = "waiting" THEN {retryOf} ELSE {}
  /\ authTimer <=> phase = "auth_expired" /\ cached = "none"

\* The status that the gateway routes by is that of the phase, up to the
\* moment when a dispose has stopped the session but not yet said so.
StatusTracksPhase ==
  \/ disposing /\ phase = "stopped"
  \/ status = CASE phase = "idle" -> "stopped"
                [] phase = "waiting" -> "error"
                [] OTHER -> phase

\* The three at every turn of the event loop, whatever was suspended when the
\* phase changed: the listeners, the timers and the published status go with it.
PhaseInSync == ConnectedIsWatched /\ TimersMatchPhase /\ StatusTracksPhase

\* Nothing resurrects a disposed session: once dispose has begun no attempt,
\* timer, ping, refresh or call changes its phase, and the one status still
\* emitted is the final "stopped".
StaysDisposed ==
  [][phase = "stopped" =>
       /\ phase' = "stopped"
       /\ status' = status \/ (disposing /\ status' = "stopped")]_vars

\* What a disposed session still holds can only end: it has no timer and no
\* listener, no attempt begins and no connection is made, and the one connection
\* that may be left is that of an attempt which closes it when it is resumed.
DisposedOnlyEnds ==
  [][phase = "stopped" =>
       /\ retries = {} /\ ~authTimer /\ listener = NoClient /\ pingTimer = NoClient
       /\ \A k \in Clients :
            /\ Live(k) => job[k] = "connect"
            /\ job'[k] # "none" => job[k] # "none"
            /\ Live(k)' => Live(k)]_vars

\* A generic connect failure goes to scheduleRetry without looking again after
\* its disconnect: when a restart() came in between, it takes the phase from the
\* restart's own attempt and has it wait (session.ts:464).
RetryOvertakesRestart(k) ==
  /\ AllowRestart
  /\ job[k] = "retry" /\ phase # "stopped"
  /\ phase' = "waiting" /\ retryOf' = k

\* An attempt that lost the phase while it was suspended ends without touching
\* it: after a dispose whatever it failed with, and after a restart or in favour
\* of a newer attempt with that one exception ("a stale attempt cannot resurrect a
\* torn-down session or clobber a newer connect attempt", which the code says of
\* authentication failures).
StaleAttemptIsHarmless ==
  [][\A k \in Clients :
       (job[k] # "none" /\ job'[k] = "none" /\ ~IsStarting(k))
         => UNCHANGED phaseVars \/ RetryOvertakesRestart(k)]_vars

\* The session keeps what it promises the gateway: every status it emits is a
\* legal transition, its tools change only with a connect or a reload, and a
\* disposed session falls silent.
Promise == INSTANCE AbstractSession WITH
  ToolLists <- {"empty", "tools"}, NoTools <- "none",
  tools <- cached, over <- (phase = "stopped")
KeepsPromise == Promise!Spec

(* Liveness *)

Healthy == up /\ token = "valid"

\* With the upstream and the credential in order for good, a session that was
\* started ends up connected to a live client, unless it was disposed, needs a
\* login (auth_required) or waits for a tool call to drive its recovery.
Serving ==
  \/ phase = "connected" /\ conn[cur] = "open"
  \/ phase \in {"idle", "stopped", "auth_required"}
  \/ phase = "auth_expired" /\ cached # "none"
SelfHeals == [](([]Healthy) => <>[]Serving)

\* dispose leaves no connection and no timer behind.
DisposeCleansUp ==
  phase = "stopped" ~>
    [](/\ \A k \in Clients : ~Live(k) /\ job[k] = "none"
       /\ retries = {} /\ ~authTimer /\ listener = NoClient /\ pingTimer = NoClient)

\* Every tool call comes back, whatever happens to the session
\* meanwhile: a restart or a dispose under it, or a recovery that never succeeds.
CallsReturn == \A c \in Calls : call[c] # "none" ~> call[c] = "none"
=============================================================================
