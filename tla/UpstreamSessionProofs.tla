----------------------- MODULE UpstreamSessionProofs -----------------------
(***************************************************************************)
(* Proofs about UpstreamSession: for any number of clients, callers and    *)
(* suspended operations, a session that is not restarted has one           *)
(* connection, its timers, its listeners and its status go with its phase, *)
(* a stale attempt changes nothing, and it implements AbstractSession.     *)
(***************************************************************************)
EXTENDS UpstreamSession, TLAPS

-----------------------------------------------------------------------------
(* The inductive invariant. *)

\* The fields of the phase, and what is left of a restart and a dispose.
Owner ==
  /\ phase \in {"starting", "connected"} <=> cur # NoClient
  /\ phase = "waiting" => retryOf # NoClient
  /\ phase = "starting" => job[cur] # "none"
  /\ disposing => phase = "stopped"
  /\ restarting = "no"

\* One attempt at most is suspended: that of the phase, or one that a dispose has
\* overtaken, and then the last status was its "starting".
Attempts ==
  \A k \in Clients : job[k] # "none" =>
    /\ IsStarting(k) \/ (phase = "stopped" /\ status \in {"starting", "stopped"})
    /\ job[k] = "drop" => phase = "stopped"
    /\ k \notin pings \cup refreshes
    /\ \A i \in Clients : job[i] # "none" => i = k

\* Whoever can still close a connection knows it.
Connections ==
  \A k \in Clients :
    /\ conn[k] = "connecting" => job[k] = "connect" /\ IsStarting(k)
    /\ conn[k] = "abandoned" => job[k] = "connect" /\ phase = "stopped"
    /\ conn[k] = "open" => IsConnected(k) \/ (IsStarting(k) /\ job[k] = "list")

SessionInv == TypeOK /\ Owner /\ Attempts /\ Connections /\ PhaseInSync

-----------------------------------------------------------------------------
LEMMA ClientNumbers == NoClient \notin Clients
BY SessionAssumption DEF NoClient, Clients

\* Attempts are suspended only under "starting" and after a dispose.
LEMMA NoAttempt ==
  ASSUME SessionInv, phase \notin {"starting", "stopped"}, NEW k \in Clients
  PROVE  job[k] = "none"
BY DEF SessionInv, Attempts, IsStarting

LEMMA InitHolds ==
  ASSUME Init, ~AllowRestart
  PROVE  SessionInv
<1>1. TypeOK
  BY DEF Init, TypeOK, Phases, Statuses, Jobs
<1>2. Owner /\ Attempts /\ Connections
  BY DEF Init, Owner, Attempts, Connections
<1>3. PhaseInSync
  BY DEF Init, PhaseInSync, ConnectedIsWatched, TimersMatchPhase, StatusTracksPhase
<1> QED BY <1>1, <1>2, <1>3 DEF SessionInv

\* An attempt begins where none is suspended and no connection is open.
LEMMA BeginKeeps ==
  ASSUME SessionInv, NEW k \in Clients, NEW rec \in BOOLEAN, BeginAttempt(k, rec),
         phase \in {"idle", "waiting", "auth_required", "auth_expired"},
         retries' = {}, authTimer' = FALSE,
         UNCHANGED <<cached, watchVars, flightVars, restarting, restartOn, disposing, envVars>>,
         startOn' \in Clients \cup {NoClient},
         call' \in [Calls -> {"none", "recover", "client"}],
         callOn' \in [Calls -> Clients \cup {NoClient}]
  PROVE  SessionInv'
<1> USE DEF watchVars, flightVars, envVars
<1>1. /\ phase' = "starting" /\ cur' = k /\ retryOf' = NoClient /\ status' = "starting"
      /\ conn' = [conn EXCEPT ![k] = "connecting"]
      /\ job' = [job EXCEPT ![k] = "connect"]
      /\ recovering' = [recovering EXCEPT ![k] = rec] /\ failure' = failure
      /\ k \notin pings \cup refreshes
  BY DEF BeginAttempt, Emit, FreshClient, Garbage
<1>2. TypeOK'
  BY <1>1 DEF SessionInv, TypeOK, Phases, Statuses, Jobs
<1>3. Owner'
  BY <1>1, ClientNumbers DEF SessionInv, TypeOK, Owner
<1>4. \A i \in Clients : job[i] = "none" /\ conn[i] = "closed"
  BY NoAttempt DEF SessionInv, TypeOK, Connections, IsConnected, IsStarting
<1>5. Attempts' /\ Connections'
  BY <1>1, <1>4 DEF SessionInv, TypeOK, Attempts, Connections, IsStarting, IsConnected
<1>6. PhaseInSync'
  BY <1>1 DEF SessionInv, PhaseInSync, ConnectedIsWatched, TimersMatchPhase, StatusTracksPhase
<1> QED BY <1>2, <1>3, <1>5, <1>6 DEF SessionInv

-----------------------------------------------------------------------------
(* start, and the attempt's continuations. *)

LEMMA StartKeeps ==
  ASSUME SessionInv, NEW k \in Clients, Start(k)
  PROVE  SessionInv'
<1>1. retries = {} /\ ~authTimer /\ authTimer \in BOOLEAN
  BY DEF Start, SessionInv, TypeOK, PhaseInSync, TimersMatchPhase
<1> QED BY <1>1, BeginKeeps DEF Start, SessionInv, TypeOK, timerVars, callVars

LEMMA ConnectKeeps ==
  ASSUME SessionInv, NEW k \in Clients, ConnectResolves(k)
  PROVE  SessionInv'
<1> USE DEF phaseVars, watchVars, timerVars, flightVars, callVars, ownerVars, envVars
<1>1. PICK j \in {"list", "drop", "surface", "retry"} : job' = [job EXCEPT ![k] = j]
  BY DEF ConnectResolves, GoOn
<1>2. /\ job[k] = "connect" /\ status' = status
      /\ UNCHANGED <<phase, cur, retryOf, cached, listener, pingTimer, authTimer, retries,
                     pings, refreshes, call, callOn, startOn, restarting, restartOn,
                     disposing, up, token, recovering>>
  BY DEF ConnectResolves, Silent, GoOn
<1>3. /\ \/ j = "list" /\ IsStarting(k) /\ conn' = [conn EXCEPT ![k] = "open"]
         \/ j # "list" /\ conn' = [conn EXCEPT ![k] = "closed"]
      /\ j = "drop" => phase = "stopped"
  <2>1. IsStarting(k) \/ phase = "stopped"
    BY <1>2 DEF SessionInv, Attempts
  <2> QED BY <1>1, <2>1 DEF ConnectResolves, GoOn, DropStale, Close, SessionInv, TypeOK, IsStarting
<1>4. failure' \in [Clients -> AuthErrors \cup {"none"}]
  <2>1. failure' = failure \/ \E o \in AuthErrors : failure' = [failure EXCEPT ![k] = o]
    BY DEF ConnectResolves
  <2> QED BY <2>1 DEF SessionInv, TypeOK
<1>5. TypeOK'
  <2>1. job' \in [Clients -> Jobs]
    BY <1>1 DEF SessionInv, TypeOK, Jobs
  <2>2. conn' \in [Clients -> {"connecting", "abandoned", "open", "closed"}]
    BY <1>3 DEF SessionInv, TypeOK
  <2> QED BY <1>2, <1>4, <2>1, <2>2 DEF SessionInv, TypeOK
<1>6. Owner' /\ Attempts' /\ Connections'
  BY <1>1, <1>2, <1>3 DEF SessionInv, TypeOK, Owner, Attempts, Connections, IsStarting, IsConnected
<1>7. PhaseInSync'
  BY <1>2 DEF SessionInv, PhaseInSync, ConnectedIsWatched, TimersMatchPhase, StatusTracksPhase
<1> QED BY <1>5, <1>6, <1>7 DEF SessionInv

LEMMA ListKeeps ==
  ASSUME SessionInv, NEW k \in Clients, ListResolves(k)
  PROVE  SessionInv'
<1> USE DEF phaseVars, watchVars, timerVars, flightVars, callVars, ownerVars, envVars
<1>1. /\ job[k] = "list"
      /\ UNCHANGED <<cur, retryOf, authTimer, retries, pings, refreshes, call, callOn,
                     disposing, up, token>>
      /\ cached' \in {"none", "empty", "tools"}
  BY DEF ListResolves, SessionInv, TypeOK
<1>2. conn[k] \in {"open", "closed"}
  BY <1>1 DEF SessionInv, TypeOK, Connections
<1>3. ~authTimer /\ retries = {} /\ phase \in {"starting", "stopped"}
      /\ (phase = "starting" => cur = k)
  BY <1>1 DEF SessionInv, Attempts, PhaseInSync, TimersMatchPhase, IsStarting
<1>4. CASE UNCHANGED <<phase, listener, pingTimer, status, startOn, restarting, restartOn,
                       recovering>>
           /\ conn' = [conn EXCEPT ![k] = "closed"]
           /\ (\E j \in {"drop", "surface"} :
                 job' = [job EXCEPT ![k] = j] /\ (j = "drop" => ~IsStarting(k)))
           /\ (failure' = failure \/ \E o \in AuthErrors : failure' = [failure EXCEPT ![k] = o])
  <2>1. TypeOK'
    BY <1>1, <1>4 DEF SessionInv, TypeOK, Jobs
  <2>2. Owner' /\ Attempts' /\ Connections'
    BY <1>1, <1>4 DEF SessionInv, TypeOK, Owner, Attempts, Connections, IsStarting, IsConnected
  <2>3. PhaseInSync'
    BY <1>1, <1>3, <1>4 DEF SessionInv, PhaseInSync, ConnectedIsWatched, TimersMatchPhase,
       StatusTracksPhase
  <2> QED BY <2>1, <2>2, <2>3 DEF SessionInv
<1>5. CASE IsStarting(k) /\ phase' = "connected" /\ Watch(k) /\ EndAttempt(k)
           /\ Emit("connected") /\ conn' = conn
  <2>1. TypeOK'
    BY <1>1, <1>5 DEF SessionInv, TypeOK, Jobs, Phases, Statuses, Watch, EndAttempt, Emit
  <2>2. Owner'
    BY <1>1, <1>5, ClientNumbers DEF SessionInv, TypeOK, Owner, EndAttempt, IsStarting
  <2>3. Attempts' /\ Connections'
    BY <1>1, <1>2, <1>3, <1>5 DEF SessionInv, TypeOK, Attempts, Connections, EndAttempt,
       IsStarting, IsConnected
  <2>4. PhaseInSync'
    BY <1>1, <1>3, <1>5 DEF SessionInv, PhaseInSync, ConnectedIsWatched, TimersMatchPhase,
       StatusTracksPhase, Watch, Emit, IsStarting
  <2> QED BY <2>1, <2>2, <2>3, <2>4 DEF SessionInv
<1>6. conn[k] # "connecting" => (Disconnect(k) => conn' = [conn EXCEPT ![k] = "closed"])
  BY DEF Disconnect
<1> QED BY <1>2, <1>4, <1>5, <1>6 DEF ListResolves, DropStale, Close, GoOn, Silent

LEMMA DisconnectKeeps ==
  ASSUME SessionInv, NEW k \in Clients, DisconnectResolves(k)
  PROVE  SessionInv'
<1> USE DEF phaseVars, watchVars, timerVars, flightVars, callVars, ownerVars, envVars
<1>1. /\ job[k] \in {"drop", "retry", "surface"} /\ EndAttempt(k)
      /\ UNCHANGED <<cached, listener, pingTimer, conn, pings, refreshes, call, callOn,
                     disposing, up, token>>
  BY DEF DisconnectResolves
<1>2. /\ phase \in {"starting", "stopped"} /\ (phase = "starting" => cur = k)
      /\ retries = {} /\ ~authTimer /\ listener = NoClient /\ pingTimer = NoClient
  BY <1>1 DEF SessionInv, Attempts, PhaseInSync, TimersMatchPhase, ConnectedIsWatched, IsStarting
<1>3. /\ job' = [job EXCEPT ![k] = "none"] /\ restarting' = "no"
      /\ startOn' \in {startOn, NoClient} /\ restartOn' \in {restartOn, NoClient}
      /\ recovering' = [recovering EXCEPT ![k] = FALSE]
      /\ failure' = [failure EXCEPT ![k] = "none"]
  BY <1>1 DEF EndAttempt, SessionInv, Owner
<1>4. \A i \in Clients : job'[i] = "none"
  BY <1>1, <1>3 DEF SessionInv, TypeOK, Attempts
<1>5. \A i \in Clients : conn[i] = "closed"
  BY <1>1, <1>2 DEF SessionInv, TypeOK, Attempts, Connections, IsConnected, IsStarting
<1>6. \/ phase = "stopped" /\ UNCHANGED <<phase, cur, retryOf, authTimer, retries, status>>
      \/ /\ phase = "starting" /\ cur' = NoClient
         /\ \/ /\ phase' = "waiting" /\ retryOf' = k /\ retries' = {k} /\ status' = "error"
               /\ authTimer' = authTimer
            \/ /\ phase' \in AuthErrors /\ retryOf' = NoClient /\ status' = phase'
               /\ retries' = retries
               /\ authTimer' \in BOOLEAN
               /\ authTimer' <=> phase' = "auth_expired" /\ cached = "none"
  <2>1. authTimer \in BOOLEAN
    BY DEF SessionInv, TypeOK
  <2>2. CASE phase = "stopped"
    BY <1>1, <2>2 DEF DisconnectResolves, ScheduleRetry, RetryGivesWay, Silent, StillOwns, IsStarting
  <2>3. CASE phase = "starting" /\ job[k] = "retry"
    BY <1>1, <1>2, <2>3 DEF DisconnectResolves, ScheduleRetry, RetryGivesWay, Emit
  <2>4. CASE phase = "starting" /\ job[k] = "surface"
    BY <1>1, <1>2, <2>1, <2>4 DEF DisconnectResolves, StillOwns, IsStarting, SurfaceConnectFailure,
       SetPhase, EnterAuthExpired, NothingCached, AuthErrors, Emit
  <2>5. job[k] = "drop" => phase = "stopped"
    BY <1>1 DEF SessionInv, Attempts
  <2> QED BY <1>1, <1>2, <2>2, <2>3, <2>4, <2>5
<1>7. TypeOK'
  BY <1>1, <1>3, <1>6 DEF SessionInv, TypeOK, Jobs, Phases, Statuses, AuthErrors
<1>8. Owner' /\ Attempts' /\ Connections'
  BY <1>1, <1>3, <1>4, <1>5, <1>6, ClientNumbers DEF SessionInv, Owner, Attempts, Connections,
     AuthErrors
<1>9. PhaseInSync'
  BY <1>1, <1>2, <1>6 DEF SessionInv, PhaseInSync, ConnectedIsWatched, TimersMatchPhase,
     StatusTracksPhase, AuthErrors
<1> QED BY <1>7, <1>8, <1>9 DEF SessionInv

-----------------------------------------------------------------------------
(* Timers, pings, refreshes and calls. *)

\* A step that leaves the phase, its attempts and its timers alone.
LEMMA QuietKeeps ==
  ASSUME SessionInv,
         UNCHANGED <<phaseVars, status, watchVars, timerVars, jobVars, ownerVars, disposing>>,
         cached' = cached \/ (cached' \in {"empty", "tools"} /\ phase = "connected"),
         conn' = conn \/ \E k \in Clients : conn[k] = "open" /\ Close(k),
         pings' \subseteq Clients, refreshes' \subseteq Clients,
         \A k \in Clients : job[k] # "none" => k \notin pings' \cup refreshes',
         call' \in [Calls -> {"none", "recover", "client"}],
         callOn' \in [Calls -> Clients \cup {NoClient}],
         up' \in BOOLEAN, token' \in {"valid", "expired", "missing"}
  PROVE  SessionInv'
<1> USE DEF phaseVars, watchVars, timerVars, jobVars, ownerVars
<1>1. conn' \in [Clients -> {"connecting", "abandoned", "open", "closed"}]
      /\ \A k \in Clients : conn'[k] \in {conn[k], "closed"}
  BY DEF Close, SessionInv, TypeOK
<1>2. TypeOK'
  BY <1>1 DEF SessionInv, TypeOK
<1>3. Owner' /\ Attempts' /\ Connections'
  BY <1>1 DEF SessionInv, TypeOK, Owner, Attempts, Connections, IsStarting, IsConnected
<1>4. PhaseInSync'
  BY DEF SessionInv, PhaseInSync, ConnectedIsWatched, TimersMatchPhase, StatusTracksPhase
<1> QED BY <1>2, <1>3, <1>4 DEF SessionInv

\* The connected client k is lost, to the credential or to its transport.
LEMMA LossKeeps ==
  ASSUME SessionInv, NEW k \in Clients, IsConnected(k), Unwatch,
         conn' = [conn EXCEPT ![k] = "closed"],
         \/ EnterAuthExpired /\ retries' = retries
         \/ ScheduleRetry(k) /\ authTimer' = authTimer,
         UNCHANGED <<cached, jobVars, ownerVars, disposing, envVars>>,
         pings' \subseteq pings, refreshes' \subseteq refreshes,
         call' \in [Calls -> {"none", "recover", "client"}],
         callOn' \in [Calls -> Clients \cup {NoClient}]
  PROVE  SessionInv'
<1> USE DEF jobVars, ownerVars, envVars
<1>1. ~authTimer /\ authTimer \in BOOLEAN /\ retries = {} /\ phase = "connected" /\ ~disposing
      /\ cur = k
  BY DEF IsConnected, SessionInv, TypeOK, Owner, PhaseInSync, TimersMatchPhase
<1>2. \A i \in Clients : job[i] = "none"
  BY <1>1, NoAttempt
<1>3. \A i \in Clients : conn'[i] = "closed"
  BY <1>1, <1>2 DEF SessionInv, TypeOK, Connections, IsConnected, IsStarting
<1>4. /\ cur' = NoClient /\ listener' = NoClient /\ pingTimer' = NoClient
      /\ \/ /\ phase' = "waiting" /\ retryOf' = k /\ retries' = {k} /\ status' = "error"
            /\ authTimer' = authTimer
         \/ /\ phase' = "auth_expired" /\ retryOf' = NoClient /\ status' = phase'
            /\ retries' = retries /\ authTimer' \in BOOLEAN
            /\ authTimer' <=> cached = "none"
  BY <1>1 DEF Unwatch, EnterAuthExpired, ScheduleRetry, RetryGivesWay, SetPhase, Emit, NothingCached
<1>5. TypeOK'
  BY <1>3, <1>4 DEF SessionInv, TypeOK, Phases, Statuses
<1>6. Owner' /\ Attempts' /\ Connections'
  BY <1>1, <1>2, <1>3, <1>4, ClientNumbers DEF SessionInv, Owner, Attempts, Connections
<1>7. PhaseInSync'
  BY <1>1, <1>4 DEF SessionInv, PhaseInSync, ConnectedIsWatched, TimersMatchPhase, StatusTracksPhase
<1> QED BY <1>5, <1>6, <1>7 DEF SessionInv

\* A client that is not connecting is closed by its disconnect.
LEMMA Disconnects ==
  ASSUME SessionInv, NEW k \in Clients, IsConnected(k), Disconnect(k)
  PROVE  conn' = [conn EXCEPT ![k] = "closed"]
BY DEF SessionInv, Connections, IsConnected, IsStarting, Disconnect

\* An open client that no attempt holds any more is the connected one.
LEMMA OpenIsConnected ==
  ASSUME SessionInv, NEW k \in Clients, conn[k] = "open", k \in pings \cup refreshes
  PROVE  IsConnected(k)
BY DEF SessionInv, Attempts, Connections

LEMMA TimersKeep ==
  ASSUME SessionInv, Timers \/ PingTick
  PROVE  SessionInv'
<1>1. ASSUME NEW t \in Clients, RetryFires(t) PROVE SessionInv'
  <2>1. phase = "waiting" /\ retries' = {} /\ ~authTimer /\ authTimer \in BOOLEAN
    BY <1>1 DEF RetryFires, SessionInv, TypeOK, PhaseInSync, TimersMatchPhase
  <2>2. PICK k \in Clients : BeginAttempt(k, FALSE)
    BY <1>1, <2>1 DEF RetryFires
  <2> QED BY <1>1, <2>1, <2>2, BeginKeeps DEF RetryFires, SessionInv, TypeOK, callVars, ownerVars
<1>2. CASE AuthRecoveryFires
  <2>1. phase = "auth_expired" /\ authTimer' = FALSE /\ retries' = {}
    BY <1>2 DEF AuthRecoveryFires, SessionInv, PhaseInSync, TimersMatchPhase
  <2>2. PICK k \in Clients : BeginAttempt(k, TRUE)
    BY <1>2, <2>1 DEF AuthRecoveryFires
  <2> QED BY <1>2, <2>1, <2>2, BeginKeeps DEF AuthRecoveryFires, SessionInv, TypeOK, callVars,
             ownerVars
<1>3. CASE PingTick
  <2>1. pingTimer \in Clients /\ phase = "connected" /\ pings' = pings \cup {pingTimer}
    BY <1>3 DEF PingTick, IsConnected, SessionInv, TypeOK
  <2>2. \A k \in Clients : job[k] = "none"
    BY <2>1, NoAttempt
  <2> QED BY <1>3, <2>1, <2>2, QuietKeeps DEF PingTick, Silent, SessionInv, TypeOK, flightVars,
             callVars, envVars
<1> QED BY <1>1, <1>2, <1>3 DEF Timers

LEMMA PingKeeps ==
  ASSUME SessionInv, NEW k \in Clients, PingResolves(k)
  PROVE  SessionInv'
<1>1. /\ k \in pings /\ pings' = pings \ {k}
      /\ UNCHANGED <<cached, jobVars, refreshes, callVars, ownerVars, disposing, envVars>>
  BY DEF PingResolves
<1>2. CASE Silent /\ UNCHANGED <<phaseVars, watchVars, timerVars, conn>>
  BY <1>1, <1>2, QuietKeeps DEF Silent, SessionInv, TypeOK, Attempts, callVars, envVars
<1>3. CASE IsConnected(k) /\ LoseCredential(k) /\ retries' = retries
  BY <1>1, <1>3, Disconnects, LossKeeps DEF LoseCredential, SessionInv, TypeOK, callVars
<1>4. CASE IsConnected(k) /\ Unwatch /\ Disconnect(k) /\ ScheduleRetry(k)
           /\ authTimer' = authTimer
  BY <1>1, <1>4, Disconnects, LossKeeps DEF SessionInv, TypeOK, callVars
<1> QED BY <1>2, <1>3, <1>4 DEF PingResolves

LEMMA RefreshKeeps ==
  ASSUME SessionInv, NEW k \in Clients, RefreshResolves(k)
  PROVE  SessionInv'
<1>1. /\ k \in refreshes /\ refreshes' = refreshes \ {k}
      /\ UNCHANGED <<retries, jobVars, pings, callVars, ownerVars, disposing, envVars>>
  BY DEF RefreshResolves
<1>2. PICK o \in RequestOutcomes(k) :
        \/ /\ o \notin AuthErrors
           /\ IF o = "ok" THEN cached' \in {"empty", "tools"} ELSE UNCHANGED cached
           /\ Silent
           /\ UNCHANGED <<phaseVars, watchVars, authTimer, conn>>
        \/ /\ o \in AuthErrors /\ IsConnected(k)
           /\ LoseCredential(k)
           /\ UNCHANGED cached
        \/ /\ o \in AuthErrors /\ ~IsConnected(k)
           /\ Silent
           /\ UNCHANGED <<phaseVars, cached, watchVars, authTimer, conn>>
  BY DEF RefreshResolves
<1>3. o = "ok" => phase = "connected"
  <2>1. o = "ok" => conn[k] = "open"
    BY DEF RequestOutcomes, AuthFailure
  <2> QED BY <1>1, <2>1, OpenIsConnected DEF IsConnected
<1>4. CASE Silent /\ UNCHANGED <<phaseVars, watchVars, authTimer, conn>>
           /\ (cached' = cached \/ (cached' \in {"empty", "tools"} /\ phase = "connected"))
  BY <1>1, <1>4, QuietKeeps DEF Silent, SessionInv, TypeOK, Attempts, timerVars, callVars, envVars
<1>5. CASE IsConnected(k) /\ LoseCredential(k) /\ UNCHANGED cached
  BY <1>1, <1>5, Disconnects, LossKeeps DEF LoseCredential, SessionInv, TypeOK, callVars
<1> QED BY <1>2, <1>3, <1>4, <1>5

LEMMA EventsKeep ==
  ASSUME SessionInv, NEW k \in Clients, ClientExits(k) \/ ToolsListChanged(k)
  PROVE  SessionInv'
<1>1. CASE ClientExits(k) /\ listener = k /\ IsConnected(k)
  BY <1>1, LossKeeps DEF ClientExits, TransportCloses, Close, SessionInv, TypeOK, flightVars, callVars
<1>2. CASE ClientExits(k) /\ ~(listener = k /\ IsConnected(k))
  BY <1>2, QuietKeeps DEF ClientExits, TransportCloses, Silent, SessionInv, TypeOK, Attempts,
     flightVars, callVars, envVars, timerVars
<1>3. CASE ToolsListChanged(k)
  <2>1. phase = "connected"
    BY <1>3, ClientNumbers DEF ToolsListChanged, SessionInv, PhaseInSync, ConnectedIsWatched
  <2>2. \A i \in Clients : job[i] = "none"
    BY <2>1, NoAttempt
  <2> QED BY <1>3, <2>2, QuietKeeps DEF ToolsListChanged, Silent, SessionInv, TypeOK, callVars, envVars
<1> QED BY <1>1, <1>2, <1>3

LEMMA CallsKeep ==
  ASSUME SessionInv, NEW c \in Calls, CallTool(c) \/ CallContinues(c) \/ CallResolves(c)
  PROVE  SessionInv'
<1> USE DEF callVars
<1>1. call' \in [Calls -> {"none", "recover", "client"}]
      /\ callOn' \in [Calls -> Clients \cup {NoClient}]
  BY DEF CallTool, CallContinues, CallResolves, SessionInv, TypeOK
<1>2. CASE CallTool(c) /\ Recovers
  <2>1. phase = "auth_expired" /\ authTimer' = FALSE
        /\ \E k \in Clients : BeginAttempt(k, TRUE)
    BY <1>2 DEF CallTool, Recovers
  <2>2. retries' = {}
    BY <1>2, <2>1 DEF CallTool, SessionInv, PhaseInSync, TimersMatchPhase
  <2> QED BY <1>1, <1>2, <2>1, <2>2, BeginKeeps DEF CallTool, SessionInv, TypeOK, ownerVars
<1>3. CASE (CallTool(c) /\ ~Recovers) \/ CallContinues(c)
  BY <1>1, <1>3, QuietKeeps DEF CallTool, CallContinues, Silent, SessionInv, TypeOK, Attempts,
     timerVars, flightVars, envVars
<1>4. CASE CallResolves(c)
  <2>1. UNCHANGED <<cached, retries, jobVars, flightVars, ownerVars, disposing, envVars>>
    BY <1>4 DEF CallResolves
  <2>2. CASE Silent /\ UNCHANGED <<phaseVars, watchVars, authTimer, conn>>
    BY <1>1, <2>1, <2>2, QuietKeeps DEF Silent, SessionInv, TypeOK, Attempts, timerVars,
       flightVars, envVars
  <2>3. CASE IsConnected(callOn[c]) /\ LoseCredential(callOn[c])
    <3>1. callOn[c] \in Clients
      BY <2>3 DEF IsConnected, SessionInv, TypeOK, Owner
    <3> QED BY <1>1, <2>1, <2>3, <3>1, Disconnects, LossKeeps DEF LoseCredential, flightVars
  <2> QED BY <1>4, <2>2, <2>3 DEF CallResolves
<1> QED BY <1>2, <1>3, <1>4

-----------------------------------------------------------------------------
(* restart, dispose, and the world. *)

LEMMA DisposeKeeps ==
  ASSUME SessionInv, Dispose
  PROVE  SessionInv'
<1> USE DEF phaseVars, flightVars, callVars, ownerVars, envVars, jobVars
<1>1. /\ phase' = "stopped" /\ cur' = NoClient /\ retryOf' = NoClient /\ disposing' = TRUE
      /\ listener' = NoClient /\ pingTimer' = NoClient /\ authTimer' = FALSE
      /\ status' = status /\ phase # "stopped"
      /\ UNCHANGED <<cached, job, recovering, failure, pings, refreshes, call, callOn,
                     startOn, restarting, restartOn, up, token>>
  BY DEF Dispose, Teardown, SetPhase, Unwatch, Silent
<1>2. retries' = {}
  BY DEF Dispose, Teardown, ClearsRetry, SessionInv, PhaseInSync, TimersMatchPhase
<1>3. conn' \in [Clients -> {"connecting", "abandoned", "open", "closed"}]
      /\ \A k \in Clients :
           conn'[k] = IF conn[k] = "connecting" THEN "abandoned"
                      ELSE IF conn[k] = "abandoned" THEN "abandoned" ELSE "closed"
  <2>1. CASE phase \in {"connected", "starting"}
    <3>1. Disconnect(cur) /\ cur \in Clients
      BY <2>1 DEF Dispose, Teardown, SessionInv, TypeOK, Owner
    <3>2. \A k \in Clients \ {cur} : conn[k] = "closed"
      BY <1>1 DEF SessionInv, TypeOK, Connections, IsStarting, IsConnected
    <3>3. conn[cur] # "abandoned"
      BY <1>1, <3>1 DEF SessionInv, Connections
    <3> QED BY <3>1, <3>2, <3>3 DEF Disconnect, SessionInv, TypeOK
  <2>2. CASE phase \notin {"connected", "starting"}
    <3>1. \A k \in Clients : conn[k] = "closed"
      BY <1>1, <2>2 DEF SessionInv, TypeOK, Connections, IsStarting, IsConnected
    <3> QED BY <2>2, <3>1 DEF Dispose, Teardown, SessionInv, TypeOK
  <2> QED BY <2>1, <2>2
<1>4. TypeOK'
  BY <1>1, <1>2, <1>3 DEF SessionInv, TypeOK, Phases
<1>5. Owner' /\ Connections'
  BY <1>1, <1>3 DEF SessionInv, Owner, Connections
<1>6. Attempts'
  BY <1>1 DEF SessionInv, Attempts, IsStarting, PhaseInSync, StatusTracksPhase
<1>7. PhaseInSync'
  BY <1>1, <1>2 DEF PhaseInSync, ConnectedIsWatched, TimersMatchPhase, StatusTracksPhase
<1> QED BY <1>4, <1>5, <1>6, <1>7 DEF SessionInv

LEMMA DisposedKeeps ==
  ASSUME SessionInv, DisposeContinues
  PROVE  SessionInv'
<1> USE DEF phaseVars, watchVars, timerVars, flightVars, callVars, ownerVars, envVars, jobVars
<1>1. /\ phase = "stopped" /\ status' = "stopped" /\ disposing' = FALSE
      /\ UNCHANGED <<phaseVars, cached, watchVars, timerVars, conn, jobVars, flightVars,
                     callVars, ownerVars, envVars>>
  BY DEF DisposeContinues, Emit, SessionInv, Owner
<1>2. TypeOK'
  <2>1. disposing' \in BOOLEAN /\ status' \in Statuses
    BY <1>1 DEF Statuses
  <2> QED BY <1>1, <2>1 DEF SessionInv, TypeOK
<1>3. Owner' /\ Attempts' /\ Connections'
  BY <1>1 DEF DisposeContinues, SessionInv, Owner, Attempts, Connections, IsStarting, IsConnected
<1>4. PhaseInSync'
  BY <1>1 DEF DisposeContinues, SessionInv, PhaseInSync, ConnectedIsWatched, TimersMatchPhase,
     StatusTracksPhase
<1> QED BY <1>2, <1>3, <1>4 DEF SessionInv

LEMMA WorldKeeps ==
  ASSUME SessionInv, UpstreamChanges \/ TokenChanges
  PROVE  SessionInv'
BY QuietKeeps DEF UpstreamChanges, TokenChanges, Silent, SessionInv, TypeOK, Attempts, flightVars,
   callVars

LEMMA Inductive ==
  ASSUME SessionInv, ~AllowRestart, [Next]_vars
  PROVE  SessionInv'
<1>1. CASE UNCHANGED vars
  BY <1>1 DEF vars, phaseVars, watchVars, timerVars, jobVars, flightVars, callVars, ownerVars,
     envVars, SessionInv, TypeOK, Owner, Attempts, Connections, IsStarting, IsConnected,
     PhaseInSync, ConnectedIsWatched, TimersMatchPhase, StatusTracksPhase
<1>2. ~Restart /\ ~RestartContinues
  BY DEF Restart, RestartContinues, SessionInv, Owner
<1>3. CASE Settles
  BY <1>2, <1>3, ConnectKeeps, ListKeeps, DisconnectKeeps, DisposedKeeps DEF Settles
<1>4. CASE Next /\ ~Settles
  BY <1>2, <1>4, TimersKeep, PingKeeps, RefreshKeeps, CallsKeep, StartKeeps, EventsKeep,
     DisposeKeeps, WorldKeeps DEF Next, Watches, CallSettles
<1> QED BY <1>1, <1>3, <1>4

-----------------------------------------------------------------------------
(* A disposed session. *)

\* Nothing touches the phase of a disposed session, with or without restart().
LEMMA StoppedStays ==
  ASSUME phase = "stopped", [Next]_vars
  PROVE  /\ UNCHANGED phaseVars
         /\ status' = status \/ (disposing /\ status' = "stopped")
<1> USE DEF phaseVars, Silent
<1>1. CASE UNCHANGED vars
  BY <1>1 DEF vars
<1>2. CASE Settles
  BY <1>2 DEF Settles, ConnectResolves, ListResolves, DisconnectResolves, RestartContinues,
     DisposeContinues, IsStarting, StillOwns, ScheduleRetry, RetryGivesWay, Emit
<1>3. CASE Timers \/ Watches
  BY <1>3 DEF Timers, Watches, RetryFires, AuthRecoveryFires, PingResolves, RefreshResolves,
     IsConnected
<1>4. CASE CallSettles \/ \E c \in Calls : CallTool(c)
  BY <1>4 DEF CallSettles, CallTool, CallContinues, CallResolves, Recovers, IsConnected
<1>5. CASE \E k \in Clients : Start(k) \/ ClientExits(k) \/ ToolsListChanged(k)
  BY <1>5 DEF Start, ClientExits, ToolsListChanged, IsConnected
<1>6. CASE PingTick \/ Restart \/ Dispose \/ UpstreamChanges \/ TokenChanges
  BY <1>6 DEF PingTick, Restart, Dispose, UpstreamChanges, TokenChanges
<1> QED BY <1>1, <1>2, <1>3, <1>4, <1>5, <1>6 DEF Next

-----------------------------------------------------------------------------
(* The session as an AbstractSession. *)

LEMMA Transitions ==
  /\ Promise!Statuses = Statuses
  /\ Promise!Allowed["stopped"] = {"starting"}
  /\ Promise!Allowed["starting"] =
       {"connected", "error", "auth_required", "auth_expired", "stopped"}
  /\ Promise!Allowed["connected"] = {"starting", "error", "auth_expired", "stopped"}
  /\ Promise!Allowed["error"] = {"starting", "stopped"}
  /\ Promise!Allowed["auth_required"] = {"starting", "stopped"}
  /\ Promise!Allowed["auth_expired"] = {"starting", "auth_required", "stopped"}
BY DEF Promise!Statuses, Promise!Allowed, Statuses

\* A legal transition of a session that is not disposed.
LEMMA ChangesKept ==
  ASSUME phase # "stopped", phase' # "stopped", status' \in Statuses,
         status' \in Promise!Allowed[status],
         cached' = cached \/ (status' = "connected" /\ cached' \in {"empty", "tools"})
  PROVE  Promise!Next
<1>1. Promise!Change(status')
  BY DEF Promise!Change
<1> QED BY <1>1, Transitions DEF Promise!Next

LEMMA BeginsKept ==
  ASSUME SessionInv, NEW k \in Clients, NEW rec \in BOOLEAN, BeginAttempt(k, rec),
         phase \in {"idle", "waiting", "auth_expired"}, cached' = cached
  PROVE  Promise!Next
<1>1. status' = "starting" /\ phase' = "starting"
  BY DEF BeginAttempt, Emit
<1>2. status \in {"stopped", "error", "auth_expired"}
  BY DEF SessionInv, PhaseInSync, StatusTracksPhase
<1> QED BY <1>1, <1>2, Transitions, ChangesKept DEF Statuses

LEMMA LossesKept ==
  ASSUME SessionInv, NEW k \in Clients, IsConnected(k), EnterAuthExpired \/ ScheduleRetry(k),
         cached' = cached
  PROVE  Promise!Next
<1>1. status = "connected" /\ phase = "connected"
  BY DEF IsConnected, SessionInv, PhaseInSync, StatusTracksPhase
<1>2. status' \in {"error", "auth_expired"} /\ phase' \in {"waiting", "auth_expired"}
  BY <1>1 DEF EnterAuthExpired, ScheduleRetry, RetryGivesWay, SetPhase, Emit
<1> QED BY <1>1, <1>2, Transitions, ChangesKept DEF Statuses

PromiseStep == Promise!Next \/ UNCHANGED <<status, cached, phase = "stopped">>

LEMMA SettlesKept ==
  ASSUME SessionInv, ~AllowRestart, Settles
  PROVE  PromiseStep
<1> USE DEF PromiseStep, phaseVars, Silent
<1>1. ASSUME NEW k \in Clients, ConnectResolves(k) PROVE PromiseStep
  BY <1>1 DEF ConnectResolves
<1>2. ASSUME NEW k \in Clients, ListResolves(k) PROVE PromiseStep
  <2>1. CASE IsStarting(k)
    <3>1. phase = "starting" /\ status = "starting"
      BY <2>1 DEF IsStarting, SessionInv, PhaseInSync, StatusTracksPhase
    <3>2. CASE phase' = "connected" /\ Emit("connected")
      <4>1. cached' = cached \/ cached' \in {"empty", "tools"}
        BY <1>2 DEF ListResolves
      <4> QED BY <3>1, <3>2, <4>1, Transitions, ChangesKept DEF Emit, Statuses
    <3>3. CASE ~(phase' = "connected" /\ Emit("connected"))
      BY <1>2, <2>1, <3>3 DEF ListResolves, AuthErrors
    <3> QED BY <3>2, <3>3
  <2>2. CASE ~IsStarting(k)
    <3>1. phase = "stopped" /\ status \in {"starting", "stopped"}
      BY <1>2, <2>2 DEF ListResolves, SessionInv, Attempts
    <3>2. phase' = phase /\ status' = status
          /\ (cached' = cached \/ cached' \in {"empty", "tools"})
      BY <1>2, <2>2 DEF ListResolves
    <3> QED BY <3>1, <3>2 DEF Promise!Next, Promise!LateList
  <2> QED BY <2>1, <2>2
<1>3. ASSUME NEW k \in Clients, DisconnectResolves(k) PROVE PromiseStep
  <2>1. CASE phase = "stopped"
    BY <1>3, <2>1 DEF DisconnectResolves, ScheduleRetry, RetryGivesWay, StillOwns, IsStarting
  <2>2. CASE phase # "stopped"
    <3>1. phase = "starting" /\ status = "starting" /\ cached' = cached /\ job[k] # "drop"
      BY <1>3, <2>2 DEF DisconnectResolves, IsStarting, SessionInv, Attempts, PhaseInSync,
         StatusTracksPhase
    <3>2. \/ status' \in {"error", "auth_required", "auth_expired"} /\ phase' # "stopped"
          \/ UNCHANGED <<status, phase>>
      BY <1>3, <3>1 DEF DisconnectResolves, ScheduleRetry, RetryGivesWay, SurfaceConnectFailure,
         EnterAuthExpired, SetPhase, Emit
    <3> QED BY <2>2, <3>1, <3>2, Transitions, ChangesKept DEF Statuses
  <2> QED BY <2>1, <2>2
<1>4. CASE DisposeContinues
  <2>1. phase = "stopped" /\ phase' = phase /\ cached' = cached /\ status' = "stopped"
    BY <1>4 DEF DisposeContinues, Emit, SessionInv, Owner
  <2>2. CASE status # "stopped"
    <3>1. status \in Statuses /\ "stopped" \in Promise!Allowed[status]
      BY <2>2, Transitions DEF SessionInv, TypeOK, Statuses
    <3>2. Promise!Change("stopped")
      BY <2>1, <3>1 DEF Promise!Change
    <3> QED BY <3>2, Transitions DEF Promise!Next, Statuses
  <2> QED BY <2>1, <2>2
<1>5. ~RestartContinues
  BY DEF RestartContinues, SessionInv, Owner
<1> QED BY <1>1, <1>2, <1>3, <1>4, <1>5 DEF Settles

LEMMA OthersKept ==
  ASSUME SessionInv, ~AllowRestart, Next, ~Settles
  PROVE  PromiseStep
<1> USE DEF PromiseStep, phaseVars, Silent
<1>1. CASE Timers
  BY <1>1, BeginsKept DEF Timers, RetryFires, AuthRecoveryFires
<1>2. ASSUME NEW k \in Clients, PingResolves(k) PROVE PromiseStep
  BY <1>2, LossesKept DEF PingResolves, LoseCredential
<1>3. ASSUME NEW k \in Clients, RefreshResolves(k) PROVE PromiseStep
  <2>1. CASE IsConnected(k) /\ EnterAuthExpired /\ cached' = cached
    BY <2>1, LossesKept
  <2>2. CASE UNCHANGED <<phase, status>>
             /\ (cached' = cached \/ (conn[k] = "open" /\ cached' \in {"empty", "tools"}))
    <3>1. conn[k] = "open" => phase = "connected" /\ status = "connected"
      BY <1>3, OpenIsConnected DEF RefreshResolves, IsConnected, SessionInv, PhaseInSync,
         StatusTracksPhase
    <3> QED BY <2>2, <3>1 DEF Promise!Next, Promise!Reload
  <2>3. "ok" \in RequestOutcomes(k) => conn[k] = "open"
    BY DEF RequestOutcomes, AuthFailure
  <2> QED BY <1>3, <2>1, <2>2, <2>3 DEF RefreshResolves, LoseCredential
<1>4. ASSUME NEW c \in Calls, CallTool(c) \/ CallContinues(c) \/ CallResolves(c) PROVE PromiseStep
  <2>1. CASE CallTool(c) \/ CallContinues(c)
    BY <2>1, BeginsKept DEF CallTool, CallContinues, Recovers
  <2>2. CASE CallResolves(c)
    <3>1. IsConnected(callOn[c]) => callOn[c] \in Clients
      BY DEF IsConnected, SessionInv, TypeOK, Owner
    <3> QED BY <2>2, <3>1, LossesKept DEF CallResolves, LoseCredential
  <2> QED BY <1>4, <2>1, <2>2
<1>5. ASSUME NEW k \in Clients, Start(k) \/ ClientExits(k) \/ ToolsListChanged(k) PROVE PromiseStep
  BY <1>5, BeginsKept, LossesKept DEF Start, ClientExits, ToolsListChanged
<1>6. CASE Dispose
  BY <1>6 DEF Dispose, Teardown, SetPhase, Promise!Next, Promise!Dispose
<1>7. CASE PingTick \/ UpstreamChanges \/ TokenChanges
  BY <1>7 DEF PingTick, UpstreamChanges, TokenChanges
<1>8. ~Restart
  BY DEF Restart
<1> QED BY <1>1, <1>2, <1>3, <1>4, <1>5, <1>6, <1>7, <1>8 DEF Next, Watches, CallSettles

-----------------------------------------------------------------------------
\* The inductive invariant, of sessions as the gateway runs them: restart() is
\* not called.
THEOREM SessionInvariant ==
  ASSUME ~AllowRestart
  PROVE  Spec => []SessionInv
<1>1. Init => SessionInv
  BY InitHolds
<1>2. SessionInv /\ [Next]_vars => SessionInv'
  BY Inductive
<1> QED BY <1>1, <1>2, PTL DEF Spec

\* There is one live connection at most, and somebody will close it.
THEOREM SingleConnection ==
  ASSUME ~AllowRestart
  PROVE  Spec => []OneConnection
<1>1. SessionInv => OneConnection
  BY DEF SessionInv, TypeOK, Attempts, Connections, OneConnection, Live, IsStarting, IsConnected
<1> QED BY <1>1, SessionInvariant, PTL

\* Listeners, timers and the published status go with the phase.
THEOREM StaysInSync ==
  ASSUME ~AllowRestart
  PROVE  Spec => []PhaseInSync
<1>1. SessionInv => PhaseInSync
  BY DEF SessionInv
<1> QED BY <1>1, SessionInvariant, PTL

\* The only attempts that an action but DisconnectResolves ends own the phase, and
\* what it does with restart() allowed; the table of attempts stays one.
LEMMA AttemptsEnd ==
  ASSUME job \in [Clients -> Jobs], [Next]_vars
  PROVE  /\ job' \in [Clients -> Jobs]
         /\ \A k \in Clients :
              (job[k] # "none" /\ job'[k] = "none" /\ ~IsStarting(k)) =>
                \/ UNCHANGED phaseVars
                \/ job[k] = "retry" /\ ScheduleRetry(k)
<1> USE DEF Jobs
<1>1. ASSUME NEW i \in Clients, ConnectResolves(i)
      PROVE  /\ job' = [job EXCEPT ![i] = job'[i]] /\ job'[i] \in Jobs
             /\ job'[i] # "none"
  BY <1>1 DEF ConnectResolves, GoOn
<1>2. ASSUME NEW i \in Clients, ListResolves(i)
      PROVE  /\ job' = [job EXCEPT ![i] = job'[i]] /\ job'[i] \in Jobs
             /\ job'[i] = "none" => IsStarting(i)
  BY <1>2 DEF ListResolves, GoOn, EndAttempt
<1>3. ASSUME NEW i \in Clients, DisconnectResolves(i)
      PROVE  /\ job' = [job EXCEPT ![i] = "none"]
             /\ ~IsStarting(i) => \/ UNCHANGED phaseVars
                                  \/ job[i] = "retry" /\ ScheduleRetry(i)
  BY <1>3 DEF DisconnectResolves, EndAttempt, StillOwns
<1>4. ASSUME NEW i \in Clients, NEW b \in BOOLEAN, BeginAttempt(i, b)
      PROVE  job' = [job EXCEPT ![i] = "connect"]
  BY <1>4 DEF BeginAttempt
<1>5. CASE UNCHANGED job
  BY <1>5
<1>6. CASE \E i \in Clients, b \in BOOLEAN : BeginAttempt(i, b)
  BY <1>4, <1>6
<1>7. CASE \E i \in Clients : ConnectResolves(i) \/ ListResolves(i) \/ DisconnectResolves(i)
  BY <1>1, <1>2, <1>3, <1>7
<1>8. \/ UNCHANGED job
      \/ \E i \in Clients, b \in BOOLEAN : BeginAttempt(i, b)
      \/ \E i \in Clients : ConnectResolves(i) \/ ListResolves(i) \/ DisconnectResolves(i)
  <2>1. CASE UNCHANGED vars
    BY <2>1 DEF vars, jobVars
  <2>2. CASE Settles
    BY <2>2 DEF Settles, RestartContinues, DisposeContinues, jobVars
  <2>3. CASE Timers \/ Watches
    BY <2>3 DEF Timers, Watches, RetryFires, AuthRecoveryFires, PingResolves, RefreshResolves,
       jobVars
  <2>4. CASE CallSettles \/ \E c \in Calls : CallTool(c)
    BY <2>4 DEF CallSettles, CallTool, CallContinues, CallResolves, jobVars
  <2>5. CASE \E k \in Clients : Start(k) \/ ClientExits(k) \/ ToolsListChanged(k)
    BY <2>5 DEF Start, ClientExits, ToolsListChanged, jobVars
  <2>6. CASE PingTick \/ Restart \/ Dispose \/ UpstreamChanges \/ TokenChanges
    BY <2>6 DEF PingTick, Restart, Dispose, UpstreamChanges, TokenChanges, jobVars
  <2> QED BY <2>1, <2>2, <2>3, <2>4, <2>5, <2>6 DEF Next
<1> QED BY <1>5, <1>6, <1>7, <1>8

\* An attempt that has lost the phase ends without touching it, with restart() too
\* but for the retry that overtakes it.
THEOREM StaleAttempts == Spec => StaleAttemptIsHarmless
<1> DEFINE Harmless == \A k \in Clients :
             (job[k] # "none" /\ job'[k] = "none" /\ ~IsStarting(k))
               => UNCHANGED phaseVars \/ RetryOvertakesRestart(k)
<1>1. CASE ~AllowRestart
  <2>1. SessionInv /\ [Next]_vars => [Harmless]_vars
    BY StoppedStays DEF SessionInv, Attempts
  <2> QED BY <1>1, <2>1, SessionInvariant, PTL DEF Spec, StaleAttemptIsHarmless
<1>2. CASE AllowRestart
  <2> DEFINE Table == job \in [Clients -> Jobs]
  <2>1. Init => Table
    BY DEF Init, Jobs
  <2>2. Table /\ [Next]_vars => Table'
    BY AttemptsEnd
  <2>3. ASSUME Table, [Next]_vars, NEW k \in Clients,
               job[k] # "none", job'[k] = "none", ~IsStarting(k)
        PROVE  UNCHANGED phaseVars \/ RetryOvertakesRestart(k)
    <3>1. UNCHANGED phaseVars \/ (job[k] = "retry" /\ ScheduleRetry(k))
      BY <2>3, AttemptsEnd
    <3> QED
      BY <1>2, <2>3, <3>1 DEF ScheduleRetry, RetryGivesWay, RetryOvertakesRestart
  <2>4. Table /\ [Next]_vars => [Harmless]_vars
    BY <2>3
  <2> QED BY <2>1, <2>2, <2>4, PTL DEF Spec, StaleAttemptIsHarmless
<1> QED BY <1>1, <1>2

\* A disposed session stays disposed and falls silent, with restart() too.
THEOREM DisposedForGood == Spec => StaysDisposed
<1>1. [Next]_vars => [phase = "stopped" =>
        /\ phase' = "stopped"
        /\ status' = status \/ (disposing /\ status' = "stopped")]_vars
  BY StoppedStays DEF phaseVars
<1> QED BY <1>1, PTL DEF Spec, StaysDisposed

\* DisposedOnlyEnds: nothing that dispose leaves behind lives on or starts again.
THEOREM DisposeLeavesNothing ==
  ASSUME ~AllowRestart
  PROVE  Spec => DisposedOnlyEnds
<1> DEFINE Ends(k) == /\ job'[k] # "none" => job[k] # "none"
                      /\ Live(k)' => Live(k)
<1>1. ASSUME SessionInv, [Next]_vars, phase = "stopped", NEW k \in Clients PROVE Ends(k)
  <2> USE DEF SessionInv, TypeOK, Live
  <2>1. UNCHANGED phaseVars /\ cur = NoClient
    BY <1>1, StoppedStays DEF Owner
  <2>2. ASSUME NEW i \in Clients, ConnectResolves(i) \/ ListResolves(i) \/ DisconnectResolves(i)
        PROVE  Ends(k)
    BY <1>1, <2>2 DEF ConnectResolves, ListResolves, DisconnectResolves, DropStale, Close,
      Disconnect, GoOn, EndAttempt, IsStarting, Attempts
  <2>3. CASE RestartContinues \/ DisposeContinues
    BY <2>3, <1>1 DEF RestartContinues, DisposeContinues, jobVars, Owner
  <2>4. CASE Timers
    BY <2>4, <1>1 DEF Timers, RetryFires, AuthRecoveryFires, jobVars
  <2>5. CASE Watches
    BY <2>5, <1>1 DEF Watches, PingResolves, RefreshResolves, IsConnected, jobVars
  <2>6. CASE CallSettles \/ \E c \in Calls : CallTool(c)
    BY <2>6, <1>1 DEF CallSettles, CallTool, CallContinues, CallResolves, Recovers, IsConnected,
      jobVars
  <2>7. CASE \E i \in Clients : Start(i) \/ ClientExits(i) \/ ToolsListChanged(i)
    BY <2>7, <1>1 DEF Start, ClientExits, TransportCloses, Close, ToolsListChanged, jobVars
  <2>8. CASE PingTick \/ Restart \/ Dispose \/ UpstreamChanges \/ TokenChanges
    BY <2>8, <1>1 DEF PingTick, Restart, Dispose, UpstreamChanges, TokenChanges, jobVars
  <2>9. CASE UNCHANGED vars
    BY <2>9 DEF vars, jobVars
  <2> QED BY <1>1, <2>2, <2>3, <2>4, <2>5, <2>6, <2>7, <2>8, <2>9 DEF Next, Settles
<1>2. ASSUME SessionInv, phase = "stopped"
      PROVE  /\ retries = {} /\ ~authTimer /\ listener = NoClient /\ pingTimer = NoClient
             /\ \A k \in Clients : Live(k) => job[k] = "connect"
  BY <1>2 DEF SessionInv, TypeOK, PhaseInSync, TimersMatchPhase, ConnectedIsWatched, Connections,
    IsStarting, IsConnected, Live
<1>3. SessionInv /\ [Next]_vars => [phase = "stopped" =>
       /\ retries = {} /\ ~authTimer /\ listener = NoClient /\ pingTimer = NoClient
       /\ \A k \in Clients :
            /\ Live(k) => job[k] = "connect"
            /\ job'[k] # "none" => job[k] # "none"
            /\ Live(k)' => Live(k)]_vars
  BY <1>1, <1>2
<1> QED BY <1>3, SessionInvariant, PTL DEF Spec, DisposedOnlyEnds

\* The session implements the session that the gateway is built on.
THEOREM PromiseKept ==
  ASSUME ~AllowRestart
  PROVE  Spec => KeepsPromise
<1>1. Init => Promise!Init
  BY DEF Init, Promise!Init
<1>2. SessionInv /\ [Next]_vars => [Promise!Next]_Promise!sessionVars
  <2>1. UNCHANGED vars => UNCHANGED Promise!sessionVars
    BY DEF vars, phaseVars, Promise!sessionVars
  <2> QED BY <2>1, SettlesKept, OthersKept DEF PromiseStep, Promise!sessionVars
<1> QED BY <1>1, <1>2, SessionInvariant, PTL DEF Spec, KeepsPromise, Promise!Spec
=============================================================================
