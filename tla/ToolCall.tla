------------------------------ MODULE ToolCall ------------------------------
(***************************************************************************)
(* One tools/call from the downstream handler to its answer:               *)
(* registerToolsCallHandler (mcp-gateway, handlers/tools-call.ts) decides  *)
(* whether the tool may be called, routeToolCall (core, proxy/route.ts)    *)
(* sends it to the sandbox (SandboxRun) or to the session of its upstream, *)
(* and races the session's answer against the timeout and the caller's     *)
(* cancellation.                                                           *)
(*                                                                         *)
(* All calls here are of one tool, which is custom or upstream.  RunCommand *)
(* composes the steps into a specification.                                *)
(***************************************************************************)
EXTENDS SandboxRun

VARIABLES
  source,    \* entry.source: "custom" or "upstream"
  deadline,  \* a timeoutMs is configured for the server
  present,   \* the registry has the entry
  callable,  \* isToolEnabled and, under disclosure, visibility.isVisible
  status,    \* the status of the upstream session, "absent" without one
  routing,   \* routing[c]: idle, racing, answered (for a custom tool: idle)
  reply,     \* reply[c]: the RouteResult, or the handler's refusal
  raceTimer, \* raceTimer[c]: the timer of the race is armed
  listens,   \* listens[c]: onCallerAbort is attached to the caller's signal
  cut,       \* cut[c]: the controller whose signal the session has is aborted
  upstream   \* upstream[c]: session.callTool: none, pending, or its outcome

toolVars == <<source, deadline, present, callable, status>>
raceVars == <<routing, reply, raceTimer, listens, cut, upstream>>
callVars == <<vars, toolVars, raceVars>>

Calls == Runs \ Describes
Unavailable == {"starting", "auth_required", "down"}
Statuses == {"connected", "auth_expired", "absent"} \cup Unavailable
Upstream == source = "upstream"

CallInit ==
  /\ Init
  /\ source \in {"custom", "upstream"}
  /\ deadline \in BOOLEAN
  /\ IF source = "custom" THEN ~deadline ELSE file = "none"
  /\ present = TRUE /\ callable = TRUE /\ status = "connected"
  /\ routing = [c \in Calls |-> "idle"]
  /\ reply = [c \in Calls |-> "none"]
  /\ raceTimer = [c \in Calls |-> FALSE]
  /\ listens = [c \in Calls |-> FALSE]
  /\ cut = [c \in Calls |-> FALSE]
  /\ upstream = [c \in Calls |-> "none"]

-----------------------------------------------------------------------------
\* The handler refuses a tool that it knows and that is disabled or hidden.
Refused == present /\ ~callable

\* Its refusal, then routeToolCall's decision tree: server_unavailable is named
\* by the status it carries (without a session that of a stopped one); "call" is
\* a call that reaches the session.  Status is re-read at the call.
Decision ==
  IF Refused THEN "refused"
  ELSE IF ~present /\ status = "auth_expired" THEN "auth_expired"
  ELSE IF status \in Unavailable THEN status
  ELSE IF ~present THEN "unknown_tool"
  ELSE IF status = "absent" THEN "down"
  ELSE "call"

\* toMcpError: whatever the upstream said, its errors are InternalErrors.
ErrorCode(r) ==
  CASE r \in {"unknown_tool", "refused"} -> "MethodNotFound"
    [] r = "invalid_args" -> "InvalidParams"
    [] OTHER -> "InternalError"

\* What the client gets: a result, the result that says the credential has
\* expired, or an McpError whose data tell its reason.
Response(r) ==
  CASE r = "ok" -> [form |-> "result", code |-> "none", data |-> "none"]
    [] r = "auth_expired" -> [form |-> "result", code |-> "none", data |-> r]
    [] OTHER -> [form |-> "error", code |-> ErrorCode(r), data |-> r]

\* The caller's signal is attached to the controller, callTool starts and the
\* timer is armed, without an await in between.
Dispatch(c) ==
  /\ Upstream /\ routing[c] = "idle"
  /\ \/ /\ Decision # "call"
        /\ routing' = [routing EXCEPT ![c] = "answered"]
        /\ reply' = [reply EXCEPT ![c] = Decision]
        /\ UNCHANGED <<raceTimer, listens, cut, upstream>>
     \/ /\ Decision = "call"
        /\ routing' = [routing EXCEPT ![c] = "racing"]
        /\ raceTimer' = [raceTimer EXCEPT ![c] = deadline]
        /\ listens' = [listens EXCEPT ![c] = ~aborted[c]]
        /\ cut' = [cut EXCEPT ![c] = aborted[c]]
        /\ upstream' = [upstream EXCEPT ![c] = "pending"]
        /\ UNCHANGED reply
  /\ UNCHANGED <<vars, toolVars>>

\* The session's call ends, in time or long after the race is over.
UpstreamEnds(c) ==
  /\ upstream[c] = "pending"
  /\ \E o \in {"ok", "upstream_error", "timeout", "auth_expired"} :
       upstream' = [upstream EXCEPT ![c] = o]
  /\ UNCHANGED <<vars, toolVars, routing, reply, raceTimer, listens, cut>>

\* finally: the timer is cleared and the listener removed.
Conclude(c, r) ==
  /\ routing[c] = "racing"
  /\ routing' = [routing EXCEPT ![c] = "answered"]
  /\ reply' = [reply EXCEPT ![c] = r]
  /\ raceTimer' = [raceTimer EXCEPT ![c] = FALSE]
  /\ listens' = [listens EXCEPT ![c] = FALSE]

\* describeUpstreamError: a RequestTimeout of the session is a timeout only when
\* a timeoutMs is known.
Described(o) == IF o = "timeout" /\ ~deadline THEN "upstream_error" ELSE o

\* callPromise wins.
Win(c) ==
  /\ upstream[c] \notin {"none", "pending"}
  /\ Conclude(c, Described(upstream[c]))
  /\ UNCHANGED <<vars, toolVars, cut, upstream>>

\* Mutant: the timeout is reported and the session's call left alone.
KeepCalling(b) == b

CutOff(b) == TRUE

\* The timer wins: it aborts the controller and does not wait for the session.
RaceTimeout(c) ==
  /\ raceTimer[c]
  /\ cut' = [cut EXCEPT ![c] = CutOff(@)]
  /\ Conclude(c, "timeout")
  /\ UNCHANGED <<vars, toolVars, upstream>>

\* The caller cancels: the route goes on, its controller is aborted.
CallerAborts(c) ==
  /\ Upstream /\ ~aborted[c] /\ routing[c] # "answered"
  /\ aborted' = [aborted EXCEPT ![c] = TRUE]
  /\ cut' = [cut EXCEPT ![c] = @ \/ listens[c]]
  /\ listens' = [listens EXCEPT ![c] = FALSE]
  /\ UNCHANGED <<pc, outcome, wrapped, cleanups, timer, exitSeen, childVars, fileVars,
                 toolVars, routing, reply, raceTimer, upstream>>

\* Before a call is routed the tool may go away, be disabled or hidden, and its
\* server's session change its status; later nothing reads them.
ToolChanges ==
  /\ Upstream /\ \E c \in Calls : routing[c] = "idle"
  /\ present' \in BOOLEAN /\ callable' \in BOOLEAN /\ status' \in Statuses
  /\ UNCHANGED <<vars, source, deadline, raceVars>>

-----------------------------------------------------------------------------
\* The answers of a custom tool as routeToolCall returns them: toRouteResult,
\* and an answer of the tool that is no CallToolResult is an upstream error.
RouteResultsOf(o) ==
  CASE o = "ok" -> {"ok", "upstream_error"}
    [] o = "timeout" -> {"timeout"}
    [] o = "invalid-args" -> {"invalid_args"}
    [] OTHER -> {"upstream_error"}

\* executor.run resolves; routeToolCall hands it on.
CustomAnswer(c) ==
  /\ ~Upstream /\ pc[c] = "settled" /\ reply[c] = "none"
  /\ \E r \in RouteResultsOf(outcome[c]) : reply' = [reply EXCEPT ![c] = r]
  /\ UNCHANGED <<vars, toolVars, routing, raceTimer, listens, cut, upstream>>

RunStep == ~Upstream /\ Next /\ UNCHANGED <<toolVars, raceVars>>

-----------------------------------------------------------------------------
\* Nobody works on for a caller that is gone: when a call has been cancelled or
\* answered by a timeout, its child is killed, or the session has been told and
\* the timer and the listener of the race are released.
CancelReaches ==
  /\ AbortStops
  /\ \A c \in Calls :
       /\ (routing[c] = "answered" \/ aborted[c]) /\ upstream[c] = "pending" => cut[c]
       /\ routing[c] = "answered" => ~raceTimer[c] /\ ~listens[c]

\* Every call is answered: a custom tool's whatever the tool does, and its
\* process ends; an upstream's, under a timeout, whatever the session does.
CallsEnd ==
  /\ RunsAreReaped
  /\ \A c \in Calls :
       /\ (routing[c] = "racing" /\ deadline) ~> routing[c] = "answered"
       /\ pc[c] = "wrapping" ~> reply[c] # "none"
=============================================================================
