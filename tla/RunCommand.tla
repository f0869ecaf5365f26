----------------------------- MODULE RunCommand -----------------------------
(***************************************************************************)
(* `tlbx run <tool>` (apps/cli/src/commands/run.ts, run-shared.ts) and the *)
(* gateway it calls: the command opens a client of the daemon (core,       *)
(* daemon-client), lists the tools, calls one, again while its server is   *)
(* still starting, and turns the answer into an exit code.                 *)
(*                                                                         *)
(* A call of ToolCall is made by a command or, as there, by an MCP client. *)
(* How the daemon is found or started is ServeDaemon.                      *)
(***************************************************************************)
EXTENDS ToolCall

CONSTANT MaxTries  \* bound: calls of one command (deadline / interval)

ASSUME TriesAssumption == MaxTries \in Nat \ {0}

VARIABLES
  stage,  \* stage[c]: "direct" for an MCP client's call; else where runRun is
  exit,   \* exit[c]: its exit code, by the name of the constant
  tries,  \* calls made in callToolAwaitingStartup
  ran,    \* how often the tool itself has been started for c
  link    \* link[c]: the daemon client: none, open, closed

runVars == <<stage, exit, tries, ran, link>>
allVars == <<callVars, runVars>>

\* "shown" is EXIT_SUCCESS of a discovery, which calls no tool.
Exits == {"success", "shown", "tool_error", "usage", "daemon", "unknown_tool", "auth", "timeout"}

RunInit ==
  /\ CallInit
  /\ stage \in [Calls -> {"direct", "start"}]
  /\ exit = [c \in Calls |-> "none"]
  /\ tries = [c \in Calls |-> 0]
  /\ ran = [c \in Calls |-> 0]
  /\ link = [c \in Calls |-> "none"]

-----------------------------------------------------------------------------
\* Every way out: the code is set, and finally closes a client that was opened.
ExitWith(c, e) ==
  /\ stage' = [stage EXCEPT ![c] = "over"]
  /\ exit' = [exit EXCEPT ![c] = e]
  /\ link' = [link EXCEPT ![c] = IF @ = "open" THEN "closed" ELSE @]

\* The flags, the target or the input document are wrong: nobody is asked.
RejectsInput(c) ==
  /\ stage[c] = "start"
  /\ ExitWith(c, "usage")
  /\ UNCHANGED <<callVars, tries, ran>>

\* ensureDaemon and connectDaemonClient, which closes what does not connect.
Connects(c) ==
  /\ stage[c] = "start"
  /\ \/ /\ stage' = [stage EXCEPT ![c] = "listing"]
        /\ link' = [link EXCEPT ![c] = "open"]
        /\ UNCHANGED exit
     \/ ExitWith(c, "daemon")
  /\ UNCHANGED <<callVars, tries, ran>>

\* The listing only tells whether input is missing: a tool that is not listed is
\* called all the same.
Listed == IF Upstream THEN present /\ callable ELSE Registered

Lists(c) ==
  /\ stage[c] = "listing"
  /\ \/ ExitWith(c, "daemon") /\ UNCHANGED tries
     \/ Listed /\ ExitWith(c, "usage") /\ UNCHANGED tries
     \/ /\ stage' = [stage EXCEPT ![c] = "calling"]
        /\ tries' = [tries EXCEPT ![c] = 1]
        /\ UNCHANGED <<exit, link>>
  /\ UNCHANGED <<callVars, ran>>

\* --list, --search; --describe, --schema and --example want a listed tool.
Discovers(c) ==
  /\ stage[c] = "listing"
  /\ \/ ExitWith(c, "daemon")
     \/ ExitWith(c, "shown")
     \/ ~Listed /\ ExitWith(c, "unknown_tool")
  /\ UNCHANGED <<callVars, tries, ran>>

\* The gateway gets a request for c.
Requested(c) == stage[c] \in {"direct", "calling"}

Started(c) == ran' = [ran EXCEPT ![c] = @ + 1]

\* callTool: the gateway's handler dispatches it to the session or the sandbox.
CallReaches(c) ==
  /\ Requested(c)
  /\ \/ Dispatch(c) /\ (IF Decision = "call" THEN Started(c) ELSE UNCHANGED ran)
     \/ /\ ~Upstream /\ Begin(c) /\ Started(c)
        /\ UNCHANGED <<toolVars, raceVars>>
  /\ UNCHANGED <<stage, exit, tries, link>>

\* Mutant: any error is tried again.
AnyError(r) == r.form = "error"

\* isServerStartingError
Transient(r) == r.data = "starting"

\* The server may have connected by now; the interval has passed.
Retry(c) ==
  /\ stage[c] = "calling" /\ reply[c] # "none" /\ tries[c] < MaxTries
  /\ Transient(Response(reply[c]))
  /\ tries' = [tries EXCEPT ![c] = @ + 1]
  /\ routing' = [routing EXCEPT ![c] = "idle"]
  /\ reply' = [reply EXCEPT ![c] = "none"]
  /\ UNCHANGED <<vars, toolVars, raceTimer, listens, cut, upstream, stage, exit, ran, link>>

\* classifyCallError and classifyResult; a result may report an error itself.
Verdicts(r) ==
  IF r.data \in {"auth_expired", "auth_required"} THEN {"auth"}
  ELSE IF r.form = "result" THEN {"success", "tool_error"}
  ELSE IF r.data = "timeout" THEN {"timeout"}
  ELSE IF r.code = "MethodNotFound" THEN {"unknown_tool"}
  ELSE {"tool_error"}

\* The answer, unless it is transient and there is time for another call.
Answered(c) ==
  /\ stage[c] = "calling" /\ reply[c] # "none"
  /\ \E e \in Verdicts(Response(reply[c])) : ExitWith(c, e)
  /\ UNCHANGED <<callVars, tries, ran>>

\* The SDK gives up a request after a minute: a RequestTimeout without the
\* gateway's data, for classifyCallError an error like any other.  The session
\* is closed on the way out.
GivesUp(c) ==
  /\ stage[c] = "calling" /\ reply[c] = "none"
  /\ ExitWith(c, "tool_error")
  /\ UNCHANGED <<callVars, tries, ran>>

\* The gateway's steps; a command's call is cancelled only after it has given up.
GatewayGoesOn ==
  \/ RunStep /\ \A c \in Calls : pc[c] = "idle" => pc'[c] = "idle"
  \/ ToolChanges
  \/ \E c \in Calls : UpstreamEnds(c) \/ Win(c) \/ RaceTimeout(c) \/ CustomAnswer(c)
  \/ \E c \in Calls : stage[c] \in {"direct", "over"} /\ CallerAborts(c)

Command(c) ==
  RejectsInput(c) \/ Connects(c) \/ Lists(c) \/ Discovers(c) \/ Retry(c) \/ Answered(c) \/ GivesUp(c)

RunNext ==
  \/ GatewayGoesOn /\ UNCHANGED runVars
  \/ \E c \in Calls : CallReaches(c) \/ Command(c)

\* As ToolCall, and a command goes on.
RunSpec ==
  /\ RunInit /\ [][RunNext]_allVars
  /\ \A c \in Runs :
       /\ WF_allVars(GatewayStep(c) /\ UNCHANGED <<toolVars, raceVars, runVars>>)
       /\ WF_allVars(TimerFires(c) /\ UNCHANGED <<toolVars, raceVars, runVars>>)
       /\ WF_allVars(killed[c] /\ ChildEnds(c) /\ UNCHANGED <<toolVars, raceVars, runVars>>)
  /\ \A c \in Calls :
       /\ WF_allVars(Win(c) /\ UNCHANGED runVars)
       /\ WF_allVars(RaceTimeout(c) /\ UNCHANGED runVars)
       /\ WF_allVars(CustomAnswer(c) /\ UNCHANGED runVars)
       /\ WF_allVars(Command(c))

-----------------------------------------------------------------------------
\* A command starts its tool once at most, however often it repeats the call,
\* and what it reports is what happened: not started when it blames its input,
\* the daemon or the name, started and answered when it reports success, and a
\* timeout only after the gateway has given up on a tool that was started.
ExitTellsWhatRan ==
  \A c \in Calls :
    /\ ran[c] <= 1
    /\ exit[c] \in {"usage", "daemon", "shown", "unknown_tool"} => ran[c] = 0
    /\ exit[c] \in {"success", "timeout"} => ran[c] = 1
    /\ exit[c] = "success" => "ok" \in {upstream[c], outcome[c]}

\* Every call ends, and so does every command that got through to the daemon, its
\* session closed.
RunsEnd ==
  /\ CallsEnd
  /\ \A c \in Calls :
       stage[c] \in {"listing", "calling"} ~> stage[c] = "over" /\ link[c] = "closed"
=============================================================================
