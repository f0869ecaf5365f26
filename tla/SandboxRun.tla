----------------------------- MODULE SandboxRun -----------------------------
(***************************************************************************)
(* packages/custom-tools/src/sandbox: one run of a custom tool, or one     *)
(* describe of it, in a child process: executeSandbox (runner.ts) in the   *)
(* gateway, run (harness.ts) in the child, and the OS sandbox around them  *)
(* (os-sandbox.ts), whose per-command state has to be cleaned up.          *)
(*                                                                         *)
(* The gateway's events (messages, timers, abort, error, exit, close) come *)
(* in any order Node allows: messages in the order they were sent, 'close' *)
(* after the last of them, 'exit' at any time once the child is gone.      *)
(***************************************************************************)
EXTENDS Naturals, Sequences

CONSTANTS
  Runs,       \* the runs of the tool
  Describes,  \* the ones that only resolve its schema
  Files       \* what the stored file may be, by its first defect

\* What is wrong with the stored file, by the first check of the harness that
\* finds it; "lazy" and "deep" schemas fail only when they validate a value,
\* "lazy" ones already on describe's probe of the declared properties.
Defects == {"unreadable", "syntax", "imports", "load", "schema", "handler",
            "compile", "lazy", "deep", "none"}

ASSUME RunsAssumption == Describes \subseteq Runs /\ Files \subseteq Defects

VARIABLES
  pc,       \* pc[c]: idle, wrapping, running, settled
  outcome,  \* outcome[c]: what executeSandbox resolved with
  aborted,  \* aborted[c]: the caller's signal
  wrapped,  \* wrapped[c]: wrapSpawn has counted this command in srt
  cleanups, \* cleanups[c]: how often its cleanup has run
  timer,    \* timer[c]: activeTimer
  child,    \* child[c]: none, nopid, booting, working, flushing, dead
  killed,   \* killed[c]: killProcessTree has been called
  inbox,    \* inbox[c]: messages of the child that the gateway has not read
  sent,     \* sent[c]: the answer the harness has sent
  exitSeen, \* exitSeen[c]: exitCode or signalCode is set, 'exit' was emitted
  file,     \* the stored file
  edited    \* edited[c]: the file has changed since c read it

gateVars == <<pc, outcome, aborted, wrapped, cleanups, timer, exitSeen>>
childVars == <<child, killed, inbox, sent>>
fileVars == <<file, edited>>
vars == <<gateVars, childVars, fileVars>>

Init ==
  /\ pc = [c \in Runs |-> "idle"]
  /\ outcome = [c \in Runs |-> "none"]
  /\ aborted = [c \in Runs |-> FALSE]
  /\ wrapped = [c \in Runs |-> FALSE]
  /\ cleanups = [c \in Runs |-> 0]
  /\ timer = [c \in Runs |-> "none"]
  /\ child = [c \in Runs |-> "none"]
  /\ killed = [c \in Runs |-> FALSE]
  /\ inbox = [c \in Runs |-> <<>>]
  /\ sent = [c \in Runs |-> "none"]
  /\ exitSeen = [c \in Runs |-> FALSE]
  /\ file \in Files
  /\ edited = [c \in Runs |-> FALSE]

Alive(c) == child[c] \in {"booting", "working", "flushing"}

-----------------------------------------------------------------------------
(* harness.ts: what the child answers. *)

\* Mutant: describe returns the schema before the checks of the call path.
SchemaOnly(f) == f \in {"handler", "compile", "lazy", "deep", "none"}

\* Describe mode runs every check but the validation of real arguments.
Describable(f) == f \in {"deep", "none"}

Defective == {"load-error", "forbidden-import", "invalid-schema", "invalid-handler"}

DefectCode(f) ==
  CASE f \in {"unreadable", "syntax", "load"} -> "load-error"
    [] f = "imports" -> "forbidden-import"
    [] f = "handler" -> "invalid-handler"
    [] OTHER -> "invalid-schema"

\* The answers of run(request) to c on file f.
Answers(c, f) ==
  IF c \in Describes
  THEN {IF Describable(f) THEN "ok" ELSE DefectCode(f)}
  ELSE IF f = "none" THEN {"ok", "invalid-args", "tool-error"} ELSE {DefectCode(f)}

\* sendReady, before any work on the tool.
Boot(c) ==
  /\ child[c] = "booting"
  /\ child' = [child EXCEPT ![c] = "working"]
  /\ inbox' = [inbox EXCEPT ![c] = Append(@, "ready")]
  /\ UNCHANGED <<gateVars, killed, sent, fileVars>>

\* Mutant: the process exits without waiting for the message to be flushed.
NoFlush(m) == <<>>

Flushed(m) == <<m>>

\* The file is read and checked, the handler run, the answer sent and flushed.
Work(c) ==
  /\ child[c] = "working"
  /\ \E m \in Answers(c, file) :
       /\ inbox' = [inbox EXCEPT ![c] = @ \o Flushed(m)]
       /\ sent' = [sent EXCEPT ![c] = m]
  /\ child' = [child EXCEPT ![c] = "flushing"]
  /\ edited' = [edited EXCEPT ![c] = FALSE]
  /\ UNCHANGED <<gateVars, killed, file>>

\* realExit after the answer; a crash or exit of the tool's own; the SIGKILL.
ChildEnds(c) ==
  /\ Alive(c)
  /\ child' = [child EXCEPT ![c] = "dead"]
  /\ UNCHANGED <<gateVars, killed, inbox, sent, fileVars>>

\* An import replaces the stored file (once between two reads of it).
Edit ==
  /\ \A c \in Runs : ~edited[c]
  /\ \E f \in Files : f # file /\ file' = f
  /\ edited' = [c \in Runs |-> TRUE]
  /\ UNCHANGED <<gateVars, childVars>>

-----------------------------------------------------------------------------
(* executeSandbox *)

\* Mutant: cleanup at once, whatever the child still does.
NeverRunning(c) == FALSE

\* child.pid is set and neither exitCode nor signalCode is.
Running(c) == child[c] # "nopid" /\ ~exitSeen[c]

CleanUp(c) ==
  cleanups' = [cleanups EXCEPT ![c] = IF wrapped[c] /\ @ = 0 THEN @ + 1 ELSE @]

\* killProcessTree: SIGKILL to the process group.
Kill(c) == killed' = [killed EXCEPT ![c] = TRUE]

\* finish: settled once; the timer and every listener go; a running child is
\* killed and its cleanup waits for 'exit'.
SettleAs(c, o) ==
  /\ pc' = [pc EXCEPT ![c] = "settled"]
  /\ outcome' = [outcome EXCEPT ![c] = o]
  /\ timer' = [timer EXCEPT ![c] = "none"]
  /\ IF Running(c)
     THEN Kill(c) /\ UNCHANGED cleanups
     ELSE CleanUp(c) /\ UNCHANGED killed

Settle(c, o) == pc[c] = "running" /\ SettleAs(c, o)

\* The host's executor knows the tools whose describe succeeded.
Registered == \E d \in Describes : outcome[d] = "ok"

\* load() describes the tool, the executor runs it.  Already cancelled: no
\* sandbox is set up.
Begin(c) ==
  /\ pc[c] = "idle"
  /\ c \in Describes \/ Registered
  /\ pc' = [pc EXCEPT ![c] = IF aborted[c] THEN "settled" ELSE "wrapping"]
  /\ outcome' = [outcome EXCEPT ![c] = IF aborted[c] THEN "aborted" ELSE @]
  /\ UNCHANGED <<aborted, wrapped, cleanups, timer, exitSeen, childVars, fileVars>>

\* What becomes of wrapSpawn, by the configured mode and the host: no sandbox,
\* a sandbox, a sandbox that is required and not to be had, a failed setup.
WrapResults(c) ==
  {"plain", "sandboxed", "unavailable", IF aborted[c] THEN "aborted" ELSE "setup-error"}

Wrapped == {"plain", "sandboxed"}

WrapFails(c) ==
  /\ pc[c] = "wrapping"
  /\ pc' = [pc EXCEPT ![c] = "settled"]
  /\ \E o \in WrapResults(c) \ Wrapped : outcome' = [outcome EXCEPT ![c] = o]
  /\ UNCHANGED <<aborted, wrapped, cleanups, timer, exitSeen, childVars, fileVars>>

AbortedInWrap(c) == aborted[c]

\* wrapSpawn resolves, with the OS sandbox or without it; the child is spawned
\* unless the call was aborted in the meantime.
Spawn(c) ==
  /\ pc[c] = "wrapping"
  /\ \E w \in WrapResults(c) \cap Wrapped :
       /\ wrapped' = [wrapped EXCEPT ![c] = w = "sandboxed"]
       /\ IF AbortedInWrap(c)
          THEN /\ pc' = [pc EXCEPT ![c] = "settled"]
               /\ outcome' = [outcome EXCEPT ![c] = "aborted"]
               /\ cleanups' = [cleanups EXCEPT ![c] = IF w = "sandboxed" THEN 1 ELSE 0]
               /\ UNCHANGED <<timer, child>>
          ELSE /\ pc' = [pc EXCEPT ![c] = "running"]
               /\ timer' = [timer EXCEPT ![c] = "startup"]
               /\ \E k \in {"booting", "nopid"} : child' = [child EXCEPT ![c] = k]
               /\ UNCHANGED <<outcome, cleanups>>
  /\ UNCHANGED <<aborted, exitSeen, killed, inbox, sent, fileVars>>

\* The caller's signal (describe has none): onAbort settles a run whose child
\* has been spawned.
Abort(c) ==
  /\ c \notin Describes /\ ~aborted[c] /\ pc[c] # "settled"
  /\ aborted' = [aborted EXCEPT ![c] = TRUE]
  /\ IF pc[c] = "running"
     THEN SettleAs(c, "aborted")
     ELSE UNCHANGED <<pc, outcome, timer, cleanups, killed>>
  /\ UNCHANGED <<wrapped, exitSeen, child, inbox, sent, fileVars>>

\* Mutant: `ready` does not swap the timers.
KeepTimer(t) == "none"

Swap(t) == "operation"

\* 'message': `ready` swaps the startup guard for the operation timeout, an
\* answer settles; after finish nobody listens.
Message(c) ==
  /\ inbox[c] # <<>>
  /\ inbox' = [inbox EXCEPT ![c] = Tail(@)]
  /\ \/ /\ pc[c] = "running" /\ Head(inbox[c]) = "ready"
        /\ timer' = [timer EXCEPT ![c] = Swap(@)]
        /\ UNCHANGED <<pc, outcome, cleanups, killed>>
     \/ Head(inbox[c]) # "ready" /\ Settle(c, Head(inbox[c]))
  /\ UNCHANGED <<aborted, wrapped, exitSeen, child, sent, fileVars>>

\* The startup guard or the operation timeout.
TimerFires(c) ==
  /\ timer[c] # "none"
  /\ Settle(c, "timeout")
  /\ UNCHANGED <<aborted, wrapped, exitSeen, child, inbox, sent, fileVars>>

\* 'error' of a spawn that failed; 'close' of a child that is gone, after its
\* last message.
ErrorOrClose(c) ==
  /\ child[c] = "nopid" \/ (child[c] = "dead" /\ exitSeen[c] /\ inbox[c] = <<>>)
  /\ Settle(c, "no-result")
  /\ UNCHANGED <<aborted, wrapped, exitSeen, child, inbox, sent, fileVars>>

\* 'exit': the cleanup that finish has left to it.
Exit(c) ==
  /\ child[c] = "dead" /\ ~exitSeen[c]
  /\ exitSeen' = [exitSeen EXCEPT ![c] = TRUE]
  /\ IF pc[c] = "settled" THEN CleanUp(c) ELSE UNCHANGED cleanups
  /\ UNCHANGED <<pc, outcome, aborted, wrapped, timer, childVars, fileVars>>

-----------------------------------------------------------------------------
GatewayStep(c) ==
  \/ WrapFails(c) \/ Spawn(c) \/ Message(c) \/ ErrorOrClose(c) \/ Exit(c)

Next ==
  \/ \E c \in Runs : Begin(c) \/ GatewayStep(c) \/ TimerFires(c) \/ Abort(c)
  \/ \E c \in Runs : Boot(c) \/ Work(c) \/ ChildEnds(c)
  \/ Edit

Spec == Init /\ [][Next]_vars

\* The gateway handles its events, its timers fire and a killed child dies; a
\* tool may hang.
FairSpec ==
  /\ Spec
  /\ \A c \in Runs :
       /\ WF_vars(GatewayStep(c)) /\ WF_vars(TimerFires(c))
       /\ WF_vars(killed[c] /\ ChildEnds(c))

-----------------------------------------------------------------------------
TypeOK ==
  /\ pc \in [Runs -> {"idle", "wrapping", "running", "settled"}]
  /\ outcome \in [Runs -> Defective \cup {"none", "ok", "aborted", "timeout",
       "unavailable", "setup-error", "no-result", "invalid-args", "tool-error"}]
  /\ timer \in [Runs -> {"none", "startup", "operation"}]
  /\ child \in [Runs -> {"none", "nopid", "booting", "working", "flushing", "dead"}]
  /\ \A c \in Runs : Len(inbox[c]) <= 2 /\ cleanups[c] <= 1

\* The sandbox of a command is taken down only after its process is gone, and
\* not before its call is over: srt never removes mount points under a child.
CleanedLast ==
  \A c \in Runs : cleanups[c] > 0 => pc[c] = "settled" /\ ~Alive(c)

\* A cancelled call does not go on: once the signal has fired there is no
\* child that has not been killed, in whatever window the signal came.
AbortStops ==
  \A c \in Runs : aborted[c] => pc[c] # "running" /\ (Alive(c) => killed[c])

\* The answer the tool has sent is what the caller gets, unless a timeout or an
\* abort came first: the end of the child never overtakes its answer.
AnswerNotLost ==
  \A c \in Runs : sent[c] # "none" => outcome[c] \in {"none", sent[c], "timeout", "aborted"}

\* A tool that was described is callable as long as its file does not change:
\* no call fails on a defect that describe should have found.
DescribedIsCallable ==
  \A d \in Describes, c \in Runs \ Describes :
    (outcome[d] = "ok" /\ outcome[c] \in Defective /\ ~edited[d] /\ ~edited[c])
      => file = "deep"

\* Every run settles, its process ends, and its sandbox is cleaned up, even if
\* the tool hangs at its top level or in its handler.
RunsAreReaped ==
  \A c \in Runs :
    pc[c] = "wrapping" ~>
      pc[c] = "settled" /\ ~Alive(c) /\ (wrapped[c] => cleanups[c] = 1)
=============================================================================
