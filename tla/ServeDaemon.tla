----------------------------- MODULE ServeDaemon -----------------------------
(***************************************************************************)
(* The managed daemon of one resolved config: `tlbx serve --detach`, the   *)
(* daemon it spawns (serve.ts), `tlbx run` (run-daemon.ts) and `tlbx stop` *)
(* (stop.ts).  They share a port, which the operating system gives to one  *)
(* of them, and a state file, which nothing locks: every command reads it, *)
(* decides, and acts on what it read.  A step is the code between two      *)
(* awaits of a command or of a daemon.                                     *)
(*                                                                         *)
(* A daemon is named by the command that spawned it; the name also stands  *)
(* for its pid in the state file.                                          *)
(***************************************************************************)
EXTENDS Naturals

CONSTANTS
  Detaches,  \* commands `tlbx serve --detach`
  Runs,      \* commands `tlbx run`
  Stops,     \* commands `tlbx stop`
  Old,       \* a daemon that may be serving already
  MaxEdits,  \* bound: changes of the config file
  Mortal     \* the daemons that may crash

Starters == Detaches \cup Runs
Commands == Starters \cup Stops
Daemons == Starters \cup {Old}

\* What the state file and the port may hold besides a daemon: a record of a
\* process that is gone; a process that is not a managed daemon of this config.
ASSUME NamesAssumption ==
  /\ Daemons \cap {"absent", "gone", "free", "foreign", "none"} = {}
  /\ Old \notin Commands
  /\ Detaches \cap Runs = {} /\ Starters \cap Stops = {}

ASSUME BoundsAssumption == MaxEdits \in Nat /\ Mortal \subseteq Daemons

\* The versions of the config file, the first one 0.
Configs == 0 .. MaxEdits

VARIABLES
  record,   \* the state file: "absent", "gone", or the daemon it names
  port,     \* who listens: "free", "foreign", or a daemon
  config,   \* the config file
  life,     \* life[d]: where runServe of daemon d is
  http,     \* http[d]: its listener, "idle", "listening", "stopping", "stopped"
  sig,      \* sig[d]: a signal sent to d and not yet delivered
  hash,     \* hash[d]: the config d serves (its record's configHash)
  pc,       \* pc[c]: the operation command c does next, or its answer
  outcome,  \* outcome[c]: how the detached start of c ended
  target,   \* target[c]: the daemon c has read from the state file
  loaded    \* loaded[c]: the config that c has read

daemonVars == <<life, http, sig, hash>>
commandVars == <<pc, outcome, target, loaded>>
vars == <<record, port, config, daemonVars, commandVars>>

-----------------------------------------------------------------------------
Lives == {"none", "spawned", "starting", "bound", "serving", "disposing",
          "unlinking", "failing", "exited", "unremoved", "killed"}
\* "exited": runServe returned; "unremoved": so it did, but its unlink failed.
\* "killed": by a signal, wherever it was.
Ended == {"none", "exited", "unremoved", "killed"}

Answers == {"over", "handle", "drifted", "lost", "notReady", "stopped",
            "notRunning", "unkillable", "unclear"}
Pcs == {"load", "ensure", "ensureClear", "detach", "detachClear", "spawn",
        "wait", "probe", "reread", "recheck", "ready", "stopRead",
        "stopClear", "termWait", "killWait", "finalize"} \cup Answers

Started == {"started", "reused"}
NotStarted == {"running", "collision", "died", "timeout"}

\* isProcessAlive, of what the state file names
Alive(p) == p \in Daemons /\ life[p] \notin Ended

Goto(c, l) == pc' = [pc EXCEPT ![c] = l]
Becomes(d, l) == life' = [life EXCEPT ![d] = l]

\* kill(pid, s): a process that is gone is no concern.
Signal(p, s) ==
  sig' = [d \in Daemons |-> IF d = p /\ Alive(d) /\ sig[d] # "kill" THEN s ELSE sig[d]]

\* The port is closed with the process or the listener that held it.
Unbind(d) == port' = IF port = d THEN "free" ELSE port

Init ==
  /\ \/ record \in {"absent", "gone"} /\ port \in {"free", "foreign"}
     \/ record = Old /\ port = Old
  /\ config = 0
  /\ life = [d \in Daemons |-> IF port = d THEN "serving" ELSE "none"]
  /\ http = [d \in Daemons |-> IF port = d THEN "listening" ELSE "idle"]
  /\ sig = [d \in Daemons |-> "none"]
  /\ hash = [d \in Daemons |-> 0]
  /\ pc = [c \in Commands |->
       IF c \in Runs THEN "load" ELSE IF c \in Stops THEN "stopRead" ELSE "detach"]
  /\ outcome = [c \in Starters |-> "none"]
  /\ target = [c \in Commands |-> Old]
  /\ loaded = [c \in Runs |-> 0]

-----------------------------------------------------------------------------
(* The daemon: runServe. *)

LoadsConfig(d) ==
  /\ life[d] = "spawned"
  /\ hash' = [hash EXCEPT ![d] = config]
  /\ Becomes(d, "starting")
  /\ UNCHANGED <<record, port, config, http, sig, commandVars>>

\* downstream.start(): the listener is bound, or the port is taken.
Bind(d) ==
  /\ life[d] = "starting" /\ port = "free"
  /\ port' = d
  /\ http' = [http EXCEPT ![d] = "listening"]
  /\ Becomes(d, "bound")
  /\ UNCHANGED <<record, config, sig, hash, commandVars>>

BindFails(d) ==
  /\ life[d] = "starting" /\ port # "free"
  /\ Becomes(d, "failing")
  /\ UNCHANGED <<record, port, config, http, sig, hash, commandVars>>

\* Mutant: the record is published as soon as the config is loaded.
MayPublishEarly(d) == life[d] \in {"starting", "bound"} /\ http[d] # "stopped"

\* After the bind and the wait for the custom tools.
MayPublish(d) == life[d] = "bound" /\ http[d] # "stopped"

\* publishManagedState
Publish(d) ==
  /\ MayPublish(d)
  /\ record' = d
  /\ Becomes(d, "serving")
  /\ UNCHANGED <<port, config, http, sig, hash, commandVars>>

\* The state file cannot be written: stop() begins, unless it has begun.
PublishFails(d) ==
  /\ MayPublish(d)
  /\ Unbind(d)
  /\ http' = [http EXCEPT ![d] = "stopping"]
  /\ Becomes(d, "failing")
  /\ UNCHANGED <<record, config, sig, hash, commandVars>>

\* The listener has stopped meanwhile: its url throws, and with it runServe.
PublishThrows(d) ==
  /\ life[d] = "bound" /\ http[d] = "stopped"
  /\ Becomes(d, "exited")
  /\ UNCHANGED <<record, port, config, http, sig, hash, commandVars>>

\* stop() has closed the sessions and the sockets: `done` resolves.
HttpStopped(d) ==
  /\ http[d] = "stopping" /\ life[d] \notin Ended
  /\ http' = [http EXCEPT ![d] = "stopped"]
  /\ UNCHANGED <<record, port, config, life, sig, hash, commandVars>>

\* detachCacheWriter() and runtime.dispose()
Disposes(d) ==
  /\ life[d] = "serving" /\ http[d] = "stopped"
  /\ Becomes(d, "disposing")
  /\ UNCHANGED <<record, port, config, http, sig, hash, commandVars>>

\* Mutant: only a successor's record is cleared.
NotOurs(d) == record \notin {"absent", d}

\* A record that names another process is left alone.
MayBeOurs(d) == record \in {"absent", d}

\* clearManagedState: the read
ReadsRecord(d) ==
  /\ life[d] = "disposing"
  /\ Becomes(d, IF MayBeOurs(d) THEN "unlinking" ELSE "exited")
  /\ UNCHANGED <<record, port, config, http, sig, hash, commandVars>>

\* The state file cannot be read: it is removed all the same.
ReadFails(d) ==
  /\ life[d] = "disposing"
  /\ Becomes(d, "unlinking")
  /\ UNCHANGED <<record, port, config, http, sig, hash, commandVars>>

\* clearManagedState: the unlink, of whatever is there by then
Unlinks(d) ==
  /\ life[d] = "unlinking"
  /\ record' = "absent"
  /\ Becomes(d, "exited")
  /\ UNCHANGED <<port, config, http, sig, hash, commandVars>>

\* The unlink fails, and nobody is told.
UnlinkFails(d) ==
  /\ life[d] = "unlinking"
  /\ Becomes(d, "unremoved")
  /\ UNCHANGED <<record, port, config, http, sig, hash, commandVars>>

\* The teardown of a daemon that did not start; it waits for a stop() begun.
FailureEnds(d) ==
  /\ life[d] = "failing" /\ http[d] \in {"idle", "stopped"}
  /\ Becomes(d, "exited")
  /\ UNCHANGED <<record, port, config, http, sig, hash, commandVars>>

\* SIGTERM while the listener has its handler on: stop() begins, once.
StopsListening(d) ==
  /\ sig[d] = "term" /\ http[d] \in {"listening", "stopping"} /\ life[d] \notin Ended
  /\ sig' = [sig EXCEPT ![d] = "none"]
  /\ http' = [http EXCEPT ![d] = "stopping"]
  /\ Unbind(d)
  /\ UNCHANGED <<record, config, life, hash, commandVars>>

\* SIGKILL, or SIGTERM when no handler is on.
DiesOfSignal(d) ==
  /\ \/ sig[d] = "kill"
     \/ sig[d] = "term" /\ http[d] \in {"idle", "stopped"}
  /\ life[d] \notin Ended
  /\ Becomes(d, "killed")
  /\ Unbind(d)
  /\ UNCHANGED <<record, config, http, sig, hash, commandVars>>

DaemonStep(d) ==
  \/ LoadsConfig(d) \/ Bind(d) \/ BindFails(d)
  \/ Publish(d) \/ PublishThrows(d)
  \/ HttpStopped(d) \/ Disposes(d) \/ ReadsRecord(d) \/ ReadFails(d)
  \/ Unlinks(d) \/ UnlinkFails(d) \/ FailureEnds(d)
  \/ StopsListening(d) \/ DiesOfSignal(d)

-----------------------------------------------------------------------------
(* tlbx serve --detach: runServeDetached.  A run that starts a daemon calls it. *)

\* The detached start of c ends; a run goes on after a success.
DetachEnds(c, o) ==
  /\ outcome' = [outcome EXCEPT ![c] = o]
  /\ Goto(c, IF c \in Runs /\ o \in Started THEN "recheck" ELSE "over")
  /\ UNCHANGED <<target, loaded>>

Detach(c) ==
  /\ pc[c] = "detach"
  /\ IF Alive(record) THEN DetachEnds(c, IF c \in Runs THEN "reused" ELSE "running")
     ELSE /\ Goto(c, IF record = "absent" THEN "spawn" ELSE "detachClear")
          /\ UNCHANGED <<outcome, target, loaded>>
  /\ UNCHANGED <<record, port, config, daemonVars>>

\* clearServeState after a record that named a dead process was read, here and
\* in ensureDaemon and runStop.
ClearStale(c) ==
  /\ pc[c] \in {"detachClear", "ensureClear", "stopClear"}
  /\ record' = "absent"
  /\ Goto(c, CASE pc[c] = "detachClear" -> "spawn"
               [] pc[c] = "ensureClear" -> "detach"
               [] OTHER -> "notRunning")
  /\ UNCHANGED <<port, config, daemonVars, outcome, target, loaded>>

\* clearServeState fails, there and in finalizeStopped: the command says so and
\* ends.
ClearFails(c) ==
  /\ pc[c] \in {"detachClear", "ensureClear", "stopClear", "finalize"}
  /\ Goto(c, "unclear")
  /\ UNCHANGED <<record, port, config, daemonVars, outcome, target, loaded>>

Spawn(c) ==
  /\ pc[c] = "spawn"
  /\ Becomes(c, "spawned")
  /\ Goto(c, "wait")
  /\ UNCHANGED <<record, port, config, http, sig, hash, outcome, target, loaded>>

\* Mutant: a child that a sibling made superfluous is left running.
LeavesChild(c) == UNCHANGED sig

\* tryKill
TryKill(c) == Signal(c, "term")

\* waitForChildState: one poll that finds a live record.
WaitFinds(c) ==
  /\ pc[c] = "wait" /\ Alive(record)
  /\ IF record = c THEN DetachEnds(c, "started") /\ UNCHANGED sig
                   ELSE DetachEnds(c, "reused") /\ TryKill(c)
  /\ UNCHANGED <<record, port, config, life, http, hash>>

\* One that finds the child dead.
WaitLoses(c) ==
  /\ pc[c] = "wait" /\ ~Alive(record) /\ ~Alive(c)
  /\ Goto(c, "probe")
  /\ UNCHANGED <<record, port, config, daemonVars, outcome, target, loaded>>

\* readinessTimeoutMs has passed.
WaitTimesOut(c) ==
  /\ pc[c] = "wait" /\ ~Alive(record) /\ Alive(c)
  /\ DetachEnds(c, "timeout")
  /\ TryKill(c)
  /\ UNCHANGED <<record, port, config, life, http, hash>>

\* probeReady
Probe(c) ==
  /\ pc[c] = "probe"
  /\ IF port = "free" THEN DetachEnds(c, "died")
     ELSE Goto(c, "reread") /\ UNCHANGED <<outcome, target, loaded>>
  /\ UNCHANGED <<record, port, config, daemonVars>>

Reread(c) ==
  /\ pc[c] = "reread"
  /\ DetachEnds(c, IF Alive(record) THEN "reused" ELSE "collision")
  /\ UNCHANGED <<record, port, config, daemonVars>>

DetachStep(c) ==
  \/ Detach(c) \/ Spawn(c)
  \/ WaitFinds(c) \/ WaitLoses(c) \/ WaitTimesOut(c) \/ Probe(c) \/ Reread(c)

-----------------------------------------------------------------------------
(* tlbx run: ensureDaemon. *)

LoadConfig(c) ==
  /\ pc[c] = "load"
  /\ loaded' = [loaded EXCEPT ![c] = config]
  /\ Goto(c, "ensure")
  /\ UNCHANGED <<record, port, config, daemonVars, outcome, target>>

\* Mutant: what the cold start left recorded is taken for one's own.
TrustsColdStart(c) == pc[c] = "recheck" \/ hash[record] = loaded[c]

\* configHash against computeDaemonIdentity
SameConfig(c) == hash[record] = loaded[c]

\* The daemon on record, if it serves the config that was loaded.
TakesRecorded(c) ==
  /\ Alive(record)
  /\ target' = [target EXCEPT ![c] = record]
  /\ Goto(c, IF SameConfig(c) THEN "ready" ELSE "drifted")

Ensure(c) ==
  /\ pc[c] = "ensure"
  /\ \/ TakesRecorded(c)
     \/ /\ ~Alive(record)
        /\ Goto(c, IF record = "absent" THEN "detach" ELSE "ensureClear")
        /\ UNCHANGED target
  /\ UNCHANGED <<record, port, config, daemonVars, outcome, loaded>>

\* After the cold start.
Recheck(c) ==
  /\ pc[c] = "recheck"
  /\ \/ TakesRecorded(c)
     \/ ~Alive(record) /\ Goto(c, "lost") /\ UNCHANGED target
  /\ UNCHANGED <<record, port, config, daemonVars, outcome, loaded>>

\* waitForReady: something answers on the port, or the time is over.
Ready(c) ==
  /\ pc[c] = "ready"
  /\ Goto(c, IF port = "free" THEN "notReady" ELSE "handle")
  /\ UNCHANGED <<record, port, config, daemonVars, outcome, target, loaded>>

RunStep(c) == LoadConfig(c) \/ Ensure(c) \/ Recheck(c) \/ Ready(c)

-----------------------------------------------------------------------------
(* tlbx stop: runStop. *)

StopRead(c) ==
  /\ pc[c] = "stopRead"
  /\ IF Alive(record)
     THEN /\ target' = [target EXCEPT ![c] = record]
          /\ Signal(record, "term")
          /\ Goto(c, "termWait")
     ELSE /\ Goto(c, IF record = "absent" THEN "notRunning" ELSE "stopClear")
          /\ UNCHANGED <<target, sig>>
  /\ UNCHANGED <<record, port, config, life, http, hash, outcome, loaded>>

\* waitForExit saw the process end.
SeesExit(c) ==
  /\ pc[c] \in {"termWait", "killWait"} /\ ~Alive(target[c])
  /\ Goto(c, "finalize")
  /\ UNCHANGED <<record, port, config, daemonVars, outcome, target, loaded>>

\* termTimeoutMs has passed: SIGKILL; then killTimeoutMs: it is given up.
Escalate(c) ==
  /\ pc[c] = "termWait" /\ Alive(target[c])
  /\ Signal(target[c], "kill")
  /\ Goto(c, "killWait")
  /\ UNCHANGED <<record, port, config, life, http, hash, outcome, target, loaded>>

GiveUp(c) ==
  /\ pc[c] = "killWait" /\ Alive(target[c])
  /\ Goto(c, "unkillable")
  /\ UNCHANGED <<record, port, config, daemonVars, outcome, target, loaded>>

\* finalizeStopped
Finalize(c) ==
  /\ pc[c] = "finalize"
  /\ record' = "absent"
  /\ Goto(c, "stopped")
  /\ UNCHANGED <<port, config, daemonVars, outcome, target, loaded>>

StopStep(c) == StopRead(c) \/ SeesExit(c) \/ Escalate(c) \/ GiveUp(c) \/ Finalize(c)

-----------------------------------------------------------------------------
\* A daemon crashes or is killed from outside.
Crash(d) ==
  /\ d \in Mortal /\ life[d] \notin Ended
  /\ Becomes(d, "killed")
  /\ Unbind(d)
  /\ UNCHANGED <<record, config, http, sig, hash, commandVars>>

ForeignEnds ==
  /\ port = "foreign"
  /\ port' = "free"
  /\ UNCHANGED <<record, config, daemonVars, commandVars>>

EditConfig ==
  /\ config < MaxEdits
  /\ config' = config + 1
  /\ UNCHANGED <<record, port, daemonVars, commandVars>>

CommandStep(c) ==
  \/ c \in Starters /\ DetachStep(c)
  \/ c \in Runs /\ RunStep(c)
  \/ c \in Stops /\ StopStep(c)
  \/ ClearStale(c) \/ ClearFails(c)

Finished == (\A c \in Commands : pc[c] \in Answers) /\ UNCHANGED vars

Next ==
  \/ \E d \in Daemons : DaemonStep(d) \/ PublishFails(d) \/ Crash(d)
  \/ \E c \in Commands : CommandStep(c)
  \/ ForeignEnds \/ EditConfig
  \/ Finished

Spec == Init /\ [][Next]_vars

-----------------------------------------------------------------------------
TypeOK ==
  /\ record \in Daemons \cup {"absent", "gone"}
  /\ port \in Daemons \cup {"free", "foreign"}
  /\ config \in Configs
  /\ life \in [Daemons -> Lives]
  /\ http \in [Daemons -> {"idle", "listening", "stopping", "stopped"}]
  /\ sig \in [Daemons -> {"none", "term", "kill"}]
  /\ hash \in [Daemons -> Configs]
  /\ pc \in [Commands -> Pcs]
  /\ outcome \in [Starters -> Started \cup NotStarted \cup {"none"}]
  /\ target \in [Commands -> Daemons]
  /\ loaded \in [Runs -> Configs]

(* Safety *)

\* No command ever reads the record of a daemon that has not won the port: "a
\* concurrent starter that loses the port race can't observe a half-started
\* daemon" (serve.ts).
RecordNamesBound == record \in Daemons => http[record] # "idle"

\* A daemon that ended in order, and could remove its record, has left none,
\* whoever else cleared or replaced the record meanwhile.
CleanExit == \A d \in Daemons : life[d] = "exited" => record # d

\* The daemon is on its way out, or gone.
Going(d) ==
  ~Alive(d) \/ sig[d] # "none" \/ http[d] \in {"stopping", "stopped"} \/ life[d] = "failing"

\* A detached start that reports anything but its own daemon does not leave one
\* behind: its child has ended or is made to.
NoChildLeft ==
  \A c \in Starters : outcome[c] \in NotStarted \cup {"reused"} => Going(c)

\* tlbx run goes on with whatever answers on the port.  That is the daemon whose
\* config it has compared with its own ("so the returned config always reflects
\* the daemon actually serving"), unless that daemon was told to end, or died,
\* between the comparison and the answer.
HandleServesConfig ==
  [][\A c \in Runs : (pc[c] = "ready" /\ pc'[c] = "handle") =>
       \/ port = target[c] /\ hash[port] = loaded[c]
       \/ Going(target[c])]_vars

\* Without that exception: nothing of a daemon's identity is checked when it
\* answers.
AnswersForItsConfig ==
  [][\A c \in Runs : (pc[c] = "ready" /\ pc'[c] = "handle") =>
       port \in Daemons /\ hash[port] = loaded[c]]_vars

\* A daemon that serves stays on record: only its own teardown and a successor
\* that took its port replace the record ("clearing that would orphan it").
ServingStaysRecorded ==
  [][\A d \in Daemons :
       (record = d /\ life[d] = "serving" /\ http[d] = "listening") => record' = d]_vars
=============================================================================
