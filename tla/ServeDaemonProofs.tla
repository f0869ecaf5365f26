-------------------------- MODULE ServeDaemonProofs --------------------------
(***************************************************************************)
(* Proofs about ServeDaemon: for any number of commands at the same time,  *)
(* what is on record was bound, an orderly end leaves no record, no        *)
(* detached start leaves a superfluous child, and what answers a run has   *)
(* its config or took over from a daemon that went, although nothing locks *)
(* the state file.                                                         *)
(***************************************************************************)
EXTENDS ServeDaemon, TLAPS

-----------------------------------------------------------------------------
(* The inductive invariant. *)

\* Where a daemon is while a record may name it.
Published == {"serving", "disposing", "unlinking", "unremoved", "killed"}

RecordLives == record \in Daemons => life[record] \in Published

\* A daemon has a listener from the bind on.
BoundListens ==
  \A d \in Daemons :
    /\ life[d] \in {"none", "spawned", "starting"} => http[d] = "idle"
    /\ life[d] \in {"bound", "serving", "disposing", "unlinking"} => http[d] # "idle"

\* Who listens has the port.
ListensOnPort ==
  \A d \in Daemons : http[d] = "listening" /\ Alive(d) => port = d

\* Where a command is that has not spawned its daemon.
Early == {"load", "ensure", "ensureClear", "detach", "detachClear", "spawn"}

BeforeSpawn ==
  \A c \in Starters : pc[c] \in Early => life[c] = "none" /\ outcome[c] = "none"

\* A detached start looks for a sibling after its child has ended.
ChildEnded == \A c \in Starters : pc[c] \in {"probe", "reread"} => life[c] \in Ended

\* What a run has compared with its config stays as it was.
KeepsConfig ==
  \A c \in Runs : pc[c] = "ready" =>
    /\ life[target[c]] \in Published \cup {"exited"}
    /\ hash[target[c]] = loaded[c]

DaemonInv ==
  /\ TypeOK
  /\ RecordLives /\ RecordNamesBound /\ BoundListens /\ ListensOnPort
  /\ BeforeSpawn /\ ChildEnded /\ NoChildLeft
  /\ KeepsConfig

-----------------------------------------------------------------------------
LEMMA Names ==
  /\ \A d \in Daemons : d \notin {"absent", "gone", "free", "foreign", "none"}
  /\ Starters \subseteq Daemons /\ Old \in Daemons
  /\ Starters \subseteq Commands /\ Runs \subseteq Starters /\ Stops \subseteq Commands
  /\ Old \notin Starters /\ Starters \cap Stops = {}
BY NamesAssumption DEF Daemons, Starters, Commands

LEMMA TypeInit == Init => TypeOK
<1> SUFFICES ASSUME Init PROVE TypeOK
  OBVIOUS
<1> USE Names DEF Init
<1>1. /\ record \in Daemons \cup {"absent", "gone"}
      /\ port \in Daemons \cup {"free", "foreign"}
  OBVIOUS
<1>2. config \in Configs /\ hash \in [Daemons -> Configs] /\ loaded \in [Runs -> Configs]
  BY BoundsAssumption DEF Configs
<1>3. /\ life \in [Daemons -> Lives]
      /\ http \in [Daemons -> {"idle", "listening", "stopping", "stopped"}]
      /\ sig \in [Daemons -> {"none", "term", "kill"}]
  BY DEF Lives
<1>4. pc \in [Commands -> Pcs]
  BY DEF Pcs, Answers
<1>5. /\ outcome \in [Starters -> Started \cup NotStarted \cup {"none"}]
      /\ target \in [Commands -> Daemons]
  OBVIOUS
<1> QED BY <1>1, <1>2, <1>3, <1>4, <1>5 DEF TypeOK

LEMMA TypeStep == TypeOK /\ [Next]_vars => TypeOK'
<1> SUFFICES ASSUME TypeOK, [Next]_vars PROVE TypeOK'
  OBVIOUS
<1> USE Names DEF TypeOK, daemonVars, commandVars
<1>1. ASSUME NEW d \in Daemons, DaemonStep(d) \/ PublishFails(d) \/ Crash(d)
      PROVE  TypeOK'
  <2> USE <1>1 DEF DaemonStep, LoadsConfig, Bind, BindFails, MayPublish, Publish,
        PublishFails, PublishThrows, HttpStopped, Disposes, ReadsRecord, ReadFails, MayBeOurs,
        Unlinks, UnlinkFails, FailureEnds, StopsListening, DiesOfSignal, Crash, Unbind, Becomes
  <2>1. /\ record' \in Daemons \cup {"absent", "gone"}
        /\ port' \in Daemons \cup {"free", "foreign"}
    OBVIOUS
  <2>2. life' \in [Daemons -> Lives]
    BY DEF Lives
  <2>3. http' \in [Daemons -> {"idle", "listening", "stopping", "stopped"}]
    OBVIOUS
  <2>4. sig' \in [Daemons -> {"none", "term", "kill"}]
    OBVIOUS
  <2>5. config' \in Configs /\ hash' \in [Daemons -> Configs]
    OBVIOUS
  <2>6. UNCHANGED commandVars
    OBVIOUS
  <2> QED BY <2>1, <2>2, <2>3, <2>4, <2>5, <2>6
<1>2. ASSUME NEW c \in Starters, DetachStep(c) PROVE TypeOK'
  <2> USE <1>2 DEF DetachStep, Detach, Spawn, WaitFinds, WaitLoses, WaitTimesOut,
        Probe, Reread, DetachEnds, Goto
  <2>1. UNCHANGED <<record, port, config, http, hash, target, loaded>>
    OBVIOUS
  <2>2. life' \in [Daemons -> Lives]
    BY DEF Becomes, Lives
  <2>3. sig' \in [Daemons -> {"none", "term", "kill"}]
    BY DEF TryKill, Signal
  <2>4. pc' \in [Commands -> Pcs]
    BY DEF Pcs, Answers
  <2>5. outcome' \in [Starters -> Started \cup NotStarted \cup {"none"}]
    BY DEF Started, NotStarted
  <2> QED BY <2>1, <2>2, <2>3, <2>4, <2>5
<1>3. ASSUME NEW c \in Runs, RunStep(c) PROVE TypeOK'
  <2> USE <1>3 DEF RunStep, LoadConfig, Ensure, Recheck, Ready, TakesRecorded, Goto
  <2>1. UNCHANGED <<record, port, config, daemonVars, outcome>>
    OBVIOUS
  <2>2. target' \in [Commands -> Daemons]
    BY DEF Alive
  <2>3. pc' \in [Commands -> Pcs]
    BY DEF Pcs, Answers
  <2>4. loaded' \in [Runs -> Configs]
    OBVIOUS
  <2> QED BY <2>1, <2>2, <2>3, <2>4
<1>4. ASSUME NEW c \in Stops, StopStep(c) PROVE TypeOK'
  <2> USE <1>4 DEF StopStep, StopRead, SeesExit, Escalate, GiveUp, Finalize, Goto
  <2>1. /\ UNCHANGED <<port, config, life, http, hash, outcome, loaded>>
        /\ record' \in {record, "absent"}
    OBVIOUS
  <2>2. sig' \in [Daemons -> {"none", "term", "kill"}]
    BY DEF Signal
  <2>3. target' \in [Commands -> Daemons]
    BY DEF Alive
  <2>4. pc' \in [Commands -> Pcs]
    BY DEF Pcs, Answers
  <2> QED BY <2>1, <2>2, <2>3, <2>4
<1>5. ASSUME NEW c \in Commands, ClearStale(c) \/ ClearFails(c) PROVE TypeOK'
  <2>1. pc' \in [Commands -> Pcs]
    BY <1>5 DEF ClearStale, ClearFails, Goto, Pcs, Answers
  <2> QED BY <1>5, <2>1 DEF ClearStale, ClearFails
<1>6. CASE ForeignEnds \/ Finished \/ UNCHANGED vars
  BY <1>6 DEF ForeignEnds, Finished, vars
<1>7. CASE EditConfig
  <2>1. config' \in Configs
    BY <1>7, BoundsAssumption DEF EditConfig, Configs
  <2> QED BY <1>7, <2>1 DEF EditConfig
<1> QED
  BY <1>1, <1>2, <1>3, <1>4, <1>5, <1>6, <1>7 DEF Next, CommandStep

\* Every variable of the commands and daemons keeps its type: what a command
\* takes from the state file as its target is a daemon, not a stale record.
THEOREM TypeCorrect == Spec => []TypeOK
BY TypeInit, TypeStep, PTL DEF Spec
-----------------------------------------------------------------------------
(* Each part of DaemonInv survives every step. *)

\* A command's step leaves every daemon where it is, but for the one it spawns,
\* and the record is removed or stays.
LEMMA CommandFrame ==
  ASSUME TypeOK, NEW c \in Commands, CommandStep(c)
  PROVE  /\ UNCHANGED <<port, config, http, hash>>
         /\ record' \in {record, "absent"}
         /\ \/ UNCHANGED life
            \/ /\ c \in Starters /\ pc[c] = "spawn" /\ pc' = [pc EXCEPT ![c] = "wait"]
               /\ life' = [life EXCEPT ![c] = "spawned"]
<1> USE DEF daemonVars
<1>1. CASE c \in Starters /\ DetachStep(c)
  BY <1>1 DEF DetachStep, Detach, Spawn, WaitFinds, WaitLoses, WaitTimesOut, Probe,
              Reread, DetachEnds, Goto, Becomes
<1>2. CASE c \in Runs /\ RunStep(c)
  BY <1>2 DEF RunStep, LoadConfig, Ensure, Recheck, Ready
<1>3. CASE c \in Stops /\ StopStep(c)
  BY <1>3 DEF StopStep, StopRead, SeesExit, Escalate, GiveUp, Finalize
<1>4. CASE ClearStale(c) \/ ClearFails(c)
  BY <1>4 DEF ClearStale, ClearFails
<1> QED BY <1>1, <1>2, <1>3, <1>4 DEF CommandStep

\* Only a daemon that has bound the port is on record, and only up to its end.
LEMMA RecordStep ==
  ASSUME TypeOK, RecordLives, RecordNamesBound, BoundListens, BeforeSpawn, [Next]_vars
  PROVE  RecordLives' /\ RecordNamesBound' /\ BoundListens'
<1> USE Names DEF TypeOK, RecordLives, RecordNamesBound, BoundListens, Published
<1>1. ASSUME NEW d \in Daemons, DaemonStep(d) \/ PublishFails(d) \/ Crash(d)
      PROVE  RecordLives' /\ RecordNamesBound' /\ BoundListens'
  <2> USE <1>1 DEF DaemonStep, LoadsConfig, Bind, BindFails, MayPublish, Publish,
        PublishFails, PublishThrows, HttpStopped, Disposes, ReadsRecord, ReadFails, MayBeOurs,
        Unlinks, UnlinkFails, FailureEnds, StopsListening, DiesOfSignal, Crash, Becomes, Ended
  <2>1. RecordLives'
    OBVIOUS
  <2>2. RecordNamesBound'
    OBVIOUS
  <2>3. BoundListens'
    OBVIOUS
  <2> QED BY <2>1, <2>2, <2>3
<1>2. ASSUME NEW c \in Commands, CommandStep(c)
      PROVE  RecordLives' /\ RecordNamesBound' /\ BoundListens'
  BY <1>2, CommandFrame DEF BeforeSpawn, Early
<1>3. CASE ForeignEnds \/ EditConfig \/ Finished \/ UNCHANGED vars
  BY <1>3 DEF ForeignEnds, EditConfig, Finished, vars, daemonVars
<1> QED BY <1>1, <1>2, <1>3 DEF Next

\* The command a daemon is named by has not ended before it spawns the daemon.
LEMMA BeforeSpawnStep ==
  ASSUME TypeOK, BeforeSpawn, [Next]_vars
  PROVE  BeforeSpawn'
<1> USE Names DEF TypeOK, BeforeSpawn, Early
<1>1. ASSUME NEW d \in Daemons, DaemonStep(d) \/ PublishFails(d) \/ Crash(d)
      PROVE  BeforeSpawn'
  BY <1>1 DEF DaemonStep, LoadsConfig, Bind, BindFails, MayPublish, Publish,
        PublishFails, PublishThrows, HttpStopped, Disposes, ReadsRecord, ReadFails, MayBeOurs,
        Unlinks, UnlinkFails, FailureEnds, StopsListening, DiesOfSignal, Crash, Becomes, Ended,
        commandVars
<1>2. ASSUME NEW c \in Commands, CommandStep(c) PROVE BeforeSpawn'
  <2>1. CASE c \in Starters /\ DetachStep(c)
    BY <2>1 DEF DetachStep, Detach, Spawn, WaitFinds, WaitLoses, WaitTimesOut, Probe,
                Reread, DetachEnds, Goto, Becomes, daemonVars
  <2>2. CASE c \in Runs /\ RunStep(c)
    BY <2>2 DEF RunStep, LoadConfig, Ensure, Recheck, Ready, TakesRecorded, Goto,
                daemonVars
  <2>3. CASE c \in Stops /\ StopStep(c)
    BY <2>3 DEF StopStep, StopRead, SeesExit, Escalate, GiveUp, Finalize, Goto,
                daemonVars
  <2>4. CASE ClearStale(c) \/ ClearFails(c)
    BY <2>4 DEF ClearStale, ClearFails, Goto, daemonVars
  <2> QED BY <1>2, <2>1, <2>2, <2>3, <2>4 DEF CommandStep
<1>3. CASE ForeignEnds \/ EditConfig \/ Finished \/ UNCHANGED vars
  BY <1>3 DEF ForeignEnds, EditConfig, Finished, vars, daemonVars, commandVars
<1> QED BY <1>1, <1>2, <1>3 DEF Next

\* A daemon that has ended stays so, unless it is yet to be spawned.
LEMMA EndedStays ==
  ASSUME TypeOK, BeforeSpawn, [Next]_vars, NEW d \in Daemons, life[d] \in Ended,
         d \in Starters => pc[d] # "spawn"
  PROVE  life'[d] = life[d]
<1> USE Names DEF TypeOK, Ended
<1>1. ASSUME NEW e \in Daemons, DaemonStep(e) \/ PublishFails(e) \/ Crash(e)
      PROVE  life'[d] = life[d]
  BY <1>1 DEF DaemonStep, LoadsConfig, Bind, BindFails, MayPublish, Publish,
        PublishFails, PublishThrows, HttpStopped, Disposes, ReadsRecord, ReadFails,
        Unlinks, UnlinkFails, FailureEnds, StopsListening, DiesOfSignal, Crash, Becomes
<1>2. ASSUME NEW c \in Commands, CommandStep(c) PROVE life'[d] = life[d]
  BY <1>2, CommandFrame
<1>3. CASE ForeignEnds \/ EditConfig \/ Finished \/ UNCHANGED vars
  BY <1>3 DEF ForeignEnds, EditConfig, Finished, vars, daemonVars
<1> QED BY <1>1, <1>2, <1>3 DEF Next
\* Nor does a daemon that is on its way out come back.
LEMMA GoingStays ==
  ASSUME TypeOK, BoundListens, BeforeSpawn, [Next]_vars, NEW d \in Daemons, Going(d),
         d \in Starters => pc[d] # "spawn"
  PROVE  Going(d)'
<1> USE Names DEF TypeOK, Going, Alive, Ended
<1>1. ASSUME NEW e \in Daemons, DaemonStep(e) \/ PublishFails(e) \/ Crash(e)
      PROVE  Going(d)'
  <2>1. CASE e # d
    BY <1>1, <2>1 DEF DaemonStep, LoadsConfig, Bind, BindFails, Publish, PublishFails,
          PublishThrows, HttpStopped, Disposes, ReadsRecord, ReadFails, Unlinks,
          UnlinkFails, FailureEnds, StopsListening, DiesOfSignal, Crash, Becomes
  <2>2. CASE e = d /\ (LoadsConfig(e) \/ BindFails(e) \/ Publish(e))
    BY <2>2 DEF LoadsConfig, BindFails, MayPublish, Publish, Becomes
  <2>6. CASE e = d /\ Bind(e)
    <3>1. http[d] = "idle"
      BY <2>6 DEF Bind, BoundListens
    <3>2. sig[d] # "none"
      BY <2>6, <3>1 DEF Bind
    <3> QED BY <2>6, <3>1, <3>2 DEF Bind, Becomes
  <2>3. CASE e = d /\ (PublishFails(e) \/ PublishThrows(e) \/ HttpStopped(e))
    BY <2>3 DEF PublishFails, PublishThrows, HttpStopped, Becomes
  <2>4. CASE e = d /\ (Disposes(e) \/ ReadsRecord(e) \/ ReadFails(e)
                    \/ Unlinks(e) \/ UnlinkFails(e) \/ FailureEnds(e))
    BY <2>4 DEF Disposes, ReadsRecord, ReadFails, Unlinks, UnlinkFails, FailureEnds, Becomes
  <2>5. CASE e = d /\ (StopsListening(e) \/ DiesOfSignal(e) \/ Crash(e))
    BY <2>5 DEF StopsListening, DiesOfSignal, Crash, Becomes
  <2> QED BY <1>1, <2>1, <2>2, <2>3, <2>4, <2>5, <2>6 DEF DaemonStep
<1>2. ASSUME NEW c \in Commands, CommandStep(c) PROVE Going(d)'
  <2>1. sig[d] # "none" => sig'[d] # "none"
    <3>1. CASE c \in Starters /\ DetachStep(c)
      BY <3>1 DEF DetachStep, Detach, Spawn, WaitFinds, WaitLoses, WaitTimesOut, Probe,
                  Reread, TryKill, Signal, daemonVars
    <3>2. CASE c \in Runs /\ RunStep(c)
      BY <3>2 DEF RunStep, LoadConfig, Ensure, Recheck, Ready, daemonVars
    <3>3. CASE c \in Stops /\ StopStep(c)
      BY <3>3 DEF StopStep, StopRead, SeesExit, Escalate, GiveUp, Finalize, Signal,
                  daemonVars
    <3>4. CASE ClearStale(c) \/ ClearFails(c)
      BY <3>4 DEF ClearStale, ClearFails, daemonVars
    <3> QED BY <1>2, <3>1, <3>2, <3>3, <3>4 DEF CommandStep
  <2> QED BY <1>2, <2>1, CommandFrame
<1>3. CASE ForeignEnds \/ EditConfig \/ Finished \/ UNCHANGED vars
  BY <1>3 DEF ForeignEnds, EditConfig, Finished, vars, daemonVars
<1> QED BY <1>1, <1>2, <1>3 DEF Next

\* How a command comes to look for a sibling, and to an outcome.
LEMMA OutcomeChanges ==
  ASSUME TypeOK, BeforeSpawn, ChildEnded, [Next]_vars, NEW c \in Starters
  PROVE  /\ (pc'[c] \in {"probe", "reread"} /\ pc[c] \notin {"probe", "reread"})
              => life[c] \in Ended /\ pc[c] # "spawn"
         /\ (outcome'[c] # outcome[c] /\ outcome'[c] # "started")
              => pc[c] # "spawn" /\ (Going(c) \/ Going(c)')
<1> USE Names DEF TypeOK
<1>1. ASSUME NEW d \in Daemons, DaemonStep(d) \/ PublishFails(d) \/ Crash(d)
      PROVE  UNCHANGED <<pc, outcome>>
  BY <1>1 DEF DaemonStep, LoadsConfig, Bind, BindFails, MayPublish, Publish,
        PublishFails, PublishThrows, HttpStopped, Disposes, ReadsRecord, ReadFails,
        Unlinks, UnlinkFails, FailureEnds, StopsListening, DiesOfSignal, Crash, commandVars
<1>2. ASSUME NEW e \in Commands, CommandStep(e), e # c
      PROVE  pc'[c] = pc[c] /\ outcome'[c] = outcome[c]
  <2>1. CASE e \in Starters /\ DetachStep(e)
    BY <1>2, <2>1 DEF DetachStep, Detach, Spawn, WaitFinds, WaitLoses, WaitTimesOut,
                Probe, Reread, DetachEnds, Goto
  <2>2. CASE e \in Runs /\ RunStep(e)
    BY <1>2, <2>2 DEF RunStep, LoadConfig, Ensure, Recheck, Ready, TakesRecorded, Goto
  <2>3. CASE e \in Stops /\ StopStep(e)
    BY <1>2, <2>3 DEF StopStep, StopRead, SeesExit, Escalate, GiveUp, Finalize, Goto
  <2>4. CASE ClearStale(e) \/ ClearFails(e)
    BY <1>2, <2>4 DEF ClearStale, ClearFails, Goto
  <2> QED BY <1>2, <2>1, <2>2, <2>3, <2>4 DEF CommandStep
<1>3. ASSUME DetachStep(c)
      PROVE  /\ (pc'[c] \in {"probe", "reread"} /\ pc[c] \notin {"probe", "reread"})
                  => life[c] \in Ended /\ pc[c] # "spawn"
             /\ (outcome'[c] # outcome[c] /\ outcome'[c] # "started")
                  => pc[c] # "spawn" /\ (Going(c) \/ Going(c)')
  <2>1. CASE Detach(c)
    BY <2>1 DEF Detach, DetachEnds, Goto, BeforeSpawn, Early, Going, Alive, Ended
  <2>2. CASE Spawn(c)
    BY <2>2 DEF Spawn, Goto
  <2>3. CASE WaitFinds(c) \/ WaitTimesOut(c)
    <3>1. (outcome'[c] # outcome[c] /\ outcome'[c] # "started") => TryKill(c)
      BY <2>3 DEF WaitFinds, WaitTimesOut, DetachEnds
    <3>2. TryKill(c) => (~Alive(c) \/ sig'[c] # "none")
      BY DEF TryKill, Signal
    <3>3. pc[c] = "wait" /\ pc'[c] \notin {"probe", "reread"}
      BY <2>3 DEF WaitFinds, WaitTimesOut, DetachEnds, Goto
    <3> QED BY <3>1, <3>2, <3>3 DEF Going
  <2>4. CASE WaitLoses(c)
    BY <2>4 DEF WaitLoses, Goto, Alive
  <2>5. CASE Probe(c) \/ Reread(c)
    BY <2>5 DEF Probe, Reread, DetachEnds, Goto, ChildEnded, Going, Alive
  <2> QED BY <1>3, <2>1, <2>2, <2>3, <2>4, <2>5 DEF DetachStep
<1>4. ASSUME (c \in Runs /\ RunStep(c)) \/ ClearStale(c) \/ ClearFails(c)
      PROVE  pc'[c] \notin {"probe", "reread"} /\ outcome'[c] = outcome[c]
  <2>1. CASE c \in Runs /\ RunStep(c)
    BY <2>1 DEF RunStep, LoadConfig, Ensure, Recheck, Ready, TakesRecorded, Goto
  <2>2. CASE ClearStale(c) \/ ClearFails(c)
    BY <2>2 DEF ClearStale, ClearFails, Goto
  <2> QED BY <1>4, <2>1, <2>2
<1>5. CASE ForeignEnds \/ EditConfig \/ Finished \/ UNCHANGED vars
  BY <1>5 DEF ForeignEnds, EditConfig, Finished, vars, commandVars
<1> QED BY <1>1, <1>2, <1>3, <1>4, <1>5 DEF Next, CommandStep

LEMMA ChildStep ==
  ASSUME TypeOK, BoundListens, BeforeSpawn, ChildEnded, NoChildLeft, [Next]_vars
  PROVE  ChildEnded' /\ NoChildLeft'
<1> USE Names
<1>1. ChildEnded'
  <2> SUFFICES ASSUME NEW c \in Starters, pc'[c] \in {"probe", "reread"}
               PROVE  life'[c] \in Ended
    BY DEF ChildEnded
  <2>1. life[c] \in Ended /\ pc[c] # "spawn"
    BY OutcomeChanges DEF ChildEnded
  <2> QED BY <2>1, EndedStays
<1>2. NoChildLeft'
  <2> SUFFICES ASSUME NEW c \in Starters, outcome'[c] \in NotStarted \cup {"reused"}
               PROVE  Going(c)'
    BY DEF NoChildLeft
  <2>1. CASE outcome'[c] = outcome[c]
    <3>1. Going(c) /\ pc[c] # "spawn"
      BY <2>1 DEF NoChildLeft, BeforeSpawn, Early, NotStarted
    <3> QED BY <3>1, GoingStays
  <2>2. CASE outcome'[c] # outcome[c]
    <3>1. pc[c] # "spawn" /\ (Going(c) \/ Going(c)')
      BY <2>2, OutcomeChanges DEF NotStarted
    <3> QED BY <3>1, GoingStays
  <2> QED BY <2>1, <2>2
<1> QED BY <1>1, <1>2

\* A port is given to one listener, and goes with it.
LEMMA PortStep ==
  ASSUME TypeOK, BoundListens, BeforeSpawn, ListensOnPort, [Next]_vars
  PROVE  ListensOnPort'
<1> USE Names DEF TypeOK, Ended
<1>1. ASSUME NEW d \in Daemons, DaemonStep(d) \/ PublishFails(d) \/ Crash(d)
      PROVE  ListensOnPort'
  <2>1. CASE Bind(d)
    BY <2>1 DEF Bind, Becomes, ListensOnPort, Alive
  <2>2. CASE PublishFails(d) \/ StopsListening(d)
    BY <2>2 DEF PublishFails, StopsListening, Becomes, Unbind, ListensOnPort, Alive
  <2>3. CASE DiesOfSignal(d) \/ Crash(d)
    BY <2>3 DEF DiesOfSignal, Crash, Becomes, Unbind, ListensOnPort, Alive
  <2>4. CASE LoadsConfig(d) \/ BindFails(d) \/ Publish(d) \/ PublishThrows(d)
    BY <2>4 DEF LoadsConfig, BindFails, Publish, MayPublish, PublishThrows, Becomes,
          ListensOnPort, Alive
  <2>5. CASE HttpStopped(d) \/ Disposes(d) \/ ReadsRecord(d) \/ ReadFails(d)
    BY <2>5 DEF HttpStopped, Disposes, ReadsRecord, ReadFails, Becomes, ListensOnPort, Alive
  <2>6. CASE Unlinks(d) \/ UnlinkFails(d) \/ FailureEnds(d)
    BY <2>6 DEF Unlinks, UnlinkFails, FailureEnds, Becomes, ListensOnPort, Alive
  <2> QED BY <1>1, <2>1, <2>2, <2>3, <2>4, <2>5, <2>6 DEF DaemonStep
<1>2. ASSUME NEW c \in Commands, CommandStep(c) PROVE ListensOnPort'
  <2>1. UNCHANGED <<port, http>>
    BY <1>2, CommandFrame
  <2>2. \A d \in Daemons : http[d] = "listening" /\ Alive(d)' => Alive(d)
    <3> SUFFICES ASSUME NEW d \in Daemons, http[d] = "listening", Alive(d)' PROVE Alive(d)
      OBVIOUS
    <3>1. CASE UNCHANGED life
      BY <3>1 DEF Alive
    <3>2. CASE c \in Starters /\ pc[c] = "spawn" /\ life' = [life EXCEPT ![c] = "spawned"]
      <4>1. http[c] = "idle"
        BY <3>2, Names DEF BeforeSpawn, Early, BoundListens
      <4> QED BY <3>2, <4>1 DEF Alive
    <3> QED BY <1>2, <3>1, <3>2, CommandFrame
  <2> QED BY <2>1, <2>2 DEF ListensOnPort
<1>3. CASE ForeignEnds \/ EditConfig \/ Finished \/ UNCHANGED vars
  BY <1>3 DEF ForeignEnds, EditConfig, Finished, vars, daemonVars, ListensOnPort, Alive
<1> QED BY <1>1, <1>2, <1>3 DEF Next

\* The daemon a run acts on keeps the config that was compared, and the one a run
\* takes from the record has loaded its config.
LEMMA ConfigStep ==
  ASSUME TypeOK, RecordLives, BeforeSpawn, KeepsConfig, [Next]_vars
  PROVE  KeepsConfig'
<1> USE Names DEF TypeOK, Published
<1> SUFFICES ASSUME NEW c \in Runs, pc'[c] = "ready"
             PROVE  /\ life'[target'[c]] \in Published \cup {"exited"}
                    /\ hash'[target'[c]] = loaded'[c]
  BY DEF KeepsConfig
<1>1. ASSUME NEW d \in Daemons, DaemonStep(d) \/ PublishFails(d) \/ Crash(d)
      PROVE  /\ life'[target'[c]] \in Published \cup {"exited"}
             /\ hash'[target'[c]] = loaded'[c]
  <2>1. UNCHANGED commandVars
    BY <1>1 DEF DaemonStep, LoadsConfig, Bind, BindFails, Publish, PublishFails,
          PublishThrows, HttpStopped, Disposes, ReadsRecord, ReadFails, Unlinks,
          UnlinkFails, FailureEnds, StopsListening, DiesOfSignal, Crash
  <2>2. /\ target'[c] = target[c] /\ loaded'[c] = loaded[c]
        /\ life[target[c]] \in Published \cup {"exited"} /\ hash[target[c]] = loaded[c]
    BY <2>1 DEF KeepsConfig, commandVars
  <2>3. life'[target[c]] \in Published \cup {"exited"}
    <3> DEFINE t == target[c]
    <3>1. t \in Daemons /\ life[t] \in Published \cup {"exited"}
      BY <2>2
    <3>2. CASE life'[t] = life[t]
      BY <3>1, <3>2
    <3>3. CASE d = t /\ (Disposes(d) \/ ReadsRecord(d) \/ ReadFails(d) \/ Unlinks(d) \/ UnlinkFails(d))
      BY <3>1, <3>3 DEF Disposes, ReadsRecord, ReadFails, Unlinks, UnlinkFails, Becomes
    <3>4. CASE d = t /\ (DiesOfSignal(d) \/ Crash(d))
      BY <3>1, <3>4 DEF DiesOfSignal, Crash, Becomes
    <3>5. \/ life'[t] = life[t]
          \/ d = t /\ (Disposes(d) \/ ReadsRecord(d) \/ ReadFails(d) \/ Unlinks(d)
                        \/ UnlinkFails(d) \/ DiesOfSignal(d) \/ Crash(d))
      BY <1>1, <3>1 DEF DaemonStep, LoadsConfig, Bind, BindFails, MayPublish, Publish,
            PublishFails, PublishThrows, HttpStopped, Disposes, ReadsRecord, ReadFails,
            Unlinks, UnlinkFails,
            FailureEnds, StopsListening, DiesOfSignal, Crash, Becomes
    <3> QED BY <3>2, <3>3, <3>4, <3>5
  <2>4. hash'[target[c]] = hash[target[c]]
    BY <1>1, <2>2 DEF DaemonStep, LoadsConfig, Bind, BindFails, Publish, PublishFails,
          PublishThrows, HttpStopped, Disposes, ReadsRecord, ReadFails, Unlinks,
          UnlinkFails, FailureEnds, StopsListening, DiesOfSignal, Crash
  <2> QED BY <2>2, <2>3, <2>4
<1>2. ASSUME NEW e \in Commands, CommandStep(e)
      PROVE  /\ life'[target'[c]] \in Published \cup {"exited"}
             /\ hash'[target'[c]] = loaded'[c]
  <2>1. \A d \in Daemons : life[d] \in Published \cup {"exited"} => life'[d] = life[d]
    BY <1>2, CommandFrame DEF BeforeSpawn, Early
  <2>2. hash' = hash
    BY <1>2, CommandFrame
  <2>3. CASE pc[c] = "ready" /\ target'[c] = target[c] /\ loaded'[c] = loaded[c]
    BY <2>1, <2>2, <2>3 DEF KeepsConfig
  <2>4. CASE /\ Alive(record) /\ target'[c] = record
             /\ hash[record] = loaded[c] /\ loaded'[c] = loaded[c]
    BY <2>1, <2>2, <2>4 DEF Alive, RecordLives
  <2>5. e = c /\ c \in Runs /\ RunStep(c) /\ (Ensure(c) \/ Recheck(c))
          => /\ Alive(record) /\ target'[c] = record
             /\ hash[record] = loaded[c] /\ loaded'[c] = loaded[c]
    BY DEF Ensure, Recheck, TakesRecorded, SameConfig, Goto
  <2>6. ~(e = c /\ RunStep(c) /\ (Ensure(c) \/ Recheck(c)))
          => /\ pc[c] = "ready"
             /\ target'[c] = target[c] /\ loaded'[c] = loaded[c]
    <3>1. CASE e \in Starters /\ DetachStep(e)
      BY <3>1 DEF DetachStep, Detach, Spawn, WaitFinds, WaitLoses, WaitTimesOut, Probe,
                  Reread, DetachEnds, Goto
    <3>2. CASE e \in Runs /\ RunStep(e)
      BY <3>2 DEF RunStep, LoadConfig, Ensure, Recheck, Ready, TakesRecorded, Goto
    <3>3. CASE e \in Stops /\ StopStep(e)
      BY <3>3 DEF StopStep, StopRead, SeesExit, Escalate, GiveUp, Finalize, Goto
    <3>4. CASE ClearStale(e) \/ ClearFails(e)
      BY <3>4 DEF ClearStale, ClearFails, Goto
    <3> QED BY <1>2, <3>1, <3>2, <3>3, <3>4 DEF CommandStep
  <2> QED BY <2>3, <2>4, <2>5, <2>6
<1>3. CASE ForeignEnds \/ EditConfig \/ Finished \/ UNCHANGED vars
  BY <1>3 DEF ForeignEnds, EditConfig, Finished, vars, daemonVars, commandVars, KeepsConfig
<1> QED BY <1>1, <1>2, <1>3 DEF Next

-----------------------------------------------------------------------------
LEMMA DaemonInvInit == Init => DaemonInv
<1> SUFFICES ASSUME Init PROVE DaemonInv
  OBVIOUS
<1> USE Names DEF Init
<1>1. TypeOK
  BY TypeInit
<1>2. RecordLives /\ RecordNamesBound
  BY DEF RecordLives, RecordNamesBound, Published
<1>3. BoundListens /\ ListensOnPort
  BY DEF BoundListens, ListensOnPort
<1>4. BeforeSpawn
  BY DEF BeforeSpawn, Early
<1>5. ChildEnded
  BY DEF ChildEnded
<1>6. NoChildLeft
  BY DEF NoChildLeft, NotStarted
<1>7. KeepsConfig
  BY DEF KeepsConfig
<1> QED BY <1>1, <1>2, <1>3, <1>4, <1>5, <1>6, <1>7 DEF DaemonInv

\* What every command that has read the unlocked state file, and every daemon,
\* may rely on at its next step.
THEOREM DaemonInvariant == Spec => []DaemonInv
<1>1. DaemonInv /\ [Next]_vars => DaemonInv'
  <2> SUFFICES ASSUME DaemonInv, [Next]_vars PROVE DaemonInv'
    OBVIOUS
  <2> USE DEF DaemonInv
  <2>1. TypeOK'
    BY TypeStep
  <2>2. RecordLives' /\ RecordNamesBound' /\ BoundListens' /\ ListensOnPort'
    BY RecordStep, PortStep
  <2>3. BeforeSpawn' /\ ChildEnded' /\ NoChildLeft'
    BY BeforeSpawnStep, ChildStep
  <2>4. KeepsConfig'
    BY ConfigStep
  <2> QED BY <2>1, <2>2, <2>3, <2>4
<1> QED BY <1>1, DaemonInvInit, PTL DEF Spec

\* No command finds a daemon on record that has not won the port
\* (publishManagedState after downstream.start()).
THEOREM NeverHalfStarted == Spec => []RecordNamesBound
<1>1. DaemonInv => RecordNamesBound
  BY DEF DaemonInv
<1> QED BY <1>1, DaemonInvariant, PTL

\* A daemon that returns from runServe has left no record of itself, whoever
\* else cleared or replaced the record meanwhile (clearManagedState).
THEOREM LeavesNoRecord == Spec => []CleanExit
<1>1. DaemonInv => CleanExit
  BY DEF DaemonInv, RecordLives, Published, CleanExit
<1> QED BY <1>1, DaemonInvariant, PTL

\* A detached start that reports anything but its own daemon leaves none behind,
\* for any number of commands that race it (waitForChildState, tryKill).
THEOREM NoSuperfluousChild == Spec => []NoChildLeft
<1>1. DaemonInv => NoChildLeft
  BY DEF DaemonInv
<1> QED BY <1>1, DaemonInvariant, PTL

\* What answers a run on the port is the daemon whose config it has compared,
\* unless that daemon is going (ensureDaemon, waitForDaemonReady): no stale
\* record, foreign holder or rival that lost the port comes in between.
THEOREM ActsOnItsConfig == Spec => HandleServesConfig
<1>1. ASSUME DaemonInv, NEW c \in Runs, pc[c] = "ready", ~Going(target[c])
      PROVE  port = target[c] /\ hash[port] = loaded[c]
  <2> DEFINE t == target[c]
  <2> USE Names DEF DaemonInv
  <2>1. t \in Daemons /\ life[t] \in Published \cup {"exited"} /\ hash[t] = loaded[c]
    BY <1>1 DEF KeepsConfig, TypeOK
  <2>2. Alive(t) /\ http[t] \notin {"stopping", "stopped"}
    BY <1>1 DEF Going
  <2>3. http[t] = "listening"
    <3>1. http[t] \in {"idle", "listening", "stopping", "stopped"}
      BY <1>1, <2>1 DEF TypeOK
    <3>2. life[t] \in {"bound", "serving", "disposing", "unlinking"}
      BY <2>1, <2>2 DEF Published, Alive, Ended
    <3> HIDE DEF t
    <3> QED BY <1>1, <2>1, <2>2, <3>1, <3>2 DEF BoundListens
  <2> QED BY <1>1, <2>1, <2>2, <2>3 DEF ListensOnPort
<1>2. DaemonInv => \A c \in Runs : (pc[c] = "ready" /\ pc'[c] = "handle") =>
                     \/ port = target[c] /\ hash[port] = loaded[c]
                     \/ Going(target[c])
  BY <1>1
<1> QED BY <1>2, DaemonInvariant, PTL DEF HandleServesConfig
=============================================================================
