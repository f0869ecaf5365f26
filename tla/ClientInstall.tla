---------------------------- MODULE ClientInstall ----------------------------
(***************************************************************************)
(* core/src/clients: Toolbx enters itself into the configuration file of   *)
(* an MCP client.  The client owns that file and takes no lock of ours:    *)
(* it may rewrite the file, from what it holds in memory, at any moment.   *)
(* install-flow.ts therefore reads, merges, reads again, moves the file    *)
(* aside to a backup and links the merged one, which fails if the client   *)
(* has created the file anew.                                              *)
(***************************************************************************)
EXTENDS Naturals

CONSTANTS
  Installers, \* tlbx client install and tlbx setup, each once
  Absent,     \* no such file
  MaxVersion  \* bound: rewrites by the client

\* The toolbx entry of the file: none, an older Toolbx's, another, ours; or the
\* file holds no entry because it is empty, has comments, or does not parse.
Entries == {"none", "legacy", "other", "ours", "empty", "commented", "malformed"}

ASSUME ClientInstallAssumption ==
  MaxVersion \in Nat /\ Absent \notin [ver : Nat, entry : Entries]

Clients == {"claude", "codex", "opencode"}

VARIABLES
  client,  \* whose file it is
  live,    \* the client's file: [ver, entry], the client's version and the entry
  backups, \* the .bak files
  latest,  \* the version the client wrote last
  memory,  \* the entry the running client holds
  step,    \* of each installer
  original,\* original[i]: what i has merged into
  aside    \* aside[i]: what i has moved to its backup

clientVars == <<client, live, backups, latest, memory>>
installVars == <<clientVars, step, original, aside>>

InstallInit ==
  /\ client \in Clients
  /\ live \in {Absent} \cup [ver : {0}, entry : Entries]
  /\ backups = {} /\ latest = 0 /\ memory = "none"
  /\ step = [i \in Installers |-> "idle"]
  /\ original = [i \in Installers |-> Absent]
  /\ aside = [i \in Installers |-> Absent]

-----------------------------------------------------------------------------
(* The client. *)

ClientReads ==
  /\ live # Absent /\ memory # live.entry
  /\ memory' = live.entry
  /\ UNCHANGED <<client, live, backups, latest, step, original, aside>>

ClientWrites ==
  /\ latest < MaxVersion
  /\ latest' = latest + 1
  /\ live' = [ver |-> latest + 1, entry |-> memory]
  /\ UNCHANGED <<client, backups, memory, step, original, aside>>

-----------------------------------------------------------------------------
(* An installation. *)

StepTo(i, l) == step' = [step EXCEPT ![i] = l]

\* What the adapters share: the entry is ours already, can be entered, or is
\* another command's, which only force overwrites.
Overwrites(entry, force) ==
  CASE entry = "ours" -> "already"
    [] entry = "other" -> IF force THEN "write" ELSE "refused"
    [] OTHER -> "write"

\* JSON.parse takes neither an empty file nor comments,
ClaudeMerge(entry, force) ==
  IF entry \in {"empty", "commented", "malformed"} THEN "refused" ELSE Overwrites(entry, force)

\* parseToml takes both (an empty document, and lines with #),
CodexMerge(entry, force) ==
  IF entry = "malformed" THEN "refused" ELSE Overwrites(entry, force)

\* and parseJsonc the comments.
OpencodeMerge(entry, force) ==
  IF entry \in {"empty", "malformed"} THEN "refused" ELSE Overwrites(entry, force)

\* The merge of the file f by the adapter of its client.
Merged(f, force) ==
  IF f = Absent THEN "refused"
  ELSE CASE client = "claude" -> ClaudeMerge(f.entry, force)
         [] client = "codex" -> CodexMerge(f.entry, force)
         [] OTHER -> OpencodeMerge(f.entry, force)

\* detect(), install with dryRun, the diff, and the user's answer.
Preview(i) ==
  /\ step[i] = "idle"
  /\ \E force \in BOOLEAN, confirmed \in BOOLEAN :
       StepTo(i, IF Merged(live, force) # "write" THEN Merged(live, force)
                 ELSE IF ~confirmed THEN "refused"
                 ELSE IF force THEN "forced" ELSE "agreed")
  /\ UNCHANGED <<clientVars, original, aside>>

\* The second install reads afresh; the merged content goes to a file of its own.
ReadAndMerge(i) ==
  /\ step[i] \in {"agreed", "forced"}
  /\ LET m == Merged(live, step[i] = "forced") IN
     IF m = "write" THEN StepTo(i, "merged") /\ original' = [original EXCEPT ![i] = live]
     ELSE StepTo(i, m) /\ UNCHANGED original
  /\ UNCHANGED <<clientVars, aside>>

\* The temporary file cannot be written.
TmpFails(i) ==
  /\ step[i] = "merged"
  /\ StepTo(i, "refused")
  /\ UNCHANGED <<clientVars, original, aside>>

Verify(i) ==
  /\ step[i] = "merged"
  /\ StepTo(i, IF live = original[i] THEN "verified" ELSE "refused")
  /\ UNCHANGED <<clientVars, original, aside>>

\* rename(configPath, backupPath): moves whatever is there by now.
MoveAside(i) ==
  /\ step[i] = "verified"
  /\ IF live = Absent
     THEN StepTo(i, "refused") /\ UNCHANGED <<live, backups, aside>>
     ELSE /\ StepTo(i, "moved")
          /\ aside' = [aside EXCEPT ![i] = live]
          /\ backups' = backups \cup {live}
          /\ live' = Absent
  /\ UNCHANGED <<client, latest, memory, original>>

\* Mutant: rename instead of link replaces what the client has written meanwhile.
ReplacesIt == TRUE

NothingThere == live = Absent

\* link(tmpPath, configPath), EEXIST if there is a file again.
Link(i) ==
  /\ step[i] = "moved"
  /\ IF NothingThere
     THEN live' = [ver |-> original[i].ver, entry |-> "ours"] /\ StepTo(i, "installed")
     ELSE StepTo(i, "refused") /\ UNCHANGED live
  /\ UNCHANGED <<client, backups, latest, memory, original, aside>>

\* Any other error of link.
LinkFails(i) ==
  /\ step[i] = "moved"
  /\ StepTo(i, "restoring")
  /\ UNCHANGED <<clientVars, original, aside>>

\* rename(backupPath, configPath), which may fail too.
Restore(i) ==
  /\ step[i] = "restoring"
  /\ \/ StepTo(i, "refused") /\ live' = aside[i]
     \/ StepTo(i, "stranded") /\ UNCHANGED live
  /\ UNCHANGED <<client, backups, latest, memory, original, aside>>

InstallStep(i) ==
  \/ Preview(i) \/ ReadAndMerge(i) \/ TmpFails(i) \/ Verify(i)
  \/ MoveAside(i) \/ Link(i) \/ LinkFails(i) \/ Restore(i)

Finished == {"refused", "already", "installed", "stranded"}

InstallKilled(i) ==
  /\ step[i] \notin {"idle", "killed"} \cup Finished
  /\ StepTo(i, "killed")
  /\ UNCHANGED <<clientVars, original, aside>>

-----------------------------------------------------------------------------
\* What the client wrote last is in its file or in a backup.
Kept == \E f \in {live} \cup backups : f # Absent /\ f.ver = latest

\* No installation loses what the client has written, wherever the client writes
\* between the steps of two installations and whichever of them is killed: only
\* the restoration after a failed link, a rename, can replace the client's file.
OnlyRestoreLoses ==
  [][Kept /\ ~Kept' => \E i \in Installers : step[i] = "restoring"]_installVars
=============================================================================
