---------------------------- MODULE ConfigCommands ----------------------------
(***************************************************************************)
(* The commands that change config.json and the manifest of the custom     *)
(* tools: tlbx server add, edit, remove, enable and disable, tlbx config   *)
(* set and edit, tlbx tools enable and disable, init, doctor --fix, setup, *)
(* and tlbx tool import, enable, disable and remove, each a process of its *)
(* own that is killed anywhere.                                            *)
(*                                                                         *)
(* Both files are guarded by the config-dir lock, taken here as what       *)
(* ConfigLock shows it to be.  Only setup creates config.json without it.  *)
(* A save is atomic (atomic-write.ts).  The namespaces of the tools are    *)
(* drawn from the same Names as the servers, with one tool in each.        *)
(***************************************************************************)
EXTENDS ClientInstall

CONSTANTS
  Names,
  Missing, Torn \* no config.json; the empty file of createConfigIfMissing

Commands == Installers

Values == {"none", "one", "two"}
Sources == {"none", "torn", "old", "new"}
Kinds == {"add", "remove", "edit", "set", "setAll", "configEdit", "toggle", "init",
          "forceInit", "doctor", "setup", "import", "enable", "disable", "toolRemove",
          "install"}
Default == [n \in Names |-> "none"]

ASSUME FilesAssumption ==
  /\ Missing # Torn
  /\ Missing \notin [Names -> Values] /\ Torn \notin [Names -> Values]
  /\ Names \notin Commands

VARIABLES
  config,   \* config.json: the entry of each server, Missing or Torn
  manifest, \* manifest[n]: none, disabled or enabled
  source,   \* source[n]: the stored source file, torn when its copy was cut short
  holder,   \* who holds the config-dir lock, or Names (nobody)
  kind, name, pc,
  seen,     \* seen[c]: what was read before the prompt, the editor or the lock
  next      \* next[c]: the config to be saved

fileVars == <<config, manifest, source>>
cmdVars == <<kind, name, pc, seen, next>>
vars == <<installVars, fileVars, holder, cmdVars>>

Nobody == Names
Loaded(f) == f \notin {Missing, Torn}
Disjoint(f) == \A n \in Names : f[n] = "none" \/ manifest[n] = "none"

Init ==
  /\ InstallInit
  /\ config \in {Missing} \cup [Names -> {"none", "one"}]
  /\ manifest \in [Names -> {"none", "enabled"}]
  /\ Loaded(config) => Disjoint(config)
  /\ source = [n \in Names |-> IF manifest[n] = "none" THEN "none" ELSE "old"]
  /\ holder = Nobody
  /\ kind = [c \in Commands |-> "set"] /\ name \in [Commands -> Names]
  /\ pc = [c \in Commands |-> "idle"]
  /\ seen = [c \in Commands |-> Missing] /\ next = [c \in Commands |-> Missing]

-----------------------------------------------------------------------------
Goto(c, l) == pc' = [pc EXCEPT ![c] = l]

\* A command returns; setup goes on to the clients it has detected.
Over(c) == IF kind[c] = "setup" THEN "clients" ELSE "over"

\* What a command finds before it prompts, opens an editor or probes a URL:
\* runAddHttp and planImport look for the name among servers and tools alike.
NameLooksFree(n) == Loaded(config) /\ config[n] = "none" /\ manifest[n] = "none"

Admitted(k, n) ==
  CASE k \in {"add", "import"} -> NameLooksFree(n)
    [] k \in {"remove", "edit"} -> Loaded(config) /\ config[n] # "none"
    [] k = "configEdit" -> config # Missing
    [] k \in {"init", "doctor"} -> config = Missing
    [] k = "toolRemove" -> Loaded(config) /\ manifest[n] # "none"
    [] k \in {"set", "setAll", "enable", "disable"} -> Loaded(config)
    [] OTHER -> TRUE

\* init finds no file, or is given --force; doctor finds none and asks.
Begin(c) ==
  /\ pc[c] = "idle"
  /\ \E k \in Kinds :
       /\ Admitted(k, name[c])
       /\ kind' = [kind EXCEPT ![c] = k]
       /\ Goto(c, CASE k = "setup" -> "creates" [] k = "install" -> "clients" [] OTHER -> "wait")
  /\ seen' = [seen EXCEPT ![c] = config]
  /\ UNCHANGED <<installVars, fileVars, holder, name, next>>

\* createConfigIfMissing: open(target, 'wx'), without the lock
Creates(c) ==
  /\ pc[c] = "creates"
  /\ IF config = Missing THEN config' = Torn /\ Goto(c, "fills")
     ELSE Goto(c, "loads") /\ UNCHANGED config
  /\ UNCHANGED <<installVars, manifest, source, holder, kind, name, seen, next>>

\* writeFile through the handle; a file that was put in its place stays.
Fills(c) ==
  /\ pc[c] = "fills"
  /\ IF config = Torn THEN config' = Default ELSE UNCHANGED config
  /\ Goto(c, "loads")
  /\ UNCHANGED <<installVars, manifest, source, holder, kind, name, seen, next>>

\* runSetup loads the config, then offers to add a server.
Loads(c) ==
  /\ pc[c] = "loads"
  /\ IF Loaded(config) THEN \E l \in {"wait", "clients"} : Goto(c, l) ELSE Goto(c, "over")
  /\ UNCHANGED <<installVars, fileVars, holder, kind, name, seen, next>>

-----------------------------------------------------------------------------
(* Under the lock. *)

\* withConfigLock
Acquire(c) ==
  /\ pc[c] = "wait"
  /\ UNCHANGED <<installVars, fileVars, kind, name, seen, next>>
  /\ IF holder = Nobody THEN holder' = c /\ Goto(c, "locked")
     ELSE Goto(c, Over(c)) /\ UNCHANGED holder

Release(c) == Goto(c, Over(c)) /\ holder' = Nobody

\* Mutant: the command writes to what it has read before the lock.
ReadBefore(c) == seen[c]

\* loadConfig, again, under the lock
Reread(c) == config

\* rejectDuplicate, rejectToolNamespaceCollision
NameIsFree(c, f) == f[name[c]] = "none" /\ manifest[name[c]] = "none"

\* What each command makes of the config f it has loaded: nothing, if it refuses.
\* runAddStdio, writeStaticHttpEntry, and runAddHttp after its probe:
Adds(c, f) ==
  IF Loaded(f) /\ NameIsFree(c, f) THEN {[f EXCEPT ![name[c]] = "one"]} ELSE {}

\* The entry must be the one the command has shown,
Unchanged(c, f) ==
  Loaded(f) /\ f[name[c]] # "none" /\ f[name[c]] = seen[c][name[c]]

Removes(c, f) == IF Unchanged(c, f) THEN {[f EXCEPT ![name[c]] = "none"]} ELSE {}

Edits(c, f) ==
  IF Unchanged(c, f) THEN {[f EXCEPT ![name[c]] = v] : v \in {"one", "two"}} ELSE {}

\* an entry or a part of it may be set to anything, and so may servers as a whole,
Sets(c, f) ==
  IF Loaded(f) THEN {[f EXCEPT ![name[c]] = v] : v \in {"one", "two"}} ELSE {}

SetsAll(f) == IF Loaded(f) THEN [Names -> Values] ELSE {}

\* and any file for the one the editor was opened on.
Retypes(c, f) == IF f = seen[c] THEN [Names -> Values] ELSE {}

\* server enable and disable change the entry as it is, tools enable and disable an
\* override of a configured server's tool, which is no part of the entry.
Toggles(c, f) ==
  IF Loaded(f) /\ f[name[c]] # "none" THEN {f, [f EXCEPT ![name[c]] = "two"]} ELSE {}

Candidates(c, f) ==
  CASE kind[c] \in {"add", "setup"} -> Adds(c, f)
    [] kind[c] = "remove" -> Removes(c, f)
    [] kind[c] = "edit" -> Edits(c, f)
    [] kind[c] = "set" -> Sets(c, f)
    [] kind[c] = "setAll" -> SetsAll(f)
    [] kind[c] = "toggle" -> Toggles(c, f)
    [] OTHER -> Retypes(c, f)

\* Those that change one entry, and all that make a config of the one they load.
EntryKinds == {"add", "setup", "remove", "edit", "set", "toggle"}
ConfigKinds == EntryKinds \cup {"setAll", "configEdit"}

LoadsAndChecks(c) ==
  /\ pc[c] = "locked" /\ kind[c] \in ConfigKinds
  /\ LET made == Candidates(c, Reread(c)) IN
     IF made # {}
     THEN \E f \in made : next' = [next EXCEPT ![c] = f] /\ Goto(c, "saves") /\ UNCHANGED holder
     ELSE Release(c) /\ UNCHANGED next
  /\ UNCHANGED <<installVars, fileVars, kind, name, seen>>

\* runInit: saveConfig(DEFAULT_CONFIG) takes the lock for itself, and what init
\* has found before is not looked at again, with --force or without.
Resets(c) ==
  /\ pc[c] = "locked" /\ kind[c] \in {"init", "forceInit"}
  /\ next' = [next EXCEPT ![c] = Default]
  /\ Goto(c, "saves")
  /\ UNCHANGED <<installVars, fileVars, holder, kind, name, seen>>

\* fixMissingConfig: the same, whatever has come to be there since it asked.
FixesMissing(c) ==
  /\ pc[c] = "locked" /\ kind[c] = "doctor"
  /\ next' = [next EXCEPT ![c] = Default]
  /\ Goto(c, "saves")
  /\ UNCHANGED <<installVars, fileVars, holder, kind, name, seen>>

\* The candidate does not validate or is not written, or it is.
Saves(c) ==
  /\ pc[c] = "saves"
  /\ config' \in {config, next[c]}
  /\ next' = [next EXCEPT ![c] = Missing]
  /\ Release(c)
  /\ UNCHANGED <<installVars, manifest, source, kind, name, seen>>

\* Mutant: commitImport does not ask for the latest server names.
ToolIsNew(c) == manifest[name[c]] = "none"

\* commitImport: the manifest and the servers as they are now.
MayCommit(c) ==
  manifest[name[c]] = "none" /\ Loaded(config) /\ config[name[c]] = "none"

Imports(c) ==
  /\ pc[c] = "locked" /\ kind[c] = "import"
  /\ IF MayCommit(c) THEN Goto(c, "copies") /\ UNCHANGED holder ELSE Release(c)
  /\ UNCHANGED <<installVars, fileVars, kind, name, seen, next>>

\* The source is copied, then the entry written.
Copies(c) ==
  /\ pc[c] = "copies"
  /\ source' = [source EXCEPT ![name[c]] = "new"]
  /\ Goto(c, "enters")
  /\ UNCHANGED <<installVars, config, manifest, holder, kind, name, seen, next>>

\* writeFile throws or is killed on the way; the entry is not written.
CopyCutShort(c) ==
  /\ pc[c] = "copies"
  /\ source' = [source EXCEPT ![name[c]] = "torn"]
  /\ Release(c)
  /\ UNCHANGED <<installVars, config, manifest, kind, name, seen, next>>

NewEntry == "disabled"

Enters(c) ==
  /\ pc[c] = "enters"
  /\ manifest' = [manifest EXCEPT ![name[c]] = NewEntry]
  /\ Release(c)
  /\ UNCHANGED <<installVars, config, source, kind, name, seen, next>>

\* setToolEnabled
Enables(c) ==
  /\ pc[c] = "locked" /\ kind[c] = "enable"
  /\ IF manifest[name[c]] # "none" /\ source[name[c]] # "none"
     THEN manifest' = [manifest EXCEPT ![name[c]] = "enabled"] ELSE UNCHANGED manifest
  /\ Release(c)
  /\ UNCHANGED <<installVars, config, source, kind, name, seen, next>>

Disables(c) ==
  /\ pc[c] = "locked" /\ kind[c] = "disable"
  /\ IF manifest[name[c]] # "none"
     THEN manifest' = [manifest EXCEPT ![name[c]] = "disabled"] ELSE UNCHANGED manifest
  /\ Release(c)
  /\ UNCHANGED <<installVars, config, source, kind, name, seen, next>>

\* Mutant: the file goes before its entry.
FileFirst(c) == source' = [source EXCEPT ![name[c]] = "none"] /\ UNCHANGED manifest

EntryFirst(c) == manifest' = [manifest EXCEPT ![name[c]] = "none"] /\ UNCHANGED source

\* removeTool
RemovesTool(c) ==
  /\ pc[c] = "locked" /\ kind[c] = "toolRemove"
  /\ IF manifest[name[c]] # "none"
     THEN EntryFirst(c) /\ Goto(c, "deletes") /\ UNCHANGED holder
     ELSE Release(c) /\ UNCHANGED <<manifest, source>>
  /\ UNCHANGED <<installVars, config, kind, name, seen, next>>

\* A file that cannot be deleted is left as an orphan.
Deletes(c) ==
  /\ pc[c] = "deletes"
  /\ source' \in {source, [source EXCEPT ![name[c]] = "none"]}
  /\ Release(c)
  /\ UNCHANGED <<installVars, config, manifest, kind, name, seen, next>>

\* The process is killed; its lock goes stale and is reclaimed.
Killed(c) ==
  /\ pc[c] \in {"fills", "locked", "saves", "copies", "enters", "deletes"}
  /\ Goto(c, "over")
  /\ holder' = IF holder = c THEN Nobody ELSE holder
  /\ next' = [next EXCEPT ![c] = Missing]
  /\ UNCHANGED <<installVars, fileVars, kind, name, seen>>

\* tlbx client install, the last part of setup.
Installs(c) ==
  /\ pc[c] = "clients"
  /\ InstallStep(c) \/ InstallKilled(c)
  /\ UNCHANGED <<fileVars, holder, cmdVars>>

Client ==
  /\ ClientReads \/ ClientWrites
  /\ UNCHANGED <<fileVars, holder, cmdVars>>

-----------------------------------------------------------------------------
Command(c) ==
  \/ Begin(c) \/ Resets(c) \/ FixesMissing(c) \/ Creates(c) \/ Fills(c) \/ Loads(c) \/ Acquire(c)
  \/ LoadsAndChecks(c) \/ Saves(c) \/ Imports(c) \/ Copies(c) \/ CopyCutShort(c)
  \/ Enters(c)
  \/ Enables(c) \/ Disables(c) \/ RemovesTool(c) \/ Deletes(c)
  \/ Installs(c) \/ Killed(c)

Next == Client \/ \E c \in Commands : Command(c)

Spec == Init /\ [][Next]_vars

-----------------------------------------------------------------------------
TypeOK ==
  /\ config \in {Missing, Torn} \cup [Names -> Values]
  /\ manifest \in [Names -> {"none", "disabled", "enabled"}]
  /\ source \in [Names -> Sources]
  /\ holder \in Commands \cup {Nobody}
  /\ kind \in [Commands -> Kinds] /\ name \in [Commands -> Names]

Collide(n) == Loaded(config) /\ config[n] # "none" /\ manifest[n] # "none"

\* A server and the namespace of a tool never come to share a name by server add
\* and tool import, whichever was there first and whatever was typed while the
\* other prompted: only config set and config edit, which look at no tools, can
\* make them collide.
CollisionsAreTyped ==
  [][\A n \in Names : ~Collide(n) /\ Collide(n)' =>
       \E c \in Commands : pc[c] = "saves" /\ kind[c] \in {"set", "setAll", "configEdit"}]_vars

\* The commands that may change the entry n: the one it is the name of, one that
\* is to replace all of servers, and an edit of the file as it still is.
OwnChange(c, n) ==
  /\ pc[c] = "saves"
  /\ \/ kind[c] \in EntryKinds /\ name[c] = n
     \/ kind[c] \in {"setAll", "forceInit"}
     \/ kind[c] = "configEdit" /\ seen[c] = config

\* init and doctor --fix, which have found no file and do not look again.
MissedTheFile(c) == pc[c] = "saves" /\ kind[c] \in {"init", "doctor"} /\ seen[c] = Missing

Loses(n) == Loaded(config) /\ config[n] # "none" /\ config[n] # config'[n]

\* No command loses an entry that another has written, by a read that is older
\* than the lock, by an editor that was open meanwhile or by a setup that creates
\* the file without the lock: only init and doctor --fix can, when the file has
\* come to be there since they looked.
NoEntryLost ==
  [][\A n \in Names : Loses(n) =>
       \E c \in Commands : OwnChange(c, n) \/ MissedTheFile(c)]_vars

\* What init promises without --force, and does not keep: a config that exists is
\* not overwritten.
InitOverwritesNothing ==
  [][\A n \in Names : Loses(n) => \E c \in Commands : OwnChange(c, n)]_vars

\* A tool that is entered has its source, and all of it, wherever a command is
\* killed or a write fails.
NoDanglingEntry == \A n \in Names : manifest[n] # "none" => source[n] \in {"old", "new"}
=============================================================================
