------------------------ MODULE ConfigCommandsProofs ------------------------
(***************************************************************************)
(* Proofs about ConfigCommands: for any number of commands, each killed    *)
(* anywhere, no command loses another's entry, no server and tool come to  *)
(* share a name unless it was typed, and no tool is entered without its    *)
(* source.                                                                 *)
(***************************************************************************)
EXTENDS ConfigCommands, TLAPS

-----------------------------------------------------------------------------
(* The inductive invariant. *)

File == {Missing, Torn} \cup [Names -> Values]

Places == {"idle", "creates", "fills", "loads", "clients", "wait", "locked", "saves",
           "copies", "enters", "deletes", "over"}

Typed ==
  /\ TypeOK /\ config \in File
  /\ pc \in [Commands -> Places]
  /\ seen \in [Commands -> File] /\ next \in [Commands -> File]

\* Where a command holds the config-dir lock.
Locked == {"locked", "saves", "copies", "enters", "deletes"}

UnderLock == \A c \in Commands : pc[c] \in Locked => holder = c

\* A command saves what it has made of the file as it still is; only the empty
\* file is filled by a setup that holds no lock.
SavesOver(c) ==
  LET n == name[c] IN
  \/ kind[c] \in {"init", "forceInit", "doctor"} /\ next[c] = Default
  \/ kind[c] = "configEdit" /\ next[c] \in [Names -> Values] /\ config \in {seen[c], Default}
  \/ kind[c] = "setAll" /\ next[c] \in [Names -> Values] /\ config \in [Names -> Values]
  \/ /\ kind[c] \in EntryKinds /\ config \in [Names -> Values]
     /\ \E v \in Values : next[c] = [config EXCEPT ![n] = v]
     /\ kind[c] \in {"add", "setup"} => manifest[n] = "none"
     /\ kind[c] \in {"remove", "edit", "toggle"} => config[n] # "none"

SavesCurrent == \A c \in Commands : pc[c] = "saves" => SavesOver(c)

\* An editor was opened on a file; init and doctor have found none.
SeenBefore ==
  \A c \in Commands :
    /\ kind[c] = "configEdit" => seen[c] # Missing
    /\ kind[c] \in {"init", "doctor"} => seen[c] = Missing

\* An import copies the source of a tool that is not entered, and enters a name that
\* is free when it has copied; a removal deletes the source of a tool that is no
\* longer entered.
ToolSteps ==
  \A c \in Commands :
    /\ pc[c] \in {"copies", "enters"} => config \in [Names -> Values] /\ config[name[c]] = "none"
    /\ pc[c] = "enters" => source[name[c]] \in {"old", "new"}
    /\ pc[c] \in {"copies", "deletes"} => manifest[name[c]] = "none"

CommandsInv ==
  Typed /\ UnderLock /\ SavesCurrent /\ SeenBefore /\ ToolSteps /\ NoDanglingEntry

-----------------------------------------------------------------------------
LEMMA Files ==
  /\ Default \in [Names -> Values] /\ Default \in File
  /\ \A f \in File : Loaded(f) <=> f \in [Names -> Values]
  /\ \A f \in File : f = Missing \/ f = Torn \/ f \in [Names -> Values]
  /\ Missing \in File /\ Torn \in File /\ Missing # Torn
  /\ Nobody \notin Commands
BY FilesAssumption DEF Default, File, Loaded, Values, Nobody

LEMMA InitHolds == Init => CommandsInv
<1> SUFFICES ASSUME Init PROVE CommandsInv
  OBVIOUS
<1>1. Typed
  <2> USE DEF Init
  <2>1. config \in File
    BY DEF File, Values
  <2>2. /\ manifest \in [Names -> {"none", "enabled"}]
        /\ source \in [Names -> Sources]
    BY DEF Sources
  <2>3. kind \in [Commands -> Kinds] /\ name \in [Commands -> Names]
    <3>1. "set" \in Kinds
      BY DEF Kinds
    <3> QED BY <3>1
  <2>4. seen \in [Commands -> File] /\ next \in [Commands -> File]
    BY Files
  <2>5. pc \in [Commands -> Places]
    BY DEF Places
  <2>6. TypeOK
    BY <2>1, <2>2, <2>3 DEF TypeOK, File
  <2> QED BY <2>1, <2>4, <2>5, <2>6 DEF Typed
<1>2. NoDanglingEntry
  BY DEF Init, NoDanglingEntry
<1> QED BY <1>1, <1>2 DEF Init, CommandsInv, UnderLock, SavesCurrent, SeenBefore, ToolSteps, Locked

\* What a command has made of a file is a file.
LEMMA CandidatesTyped ==
  ASSUME Typed, NEW c \in Commands, NEW f \in Candidates(c, config)
  PROVE  f \in [Names -> Values]
<1> USE Files
<1>1. name[c] \in Names /\ (Loaded(config) => config \in [Names -> Values])
  BY DEF Typed, TypeOK
<1>2. "none" \in Values /\ "one" \in Values /\ "two" \in Values
  BY DEF Values
<1>3. \A v \in Values : Loaded(config) => [config EXCEPT ![name[c]] = v] \in [Names -> Values]
  BY <1>1
<1> QED BY <1>1, <1>2, <1>3 DEF Candidates, Adds, Unchanged, Removes, Edits, Sets, SetsAll, Toggles, Retypes

LEMMA TypeKept ==
  ASSUME Typed, [Next]_vars
  PROVE  Typed'
<1> USE Files
<1>1. CASE UNCHANGED <<fileVars, holder, cmdVars>>
  BY <1>1 DEF Typed, TypeOK, File, fileVars, cmdVars
<1>2. ASSUME NEW c \in Commands, Command(c), ~Installs(c) PROVE Typed'
  <2>1. pc' \in [Commands -> Places]
    BY <1>2 DEF Command, Begin, Resets, FixesMissing, Creates, Fills, Loads, Acquire, LoadsAndChecks,
      Saves, Imports, Copies, CopyCutShort, Enters, Enables, Disables, RemovesTool, Deletes, Killed, Goto,
      Release, Over, Places, Typed
  <2>2. kind' \in [Commands -> Kinds] /\ name' = name
    BY <1>2 DEF Command, Begin, Resets, FixesMissing, Creates, Fills, Loads, Acquire, LoadsAndChecks,
      Saves, Imports, Copies, CopyCutShort, Enters, Enables, Disables, RemovesTool, Deletes, Killed, Typed, TypeOK
  <2>3. holder' \in Commands \cup {Nobody}
    BY <1>2 DEF Command, Begin, Resets, FixesMissing, Creates, Fills, Loads, Acquire, LoadsAndChecks,
      Saves, Imports, Copies, CopyCutShort, Enters, Enables, Disables, RemovesTool, Deletes, Killed, Release,
      Typed, TypeOK
  <2>4. next' \in [Commands -> File]
    <3>1. CASE LoadsAndChecks(c)
      <4>1. (\E f \in Candidates(c, config) : next' = [next EXCEPT ![c] = f]) \/ next' = next
        BY <3>1 DEF LoadsAndChecks, Reread
      <4> QED BY <4>1, CandidatesTyped DEF Typed, File
    <3>2. CASE ~LoadsAndChecks(c)
      BY <1>2, <3>2 DEF Command, Begin, Resets, FixesMissing, Creates, Fills, Loads, Acquire,
        Saves, Imports, Copies, CopyCutShort, Enters, Enables, Disables, RemovesTool, Deletes, Killed, Typed
    <3> QED BY <3>1, <3>2
  <2>5. seen' \in [Commands -> File]
    BY <1>2 DEF Command, Begin, Resets, FixesMissing, Creates, Fills, Loads, Acquire, LoadsAndChecks,
      Saves, Imports, Copies, CopyCutShort, Enters, Enables, Disables, RemovesTool, Deletes, Killed, Typed
  <2>6. config' \in File
    BY <1>2 DEF Command, Begin, Resets, FixesMissing, Creates, Fills, Loads, Acquire, LoadsAndChecks,
      Saves, Imports, Copies, CopyCutShort, Enters, Enables, Disables, RemovesTool, Deletes, Killed, Typed, fileVars
  <2>7. manifest' \in [Names -> {"none", "disabled", "enabled"}] /\ source' \in [Names -> Sources]
    BY <1>2 DEF Command, Begin, Resets, FixesMissing, Creates, Fills, Loads, Acquire, LoadsAndChecks,
      Saves, Imports, Copies, CopyCutShort, Enters, Enables, Disables, RemovesTool, Deletes, Killed, Typed, TypeOK,
      EntryFirst, NewEntry, Sources, fileVars
  <2>8. TypeOK'
    BY <2>2, <2>3, <2>6, <2>7 DEF Typed, TypeOK, File
  <2> QED BY <2>1, <2>4, <2>5, <2>6, <2>8 DEF Typed
<1> QED BY <1>1, <1>2 DEF Next, Client, Installs, vars

\* A step of c that changes no file and takes no lock, but may release it.
LEMMA Quiet ==
  ASSUME CommandsInv, NEW c \in Commands, UNCHANGED fileVars,
         NEW l \in Places \ Locked, Goto(c, l), Typed', SeenBefore',
         holder' = holder \/ (holder = c /\ holder' = Nobody),
         \A d \in Commands \ {c} : kind'[d] = kind[d] /\ name'[d] = name[d]
                                   /\ seen'[d] = seen[d] /\ next'[d] = next[d]
  PROVE  CommandsInv'
<1>1. /\ pc'[c] = l /\ \A d \in Commands \ {c} : pc'[d] = pc[d]
      /\ UNCHANGED <<config, manifest, source>>
  BY DEF Goto, CommandsInv, Typed, fileVars
<1>2. UnderLock'
  BY <1>1 DEF CommandsInv, UnderLock
<1>3. SavesCurrent'
  <2> SUFFICES ASSUME NEW d \in Commands, pc'[d] = "saves" PROVE SavesOver(d)'
    BY DEF SavesCurrent
  <2>1. d # c /\ SavesOver(d)
    BY <1>1 DEF Locked, CommandsInv, SavesCurrent
  <2> QED BY <1>1, <2>1 DEF SavesOver
<1>4. ToolSteps' /\ NoDanglingEntry'
  BY <1>1 DEF CommandsInv, ToolSteps, NoDanglingEntry, Locked
<1> QED BY <1>2, <1>3, <1>4 DEF CommandsInv

\* A step of the command that holds the lock, takes it or releases it.
LEMMA OnlyOne ==
  ASSUME CommandsInv, NEW c \in Commands, holder = c \/ holder = Nobody,
         NEW l \in Places, Goto(c, l),
         holder' = c \/ (holder' = Nobody /\ l \notin Locked),
         Typed', UNCHANGED <<kind, name, seen>>, NoDanglingEntry',
         l = "saves" => SavesOver(c)',
         l \in {"copies", "enters"} => config' \in [Names -> Values] /\ config'[name[c]] = "none",
         l = "enters" => source'[name[c]] \in {"old", "new"},
         l \in {"copies", "deletes"} => manifest'[name[c]] = "none"
  PROVE  CommandsInv'
<1>1. pc'[c] = l /\ \A d \in Commands \ {c} : pc'[d] \notin Locked
  BY Files DEF Goto, CommandsInv, Typed, UnderLock
<1>2. UnderLock' /\ SavesCurrent'
  BY <1>1 DEF UnderLock, SavesCurrent, Locked
<1>3. ToolSteps' /\ SeenBefore'
  BY <1>1 DEF ToolSteps, Locked, SeenBefore, CommandsInv
<1> QED BY <1>2, <1>3 DEF CommandsInv

LEMMA CreatesKeeps ==
  ASSUME CommandsInv, NEW c \in Commands, Creates(c) \/ Fills(c)
  PROVE  CommandsInv'
<1> USE Files
<1>1. /\ UNCHANGED <<manifest, source, holder, kind, name, seen, next>>
      /\ \A d \in Commands : pc'[d] \in Locked => pc'[d] = pc[d]
      /\ config' # config =>
           (config = Missing /\ config' = Torn) \/ (config = Torn /\ config' = Default)
  <2>1. PICK l \in {"fills", "loads"} : pc' = [pc EXCEPT ![c] = l]
    BY DEF Creates, Fills, Goto
  <2>2. \A d \in Commands : pc'[d] \in Locked => pc'[d] = pc[d]
    BY <2>1 DEF CommandsInv, Typed, Locked
  <2> QED BY <2>2 DEF Creates, Fills
<1>3. Typed'
  BY TypeKept DEF CommandsInv, Next, Command
<1>4. UnderLock' /\ SeenBefore' /\ NoDanglingEntry'
  BY <1>1 DEF CommandsInv, UnderLock, SeenBefore, NoDanglingEntry
<1>5. config \in [Names -> Values] => config' = config
  BY <1>1, FilesAssumption
<1>6. SavesCurrent'
  <2> SUFFICES ASSUME NEW d \in Commands, pc'[d] = "saves" PROVE SavesOver(d)'
    BY DEF SavesCurrent
  <2>1. SavesOver(d) /\ (kind[d] = "configEdit" => seen[d] # Missing)
    BY <1>1 DEF Locked, CommandsInv, SavesCurrent, SeenBefore
  <2> QED BY <1>1, <1>5, <2>1 DEF SavesOver
<1>7. ToolSteps'
  BY <1>1, <1>5 DEF CommandsInv, ToolSteps, Locked
<1> QED BY <1>3, <1>4, <1>6, <1>7 DEF CommandsInv

LEMMA QuietSteps ==
  ASSUME CommandsInv, NEW c \in Commands, Begin(c) \/ Loads(c) \/ Killed(c)
  PROVE  CommandsInv'
<1> USE Files
<1>1. Typed'
  BY TypeKept DEF CommandsInv, Next, Command
<1>2. PICK l \in {"creates", "clients", "wait", "over"} : Goto(c, l)
  BY DEF Begin, Loads, Killed
<1>3. UNCHANGED fileVars /\ (holder' = holder \/ (holder = c /\ holder' = Nobody))
  BY DEF Begin, Loads, Killed
<1>4. \A d \in Commands \ {c} :
        kind'[d] = kind[d] /\ name'[d] = name[d] /\ seen'[d] = seen[d] /\ next'[d] = next[d]
  BY DEF Begin, Loads, Killed, CommandsInv, Typed, TypeOK
<1>5. SeenBefore'
  <2>1. CASE Begin(c)
    <3>1. PICK k \in Kinds : Admitted(k, name[c]) /\ kind' = [kind EXCEPT ![c] = k]
      BY <2>1 DEF Begin
    <3>2. (k = "configEdit" => config # Missing) /\ (k \in {"init", "doctor"} => config = Missing)
      BY <3>1 DEF Admitted
    <3>3. seen' = [seen EXCEPT ![c] = config]
      BY <2>1 DEF Begin
    <3> QED BY <3>1, <3>2, <3>3 DEF CommandsInv, Typed, TypeOK, SeenBefore
  <2>2. CASE Loads(c) \/ Killed(c)
    BY <2>2 DEF Loads, Killed, CommandsInv, SeenBefore
  <2> QED BY <2>1, <2>2
<1>6. l \in Places \ Locked
  BY <1>2 DEF Places, Locked
<1> QED BY <1>1, <1>2, <1>3, <1>4, <1>5, <1>6, Quiet

\* Who is under the lock holds it.
LEMMA Holds ==
  ASSUME CommandsInv, NEW c \in Commands, pc[c] \in Locked
  PROVE  holder = c
BY DEF CommandsInv, UnderLock

\* The steps under the lock that leave the files alone.
LEMMA LockedSteps ==
  ASSUME CommandsInv, NEW c \in Commands,
         Acquire(c) \/ LoadsAndChecks(c) \/ Resets(c) \/ FixesMissing(c) \/ Imports(c)
  PROVE  CommandsInv'
<1> USE Files
<1>1. Typed'
  BY TypeKept DEF CommandsInv, Next, Command
<1>2. /\ UNCHANGED <<fileVars, config, manifest, source, kind, name, seen>>
      /\ NoDanglingEntry' /\ SeenBefore'
  BY DEF Acquire, LoadsAndChecks, Resets, FixesMissing, Imports, fileVars, CommandsInv,
    NoDanglingEntry, SeenBefore
<1>3. \A d \in Commands \ {c} :
        kind'[d] = kind[d] /\ name'[d] = name[d] /\ seen'[d] = seen[d] /\ next'[d] = next[d]
  BY DEF Acquire, LoadsAndChecks, Resets, FixesMissing, Imports, CommandsInv, Typed
<1>4. Over(c) \in Places \ Locked /\ Locked \subseteq Places
  BY DEF Over, Places, Locked
<1>5. CASE Goto(c, Over(c)) /\ (holder' = holder \/ (holder' = Nobody /\ holder = c))
  BY <1>1, <1>2, <1>3, <1>4, <1>5, Quiet
<1>6. CASE Acquire(c)
  <2>1. CASE holder = Nobody
    <3>1. holder' = c /\ Goto(c, "locked")
      BY <1>6, <2>1 DEF Acquire
    <3> QED BY <1>1, <1>2, <1>4, <2>1, <3>1, OnlyOne DEF Locked
  <2>2. CASE holder # Nobody
    <3>1. Goto(c, Over(c)) /\ holder' = holder
      BY <1>6, <2>2 DEF Acquire
    <3>2. Goto(c, Over(c)) /\ (holder' = holder \/ (holder' = Nobody /\ holder = c))
      BY <3>1
    <3> QED BY <1>5, <3>2, Zenon
  <2> QED BY <2>1, <2>2
<1>7. CASE LoadsAndChecks(c)
  <2>1. holder = c
    BY <1>7, Holds DEF LoadsAndChecks, Locked
  <2>2. CASE Release(c)
    BY <1>5, <2>1, <2>2 DEF Release
  <2>3. CASE ~Release(c)
    <3>1. PICK f \in Candidates(c, config) :
            next' = [next EXCEPT ![c] = f] /\ Goto(c, "saves") /\ UNCHANGED holder
      BY <1>7, <2>3 DEF LoadsAndChecks, Reread
    <3>2. next'[c] = f /\ f \in [Names -> Values]
      BY <3>1, CandidatesTyped DEF CommandsInv, Typed
    <3>3. SavesOver(c)'
      <4>1. kind[c] \in ConfigKinds /\ config \in File /\ name[c] \in Names
        BY <1>7 DEF LoadsAndChecks, CommandsInv, Typed, TypeOK
      <4>2. "none" \in Values /\ "one" \in Values /\ "two" \in Values
        BY DEF Values
      <4>3. CASE kind[c] = "configEdit"
        BY <1>2, <3>1, <3>2, <4>3 DEF SavesOver, Candidates, Retypes
      <4>4. CASE kind[c] = "toggle"
        <5>1. config \in [Names -> Values] /\ config[name[c]] # "none"
              /\ f \in {config, [config EXCEPT ![name[c]] = "two"]}
          BY <4>1, <4>4 DEF Candidates, Toggles
        <5>2. config[name[c]] \in Values /\ config = [config EXCEPT ![name[c]] = config[name[c]]]
          BY <4>1, <5>1
        <5> QED BY <1>2, <3>2, <4>1, <4>2, <4>4, <5>1, <5>2 DEF SavesOver, EntryKinds
      <4>5. CASE kind[c] \in {"add", "setup"}
        BY <1>2, <3>1, <3>2, <4>1, <4>2, <4>5 DEF SavesOver, EntryKinds, Candidates, Adds, NameIsFree
      <4>6. CASE kind[c] = "remove"
        BY <1>2, <3>1, <3>2, <4>1, <4>2, <4>6 DEF SavesOver, EntryKinds, Candidates, Unchanged, Removes
      <4>7. CASE kind[c] = "edit"
        BY <1>2, <3>1, <3>2, <4>1, <4>2, <4>7 DEF SavesOver, EntryKinds, Candidates, Unchanged, Edits
      <4>8. CASE kind[c] = "set"
        <5>1. config \in [Names -> Values] /\ \E v \in Values : f = [config EXCEPT ![name[c]] = v]
          BY <4>1, <4>2, <4>8 DEF Candidates, Sets
        <5> QED BY <1>2, <3>2, <4>1, <4>8, <5>1 DEF SavesOver, EntryKinds
      <4>9. CASE kind[c] = "setAll"
        BY <1>2, <3>1, <3>2, <4>1, <4>9 DEF SavesOver, Candidates, SetsAll
      <4> QED BY <4>1, <4>3, <4>4, <4>5, <4>6, <4>7, <4>8, <4>9 DEF ConfigKinds, EntryKinds
    <3> QED BY <1>1, <1>2, <1>4, <2>1, <3>1, <3>3, OnlyOne DEF Locked
  <2> QED BY <2>2, <2>3
<1>8. CASE Resets(c) \/ FixesMissing(c)
  <2>1. holder = c /\ holder' = c /\ Goto(c, "saves") /\ next' = [next EXCEPT ![c] = Default]
    BY <1>8, Holds DEF Resets, FixesMissing, Locked
  <2>2. SavesOver(c)'
    BY <1>2, <1>8, <2>1 DEF SavesOver, Resets, FixesMissing, CommandsInv, Typed
  <2> QED BY <1>1, <1>2, <1>4, <2>1, <2>2, OnlyOne DEF Locked
<1>9. CASE Imports(c)
  <2>1. holder = c
    BY <1>9, Holds DEF Imports, Locked
  <2>2. CASE Release(c)
    BY <1>5, <2>1, <2>2 DEF Release
  <2>3. CASE ~Release(c)
    <3>1. MayCommit(c) /\ Goto(c, "copies") /\ UNCHANGED holder
      BY <1>9, <2>3 DEF Imports
    <3>2. config \in [Names -> Values] /\ config[name[c]] = "none" /\ manifest[name[c]] = "none"
      BY <3>1 DEF MayCommit, CommandsInv, Typed
    <3> QED BY <1>1, <1>2, <1>4, <2>1, <3>1, <3>2, OnlyOne DEF Locked
  <2> QED BY <2>2, <2>3
<1> QED BY <1>6, <1>7, <1>8, <1>9

\* The steps that change a file, and the release that comes with the last of them.
LEMMA WriteSteps ==
  ASSUME CommandsInv, NEW c \in Commands,
         Saves(c) \/ Copies(c) \/ CopyCutShort(c) \/ Enters(c) \/ Enables(c) \/ Disables(c) \/ RemovesTool(c) \/ Deletes(c)
  PROVE  CommandsInv'
<1> USE Files
<1>1. Typed'
  BY TypeKept DEF CommandsInv, Next, Command
<1>2. holder = c /\ UNCHANGED <<kind, name, seen>> /\ name[c] \in Names
  BY Holds DEF Saves, Copies, CopyCutShort, Enters, Enables, Disables, RemovesTool, Deletes, Locked, CommandsInv,
    Typed, TypeOK
<1>3. Over(c) \in Places \ Locked /\ {"enters", "deletes"} \subseteq Places
  BY DEF Over, Places, Locked
<1>4. \A n \in Names : manifest[n] # "none" => source[n] \in {"old", "new"}
  BY DEF CommandsInv, NoDanglingEntry
<1>5. manifest \in [Names -> {"none", "disabled", "enabled"}] /\ source \in [Names -> Sources]
  BY DEF CommandsInv, Typed, TypeOK
<1>6. CASE Release(c) /\ NoDanglingEntry'
  BY <1>1, <1>2, <1>3, <1>6, OnlyOne DEF Release, Locked
<1>7. CASE Saves(c)
  BY <1>4, <1>6, <1>7 DEF Saves, NoDanglingEntry
<1>8. CASE Copies(c)
  <2>1. source' = [source EXCEPT ![name[c]] = "new"] /\ Goto(c, "enters") /\ holder' = holder
        /\ UNCHANGED <<config, manifest>>
    BY <1>8 DEF Copies
  <2>2. NoDanglingEntry' /\ source'[name[c]] \in {"old", "new"}
    BY <1>2, <1>4, <1>5, <2>1 DEF NoDanglingEntry
  <2>3. config' \in [Names -> Values] /\ config'[name[c]] = "none"
    BY <1>8, <2>1 DEF Copies, CopyCutShort, CommandsInv, ToolSteps
  <2> QED BY <1>1, <1>2, <1>3, <2>1, <2>2, <2>3, OnlyOne
<1>9. CASE Enters(c)
  <2>1. source[name[c]] \in {"old", "new"}
    BY <1>9 DEF Enters, CommandsInv, ToolSteps
  <2>2. NoDanglingEntry'
    BY <1>2, <1>4, <1>5, <1>9, <2>1 DEF Enters, NoDanglingEntry
  <2> QED BY <1>6, <1>9, <2>2 DEF Enters
<1>10. CASE Enables(c) \/ Disables(c)
  <2>1. NoDanglingEntry'
    BY <1>2, <1>4, <1>5, <1>10 DEF Enables, Disables, NoDanglingEntry
  <2> QED BY <1>6, <1>10, <2>1 DEF Enables, Disables
<1>11. CASE RemovesTool(c)
  <2>1. CASE manifest[name[c]] # "none"
    <3>1. manifest' = [manifest EXCEPT ![name[c]] = "none"] /\ Goto(c, "deletes") /\ holder' = holder
          /\ UNCHANGED <<config, source>>
      BY <1>11, <2>1 DEF RemovesTool, EntryFirst
    <3>2. NoDanglingEntry' /\ manifest'[name[c]] = "none"
      BY <1>2, <1>4, <1>5, <3>1 DEF NoDanglingEntry
    <3> QED BY <1>1, <1>2, <1>3, <3>1, <3>2, OnlyOne
  <2>2. CASE manifest[name[c]] = "none"
    BY <1>4, <1>6, <1>11, <2>2 DEF RemovesTool, NoDanglingEntry
  <2> QED BY <2>1, <2>2
<1>12. CASE Deletes(c)
  <2>1. manifest[name[c]] = "none"
    BY <1>12 DEF Deletes, CommandsInv, ToolSteps
  <2>2. NoDanglingEntry'
    BY <1>2, <1>4, <1>5, <1>12, <2>1 DEF Deletes, NoDanglingEntry
  <2> QED BY <1>6, <1>12, <2>2 DEF Deletes
<1>13. CASE CopyCutShort(c)
  <2>1. manifest[name[c]] = "none"
    BY <1>13 DEF CopyCutShort, CommandsInv, ToolSteps
  <2>2. NoDanglingEntry'
    BY <1>2, <1>4, <1>5, <1>13, <2>1 DEF CopyCutShort, NoDanglingEntry
  <2> QED BY <1>6, <1>13, <2>2 DEF CopyCutShort
<1> QED BY <1>7, <1>8, <1>9, <1>10, <1>11, <1>12, <1>13

LEMMA Inductive == CommandsInv /\ [Next]_vars => CommandsInv'
<1> SUFFICES ASSUME CommandsInv, [Next]_vars PROVE CommandsInv'
  OBVIOUS
<1>1. CASE UNCHANGED <<fileVars, holder, cmdVars>>
  <2>1. Typed'
    BY TypeKept DEF CommandsInv
  <2> QED BY <1>1, <2>1 DEF fileVars, cmdVars, CommandsInv, UnderLock, SavesCurrent, SavesOver,
    SeenBefore, ToolSteps, NoDanglingEntry
<1>2. ASSUME NEW c \in Commands, Command(c) PROVE CommandsInv'
  BY <1>1, <1>2, CreatesKeeps, QuietSteps, LockedSteps, WriteSteps DEF Command, Installs
<1> QED BY <1>1, <1>2 DEF Next, Client, vars

-----------------------------------------------------------------------------
(* What a step does to the entries. *)

\* Only a save changes an entry of config.json.
LEMMA OnlySavesChange ==
  ASSUME CommandsInv, [Next]_vars, NEW n \in Names, Loaded(config), config # config'
  PROVE  \E c \in Commands : pc[c] = "saves" /\ config' = next[c] /\ UNCHANGED manifest
<1>1. PICK c \in Commands : Command(c)
  BY DEF Next, Client, vars, fileVars
<1>2. Saves(c)
  BY <1>1, FilesAssumption DEF Command, Begin, Resets, FixesMissing, Creates, Fills, Loads, Acquire,
    LoadsAndChecks, Imports, Copies, CopyCutShort, Enters, Enables, Disables, RemovesTool, Deletes, Installs,
    Killed, fileVars, Loaded
<1> QED BY <1>2 DEF Saves

LEMMA EntryKept ==
  ASSUME CommandsInv, [Next]_vars, NEW n \in Names, Loses(n)
  PROVE  \E c \in Commands : OwnChange(c, n) \/ MissedTheFile(c)
<1> USE DEF Loses
<1>1. PICK c \in Commands : pc[c] = "saves" /\ config' = next[c]
  BY OnlySavesChange
<1>2. SavesOver(c) /\ (kind[c] \in {"init", "doctor"} => seen[c] = Missing)
  BY <1>1 DEF CommandsInv, SavesCurrent, SeenBefore
<1>3. config # Default
  BY DEF Default
<1> QED BY <1>1, <1>2, <1>3 DEF SavesOver, OwnChange, MissedTheFile

LEMMA CollisionTyped ==
  ASSUME CommandsInv, [Next]_vars, NEW n \in Names, ~Collide(n), Collide(n)'
  PROVE  \E c \in Commands : pc[c] = "saves" /\ kind[c] \in {"set", "setAll", "configEdit"}
<1> USE Files
<1>1. config' \in [Names -> Values] /\ config'[n] # "none" /\ manifest'[n] # "none"
  BY Inductive DEF Collide, CommandsInv, Typed
<1>2. CASE config # config'
  <2>1. PICK c \in Commands : Saves(c) /\ config' = next[c]
    <3>1. PICK c \in Commands : Command(c)
      BY <1>2 DEF Next, Client, vars, fileVars
    <3>2. config' # Torn /\ config' # Default
      BY <1>1, FilesAssumption DEF Default
    <3>3. ~Creates(c) /\ ~Fills(c)
      BY <1>2, <3>2 DEF Creates, Fills
    <3>4. Saves(c)
      BY <1>2, <3>1, <3>3 DEF Command, Begin, Resets, FixesMissing, Loads, Acquire, LoadsAndChecks,
        Imports, Copies, CopyCutShort, Enters, Enables, Disables, RemovesTool, Deletes, Installs, Killed, fileVars
    <3> QED BY <1>2, <3>4 DEF Saves
  <2>2. SavesOver(c) /\ manifest' = manifest
    BY <2>1 DEF Saves, CommandsInv, SavesCurrent
  <2> QED BY <1>1, <2>1, <2>2 DEF SavesOver, Saves, Collide, Default, EntryKinds, CommandsInv, Typed,
    TypeOK
<1>3. CASE config = config'
  <2>1. PICK c \in Commands : Enters(c)
    BY <1>1, <1>3 DEF Collide, Next, Client, vars, fileVars, Command, Begin, Resets, FixesMissing,
      Creates, Fills, Loads, Acquire, LoadsAndChecks, Saves, Imports, Copies, CopyCutShort, Enables, Disables,
      RemovesTool, EntryFirst, Deletes, Installs, Killed, CommandsInv, Typed, TypeOK
  <2> QED BY <1>1, <1>3, <2>1 DEF Enters, CommandsInv, ToolSteps, Typed, TypeOK, Collide
<1> QED BY <1>2, <1>3

-----------------------------------------------------------------------------
\* The inductive invariant: whoever has read the config under the lock saves over
\* what it has read.
THEOREM CommandsInvariant == Spec => []CommandsInv
<1>1. Init => CommandsInv
  BY InitHolds
<1>2. CommandsInv /\ [Next]_vars => CommandsInv'
  BY Inductive
<1> QED BY <1>1, <1>2, PTL DEF Spec

\* A tool in the manifest has its source, wherever commands are killed.
THEOREM EntriesHaveSources == Spec => []NoDanglingEntry
<1>1. CommandsInv => NoDanglingEntry
  BY DEF CommandsInv
<1> QED BY <1>1, CommandsInvariant, PTL

\* No command loses an entry that another has written, but init and doctor --fix
\* where the file has come to be there since they looked.
THEOREM EntriesAreKept == Spec => NoEntryLost
<1>1. CommandsInv /\ [Next]_vars =>
        [\A n \in Names : Loses(n) =>
           \E c \in Commands : OwnChange(c, n) \/ MissedTheFile(c)]_vars
  BY EntryKept
<1> QED BY <1>1, CommandsInvariant, PTL DEF Spec, NoEntryLost

\* A server and a tool come to share a name only where it is typed.
THEOREM NamesStayApart == Spec => CollisionsAreTyped
<1>1. CommandsInv /\ [Next]_vars =>
        [\A n \in Names : ~Collide(n) /\ Collide(n)' =>
           \E c \in Commands : pc[c] = "saves" /\ kind[c] \in {"set", "setAll", "configEdit"}]_vars
  BY CollisionTyped
<1> QED BY <1>1, CommandsInvariant, PTL DEF Spec, CollisionsAreTyped

-----------------------------------------------------------------------------
(* The file of a client. *)

Contents == [ver : Nat, entry : Entries]

Steps == {"idle", "agreed", "forced", "merged", "verified", "moved", "restoring", "killed"}
           \cup Finished

\* An installation that has merged has merged into a file, and one that has moved
\* the file aside has one to put back.
InstallInv ==
  /\ live \in {Absent} \cup Contents /\ backups \subseteq Contents
  /\ latest \in Nat /\ memory \in Entries
  /\ step \in [Installers -> Steps]
  /\ original \in [Installers -> {Absent} \cup Contents]
  /\ aside \in [Installers -> {Absent} \cup Contents]
  /\ \A i \in Installers :
       /\ step[i] \in {"merged", "verified", "moved", "restoring"} => original[i] # Absent
       /\ step[i] \in {"moved", "restoring"} => aside[i] # Absent

LEMMA Merging ==
  ASSUME NEW f, NEW force \in BOOLEAN
  PROVE  /\ Merged(f, force) \in {"write", "refused", "already"}
         /\ Merged(f, force) = "write" => f # Absent
BY DEF Merged, ClaudeMerge, CodexMerge, OpencodeMerge, Overwrites

\* The steps of ConfigCommands, as the file of a client sees them.
LEMMA InstallMoves ==
  ASSUME [Next]_vars
  PROVE  \/ ClientReads \/ ClientWrites \/ UNCHANGED installVars
         \/ \E i \in Installers : InstallStep(i) \/ InstallKilled(i)
<1>1. ASSUME NEW c \in Commands, Command(c)
      PROVE  InstallStep(c) \/ InstallKilled(c) \/ UNCHANGED installVars
  BY <1>1 DEF Command, Begin, Resets, FixesMissing, Creates, Fills, Loads, Acquire, LoadsAndChecks,
    Saves, Imports, Copies, CopyCutShort, Enters, Enables, Disables, RemovesTool, EntryFirst, Deletes, Installs,
    Killed
<1>2. CASE UNCHANGED vars
  BY <1>2 DEF vars
<1> QED BY <1>1, <1>2 DEF Next, Client, Commands

LEMMA InstallInductive ==
  ASSUME InstallInv, [Next]_vars
  PROVE  InstallInv'
<1> USE DEF InstallInv, clientVars
<1>1. CASE ClientReads
  BY <1>1 DEF ClientReads, Contents
<1>2. CASE ClientWrites
  <2>1. live' \in Contents /\ latest' \in Nat
    BY <1>2 DEF ClientWrites, Contents
  <2> QED BY <1>2, <2>1 DEF ClientWrites
<1>3. CASE UNCHANGED installVars
  BY <1>3 DEF installVars
<1>4. ASSUME NEW i \in Installers, InstallStep(i) \/ InstallKilled(i)
      PROVE  InstallInv'
  <2>1. CASE Preview(i)
    <3>1. \E l \in Finished \cup {"forced", "agreed"} : StepTo(i, l)
      BY <2>1, Merging DEF Preview, Finished
    <3> QED BY <2>1, <3>1 DEF Preview, StepTo, Steps, Finished
  <2>2. CASE ReadAndMerge(i)
    <3>1. CASE StepTo(i, "merged") /\ original' = [original EXCEPT ![i] = live] /\ live # Absent
      BY <2>2, <3>1 DEF ReadAndMerge, StepTo, Steps
    <3>2. ASSUME NEW l \in Finished, StepTo(i, l), UNCHANGED original
          PROVE  InstallInv'
      BY <2>2, <3>2 DEF ReadAndMerge, StepTo, Steps, Finished
    <3> DEFINE m == Merged(live, step[i] = "forced")
    <3>3. m \in {"write", "refused", "already"} /\ (m = "write" => live # Absent)
      BY Merging
    <3> QED BY <2>2, <3>1, <3>2, <3>3 DEF ReadAndMerge, Finished
  <2>3. CASE TmpFails(i) \/ Verify(i) \/ LinkFails(i) \/ InstallKilled(i)
    BY <2>3 DEF TmpFails, Verify, LinkFails, InstallKilled, StepTo, Steps, Finished
  <2>4. CASE MoveAside(i)
    BY <2>4 DEF MoveAside, StepTo, Steps, Finished
  <2>5. CASE Link(i)
    <3>1. live' \in {Absent} \cup Contents
      BY <2>5 DEF Link, Contents, Entries
    <3> QED BY <2>5, <3>1 DEF Link, StepTo, Steps, Finished
  <2>6. CASE Restore(i)
    BY <2>6 DEF Restore, StepTo, Steps, Finished
  <2> QED BY <1>4, <2>1, <2>2, <2>3, <2>4, <2>5, <2>6 DEF InstallStep
<1> QED BY <1>1, <1>2, <1>3, <1>4, InstallMoves

LEMMA KeptUnlessRestored ==
  ASSUME InstallInv, [Next]_vars, Kept,
         \A i \in Installers : step[i] # "restoring"
  PROVE  Kept'
<1> USE DEF InstallInv, Kept, clientVars
<1>1. CASE ClientReads
  BY <1>1 DEF ClientReads
<1>2. CASE ClientWrites
  <2>1. live' \in Contents /\ live'.ver = latest'
    BY <1>2 DEF ClientWrites, Contents
  <2> QED BY <2>1, ClientInstallAssumption DEF Contents
<1>3. CASE UNCHANGED installVars
  BY <1>3 DEF installVars
<1>4. ASSUME NEW i \in Installers, InstallStep(i) \/ InstallKilled(i)
      PROVE  Kept'
  <2>1. CASE MoveAside(i)
    BY <2>1 DEF MoveAside
  <2>2. CASE Link(i)
    BY <2>2 DEF Link, NothingThere
  <2>3. ~Restore(i)
    BY DEF Restore
  <2>4. CASE UNCHANGED clientVars
    BY <2>4
  <2> QED BY <1>4, <2>1, <2>2, <2>3, <2>4 DEF InstallStep, InstallKilled, Preview, ReadAndMerge,
          TmpFails, Verify, LinkFails
<1> QED BY <1>1, <1>2, <1>3, <1>4, InstallMoves

\* OnlyRestoreLoses: for any number of installations, killed anywhere, what the
\* client has written stays in its file or a backup unless a rename restores one.
THEOREM ClientsKeepTheirs == Spec => OnlyRestoreLoses
<1>1. Init => InstallInv
  BY DEF Init, InstallInit, InstallInv, Contents, Entries, Steps
<1>2. InstallInv /\ [Next]_vars => InstallInv'
  BY InstallInductive
<1>3. InstallInv /\ [Next]_vars =>
        [Kept /\ ~Kept' => \E i \in Installers : step[i] = "restoring"]_installVars
  BY KeptUnlessRestored
<1> QED BY <1>1, <1>2, <1>3, PTL DEF Spec, OnlyRestoreLoses
=============================================================================
