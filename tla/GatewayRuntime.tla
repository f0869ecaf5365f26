---------------------------- MODULE GatewayRuntime ----------------------------
(***************************************************************************)
(* packages/mcp-gateway/src/runtime/runtime.ts: the runtime mirrors what   *)
(* its upstream sessions emit into the status registry and the tool        *)
(* registry, in the same turn of the event loop.  With it, the writer of   *)
(* the tool cache (apps/cli/src/commands/serve.ts), which listens to the   *)
(* tool registry and keeps a file behind it, and the order in which serve  *)
(* ends the two.                                                           *)
(*                                                                         *)
(* An upstream session is an AbstractSession, which UpstreamSession is     *)
(* shown to implement.  The tool registry is ToolRegistry, whose           *)
(* operations the runtime calls; its other listeners are in Disclosure.    *)
(***************************************************************************)
EXTENDS ToolRegistry

CONSTANTS
  NoTools,   \* a session that has not listed its upstream's tools yet
  NoCache    \* there is no cache file

VARIABLES
  sStatus, sTools, sOver,               \* the upstream sessions
  statusOf, countOf,                    \* the status registry
  life,     \* "up", "draining" (the writer is detached), "disposing", or "over"
  writing,  \* the write of the cache: "idle", "under way", or "settling"
  snapshot, \* the tools that are being written
  dirty,    \* the registry has changed since
  failed,   \* the last write failed
  cache     \* the tools on disk, or NoCache

sessionVars == <<sStatus, sTools, sOver>>
statusVars == <<statusOf, countOf>>
cacheVars == <<writing, snapshot, dirty, failed, cache>>
runtimeVars == <<sessionVars, statusVars, registryVars, life, cacheVars>>

Session(s) == INSTANCE AbstractSession WITH
  ToolLists <- Lists,
  status <- sStatus[s], tools <- sTools[s], over <- sOver[s]

Statuses == {"stopped", "starting", "connected", "error", "auth_required", "auth_expired"}

-----------------------------------------------------------------------------
RuntimeInit ==
  /\ sStatus = [s \in Servers |-> "stopped"]
  /\ sTools = [s \in Servers |-> NoTools]
  /\ sOver = [s \in Servers |-> FALSE]
  /\ statusOf = [s \in Servers |-> "stopped"]
  /\ countOf = [s \in Servers |-> 0]
  /\ Init
  /\ life = "up"
  /\ writing = "under way" /\ snapshot = {} /\ dirty = FALSE /\ failed = FALSE
  /\ cache = NoCache

-----------------------------------------------------------------------------
\* Mutant: only a connected server keeps its tools published.
KeepsConnected(status) == status = "connected"

\* keepsPublishedTools
KeepsPublishedTools(status) == status \in {"connected", "auth_expired"}

\* session.cachedTools()?.tools ?? []
Cached(tools) == IF tools = NoTools THEN <<>> ELSE tools
Published(status, tools) == IF KeepsPublishedTools(status) THEN Cached(tools) ELSE <<>>

\* Mutant: a change during a write is forgotten.
Forgets == FALSE

\* A flush that finds a write under way leaves a note.
Notes == TRUE

\* flush()
Flush ==
  IF writing = "idle"
  THEN /\ writing' = "under way" /\ snapshot' = Visible' /\ UNCHANGED dirty
  ELSE /\ dirty' = Notes /\ UNCHANGED <<writing, snapshot>>

\* toolRegistry.subscribe(flush), until the writer is detached
TellWriter ==
  /\ IF life = "up" /\ notified' THEN Flush ELSE UNCHANGED <<writing, snapshot, dirty>>
  /\ UNCHANGED <<failed, cache>>

\* syncToolRegistry, then the listeners of the registry.
SyncToolRegistry(s) ==
  /\ SetServerEntry(s, IsServerVisible(sStatus'[s]),
                             Published(sStatus'[s], sTools'[s]))
  /\ TellWriter

\* statusRegistry.update refuses an illegal transition; the runtime logs that.
UpdateStatus(s) ==
  IF sStatus'[s] \in Session(s)!Allowed[statusOf[s]]
  THEN /\ statusOf' = [statusOf EXCEPT ![s] = sStatus'[s]]
       /\ countOf' = [countOf EXCEPT ![s] = Len(Published(sStatus'[s], sTools'[s]))]
  ELSE UNCHANGED statusVars

\* The session of s moves; the others do not.
SessionMoves(s, st, t) ==
  /\ sStatus' = [sStatus EXCEPT ![s] = st]
  /\ sTools' = [sTools EXCEPT ![s] = t]
  /\ UNCHANGED sOver

ListsOf(s) == Lists \cup {sTools[s]}

-----------------------------------------------------------------------------
\* A session emits a status: onStatus.
StatusEvent(s) ==
  /\ life # "over"
  /\ \E st \in Statuses, t \in ListsOf(s) :
       SessionMoves(s, st, t) /\ Session(s)!Change(st)
  /\ UpdateStatus(s)
  /\ SyncToolRegistry(s)
  /\ UNCHANGED life

\* Only the count is updated: the registry would refuse connected to connected.
UpdateCount(s) ==
  /\ countOf' = [countOf EXCEPT ![s] = Len(Cached(sTools'[s]))]
  /\ UNCHANGED statusOf

\* A session emits tools_list_changed: onToolsListChanged.
ToolsEvent(s) ==
  /\ life # "over"
  /\ \E t \in Lists : SessionMoves(s, "connected", t) /\ Session(s)!Reload
  /\ UpdateCount(s)
  /\ SyncToolRegistry(s)
  /\ UNCHANGED life

\* A list that arrives after dispose() is cached and not announced.
LateList(s) ==
  /\ \E t \in Lists : SessionMoves(s, sStatus[s], t) /\ Session(s)!LateList
  /\ UNCHANGED <<statusVars, registryVars, life, cacheVars>>

\* A custom tool's schema is resolved: load() registers the grown set.
CustomToolResolves(r) ==
  /\ r \notin customs
  /\ SetCustomTools(customs \cup {r})
  /\ TellWriter
  /\ UNCHANGED <<sessionVars, statusVars, life>>

\* Mutant: the listeners are detached before the sessions are torn down.
DetachesFirst == TRUE

AllStopped == \A s \in Servers : sStatus[s] = "stopped"

\* The downstream server is done: detachCacheWriter() unsubscribes.
DetachWriter ==
  /\ life = "up"
  /\ life' = "draining"
  /\ UNCHANGED <<sessionVars, statusVars, registryVars, cacheVars>>

\* Mutant: serve does not wait for the writer.
DoesNotWait == TRUE

\* The drain of detachCacheWriter(), the writes that `dirty` asks for included.
Drained == writing = "idle"

\* dispose(): every session begins its teardown in this turn, and says "stopped"
\* later (StatusEvent); then the listeners are detached.
Dispose ==
  /\ life = "draining" /\ Drained
  /\ life' = "disposing"
  /\ sOver' = [s \in Servers |-> TRUE]
  /\ UNCHANGED <<sStatus, sTools, statusVars, registryVars, cacheVars>>

Detach ==
  /\ life = "disposing" /\ AllStopped
  /\ life' = "over"
  /\ UNCHANGED <<sessionVars, statusVars, registryVars, cacheVars>>

-----------------------------------------------------------------------------
(* writeToolCache, and what startToolCacheWriter does when it settles *)

Renamed ==
  /\ writing = "under way"
  /\ writing' = "settling"
  /\ cache' = snapshot /\ failed' = FALSE
  /\ UNCHANGED <<sessionVars, statusVars, registryVars, life, snapshot, dirty>>

\* The old file stays, unless it was unlinked for a second try at the rename.
WriteFails ==
  /\ writing = "under way"
  /\ writing' = "settling"
  /\ cache' \in {cache, NoCache} /\ failed' = TRUE
  /\ UNCHANGED <<sessionVars, statusVars, registryVars, life, snapshot, dirty>>

Settles ==
  /\ writing = "settling"
  /\ writing' = IF dirty THEN "under way" ELSE "idle"
  /\ snapshot' = IF dirty THEN Visible ELSE {}
  /\ dirty' = FALSE
  /\ UNCHANGED <<sessionVars, statusVars, registryVars, life, failed, cache>>

-----------------------------------------------------------------------------
RuntimeNext ==
  \/ \E s \in Servers : StatusEvent(s) \/ ToolsEvent(s) \/ LateList(s)
  \/ \E r \in CustomTools : CustomToolResolves(r)
  \/ DetachWriter \/ Dispose \/ Detach
  \/ Renamed \/ WriteFails \/ Settles

RuntimeSpec == RuntimeInit /\ [][RuntimeNext]_runtimeVars

-----------------------------------------------------------------------------
RuntimeTypeOK ==
  /\ sStatus \in [Servers -> Statuses]
  /\ sTools \in [Servers -> Lists \cup {NoTools}]
  /\ sOver \in [Servers -> BOOLEAN]
  /\ statusOf \in [Servers -> Statuses]
  /\ countOf \in [Servers -> 0 .. MaxList]
  /\ TypeOK
  /\ life \in {"up", "draining", "disposing", "over"}
  /\ writing \in {"idle", "under way", "settling"}
  /\ snapshot \subseteq AllTools
  /\ dirty \in BOOLEAN /\ failed \in BOOLEAN
  /\ cache = NoCache \/ cache \subseteq AllTools

\* The registries mirror the sessions at every turn of the event loop: the status
\* registry refuses no status of a session that was started, its count is that of
\* the published tools, and the tools of a connected or auth_expired server are
\* published, so that a call can drive its recovery, and no others.
RegistriesMirrorSessions ==
  \A s \in Servers :
    LET shown == Shown(entries[s]) IN
    /\ statusOf[s] = sStatus[s]
    /\ countOf[s] = Len(shown)
    /\ shown = IF sStatus[s] \in {"connected", "auth_expired"}
               THEN Entry(s, TRUE, Cached(sTools[s])).tools ELSE <<>>

\* The cache follows the registry: when no write is under way it holds what the
\* registry lists, unless the last write failed, however the changes fall between
\* the snapshot, the rename and the settling; and no write is under way any more
\* when the runtime is torn down, whose emptied lists never reach the file.
CacheFollows ==
  /\ (life = "up" /\ writing = "idle" /\ ~failed) => cache = Visible
  /\ life \in {"disposing", "over"} => writing = "idle"

\* After dispose() nothing is published from an upstream any more.
DisposeEmpties ==
  life = "over" => Visible \subseteq CustomTools
=============================================================================
