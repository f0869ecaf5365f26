# Toolbx: verification project

TLA+ models of Toolbx (`tlbx`), the local MCP gateway: a CLI that edits one
config directory, and a gateway process that keeps sessions to upstream MCP
servers and exposes their tools, with custom tools, to downstream MCP clients.
Paths below are relative to the repository (`packages/...`, `apps/...`).

- **Checked**: the modules are explored by TLC on the instances in the `.cfg` files.
- **Proved**: the theorems of the `*Proofs` modules are checked by TLAPS for every
  value of the constants.
- `PROJECT.json` maps every definition to the lines it models, lists the runs,
  the theorems, the hazards and, for every checked property, a mutation of the
  modelled code that breaks it.

## 1. The system

### 1.1 Components

| Component | Code | State it keeps | Operations |
|---|---|---|---|
| Config and credential lock | `core/src/config/lock.ts` | `<dir>/.lock/meta.json`, `<dir>/.lock.steal`, async-local hold record | `withConfigLock`, `withCredentialLock` |
| Config file | `core/src/config/*.ts` | `config.json` | load, validate, atomic write |
| CLI commands on it | `apps/cli/src/commands/{server,config,tools,tool}-*.ts`, `init`, `doctor`, `setup` | none; `config.json` and the tool manifest are theirs | check, prompt, read-modify-write under the lock |
| Client installation | `core/src/clients/*` | an MCP client's own config file and its backups | read, merge, verify, move aside, link, restore |
| Server status | `core/src/server-status/*.ts` | status and tool count per server | update along a transition table, subscribe |
| Namespacing | `core/src/namespace/index.ts` | none | format and parse `server__tool` |
| Upstream session | `mcp-gateway/src/upstream-client/session.ts` | phase, cached tools, timers, listeners, pending start and restart | start, dispose, restart, callTool, listTools, reactions to its client |
| Upstream transports | `upstream-client/{http,stdio}.ts` | one connection | connect, disconnect, ping, list, call |
| Tool registry | `mcp-gateway/src/registry/tool-registry.ts` | entries per server, custom tools, index by exposed name | setServerTools, setServerStatus, removeServer, setCustomTools, find, list, subscribe |
| Gateway runtime | `mcp-gateway/src/runtime/*.ts` | one session per enabled server, both registries, custom tools | create, dispose, reactions to sessions |
| Tool cache | `core/src/tool-cache/*`, `serve.ts` | cache file, pending and dirty flags | write after a change |
| Downstream sessions | `mcp-gateway/src/downstream-server/*.ts` | handshake state, debounce timer | initialize, tools/list, tools/call, list_changed |
| HTTP listener | `downstream-server/http.ts` | lifecycle state, socket, sessions, pending sessions, in-flight count | start, handle a request, stop with its drain |
| Disclosure | `core/src/disclosure/*.ts`, `bootstrap-tools/*` | revealed names per session or global | search, reveal, hide, list |
| Tool calls | `handlers/tools-call.ts`, `core/src/proxy/*.ts` | one call: its timer, its signals | resolve a name, time out, abort, answer |
| Custom tool sandbox | `packages/custom-tools/src/sandbox/*` | one child per call, its timers, its OS-sandbox state | describe, run, settle, kill, clean up |
| `tlbx run` | `apps/cli/src/commands/run*.ts`, `core/src/daemon-client/*` | a client of the daemon | ensure a daemon, list, call, retry, exit code |
| Serve daemon | `commands/{serve,serve-detach,stop,run-daemon}.ts`, `core/src/serve-daemon/*` | `state.json`, the port, the process | start detached, publish, reuse, stop |
| OAuth | `core/src/auth/*`, `commands/auth/*`, `server-add.ts` | credential record, refresh scope, callback settlement | login, refresh, logout, registration with its rollback |

### 1.2 How they interact

*Between processes.* There are no messages between `tlbx` processes but HTTP to
a daemon; they share files. Commands that change the config or a credential
take the directory lock. The daemon's state file is **not** locked: every
command reads it, decides and acts on what it has read. An MCP client's config
file belongs to the client, which takes no lock of ours either. The gateway
does not take the credential lock for a refresh's exchange, only for its save.

*Inside the gateway.* One event loop. Upstream sessions emit status and tool
events synchronously; the runtime writes them into the status registry and then
the tool registry, whose listeners (one per downstream session, plus the tool
cache) run in the same turn. Interleaving happens only at awaits and timers, and
there are many: a session may have a suspended connect attempt, a ping, a list
refresh, several tool calls, a retry timer and a dispose at once. A custom
tool's call adds a child process with its messages, exit and close events.

### 1.3 What is hard, and the properties that make it right

| Behaviour | What must hold |
|---|---|
| A stale lock is stolen by renaming what lies at a path | a live holder's lock is never taken; two commands never run at once; no update lost |
| Crash at any file-system operation | the next command still gets the lock |
| Re-entrant locking through async-local storage | work that escaped `fn` does not run unlocked |
| A name is checked before a prompt and used after it, in two files | no entry lost, no server and tool under one name by accident |
| Manifest and source of a tool are two writes | an orphaned source at most, never an entry without one |
| A client's file is rewritten while we merge into it | what the client wrote survives |
| Suspended attempts against dispose, restart, newer attempts | one connection at most; nothing resurrects a disposed session; a stale attempt changes nothing |
| Three recovery paths: retry timer, auth timer, tool call | a healthy upstream is reached again; two of them never run at once |
| An index beside the lists it indexes; two registries fed by one event | what is listed can be called, and only that; they agree with the session |
| A revealed set beside a registry, applied by two handlers | list and call agree; a client with an outdated list is told |
| Answer, timeout and abort of one call; ready, result, exit, close of one child | one settlement, one cleanup, the answer not lost, the cancellation reaches the callee |
| A daemon client's call that is repeated while a server starts | the exit code tells whether the tool has run |
| A listener that stops while it binds, drains or opens a session | no session outlives `done`, nothing promised is cut off, stop ends |
| Unlocked state file, a port, and processes that come and go | no half-started daemon on record, no child left behind, no call by the wrong config |
| A refresh in flight against login, logout and a failing registration | a logout sticks, a newer login stays, a rollback restores what was there |
| Redirect, timeout, browser failure and Ctrl-C of one login | the success page is told the truth; the login ends |

The full list, at the line where each one bites, is `hazards` in `PROJECT.json`.

## 2. The modules

```
AtomicStore, AbstractLock  <--implements--  ConfigLock  <--EXTENDS--  ConfigLockProofs
ClientInstall  <--EXTENDS--  ConfigCommands  <--EXTENDS--  ConfigCommandsProofs
OAuthLogin  <--EXTENDS--  Credentials  <--EXTENDS--  CredentialsProofs
AbstractSession  <--implements--  UpstreamSession  <--EXTENDS--  UpstreamSessionProofs
      \--INSTANCE (one per server)--\
Namespace  <--EXTENDS--  ToolRegistry  <--EXTENDS--  GatewayRuntime
                              \        <--EXTENDS--  Disclosure
GatewayRuntime, Disclosure  <--EXTENDS--  GatewayProofs
SandboxRun  <--EXTENDS--  ToolCall  <--EXTENDS--  RunCommand  <--EXTENDS--  RunCommandProofs
HttpListener  <--EXTENDS--  HttpListenerProofs
ServeDaemon  <--EXTENDS--  ServeDaemonProofs
```

Each `MC*` module gives the constants of one of them their values for TLC.

Compositions by abstraction: `ConfigCommands` and `Credentials` take their lock
as what `ConfigLock` is proved to be (`AbstractLock`: one holder, waiters give up,
a killed holder's lock becomes free); `ServeDaemon` takes the four states of the listener
that `HttpListener` models in full; `GatewayRuntime` and `ToolCall` take a
session as what `AbstractSession` promises.

### 2.1 ConfigLock and AtomicStore

One call of `withConfigLock` is a member of `Calls`; it has one nonce, so the
call stands for the nonce in `meta.json`. An action is one file-system operation
with the synchronous code after it.

| In the model | In the code |
|---|---|
| `slot`, `slotOld` | what lies at `<dir>/.lock` and whether it is older than `staleMs`: nothing, an empty directory, files without `meta.json`, a `meta.json` naming no local pid, one of a dead pid, or a call's lock |
| `mutex`, `mutexOld` | `<dir>/.lock.steal` |
| `pc[c]` | the next operation of the call; `late[c]` the deadline |
| `saw`, `removal` | what `evaluateStale` has read, its verdict |
| `nested` | the call took the re-entrant path |
| `store`, `seen` | the guarded file, and the copy a command has loaded: the set of commands whose change it holds |
| `Begin`, `Publish`, `ReadDir`, `ReadMeta`, `Probe`, `StatDir`, `MakeMutex`, `StatMutex`, `RemoveOldMutex`, `RemoveStale`, `RemoveOwnMutex`, `LoadFile`, `SaveFile`, `LeaveFn`, `CheckNonce`, `DiscardOwn` | the operations of `acquire`, `evaluateStale`, `acquireStealMutex`, `stealStale`, a command's `fn`, `releaseLock` |
| `Die` | a process ends, anywhere |
| `FsError` | `mkdir`, `writeFile` or the rename fails with another error than "held": the call throws it |

Three behaviours of time are switches, so that each question is asked under the
conditions it depends on. `Deadlines`: `timeoutMs` may pass. `MutexAges`: a steal
mutex never gets older than `staleMs` (`"none"`), only an abandoned one does
(`"abandoned"`), or any (`"any"`). `PromptProbe`: a released owner does not exit
between a stealer's read of its `meta.json` and the probe of its pid. With both
races allowed the lock is **not** safe: `lock_double_admit` shows the first, section
4 describes the second. The two steps at which it is lost are named in the module:
`RemovesLiveMutex` (a mutex judged old is removed when it is the fresh one of a
stealer at work) and `ProbesReplacedOwner` (a stealer finds the pid it has read gone
when the lock that named it is no longer there). `Races` is either, and the proofs
are about every behaviour that takes neither (`Unraced`), with every switch open.
What `releaseLock` and `discardLockDir` fail to delete and ignore is not modelled.

Credentials use the same code with another directory, so the module covers them.

### 2.2 UpstreamSession and AbstractSession

A step is the code between two awaits of `session.ts`. Client objects are
numbers, used again once nothing refers to them (an object that is garbage), so
`MaxClients` bounds how many are referred to at one time, not how many are made.

| In the model | In the code |
|---|---|
| `phase`, `cur`, `retryOf` | `phase` and its fields |
| `status`, `cached` | `status.kind`, `cached` (none, empty, tools) |
| `listener`, `pingTimer`, `authTimer`, `retries` | `activeListeners`, keepalive interval, auth recovery timer, retry timers (a *set*: a leaked timer would be seen) |
| `job[k]`, `recovering[k]`, `failure[k]` | the suspended attempt that made client k |
| `pings`, `refreshes`, `call`, `callOn` | suspended pings, refreshes, tool calls |
| `startOn`, `restarting`, `restartOn`, `disposing` | `pendingStart`, `pendingRestart`, the await in `dispose` |
| `up`, `token` | the upstream and the stored credential, which change freely |

`AbstractSession` is what the gateway may rely on: legal transitions, tools that
change only with a connect or a reload, silence after dispose. `KeepsPromise`
checks that the detailed session implements it, `GatewayRuntime` is built on it.

### 2.3 Namespace and ToolRegistry

Names are sequences of characters, so that separators can overlap the parts:
the tool name may begin with `_` and hold `__`. `ToolRegistry` keeps `entries`,
`customs` and `index` (`visibleByExposedName`) with the code's own maintenance of
the index (remove what was shown, add what is shown, last one wins) and
`notified`, whether the operation called the listeners. Two facts of the callers are
assumptions on the constants: server names have passed the schema
(`ServersAssumption`), and a custom tool's namespace is never an enabled server's
(`CustomAssumption`, `isEligible` in `custom-tools-host.ts`). The registry
runs as part of `Disclosure` and of
`GatewayRuntime`.

### 2.4 Disclosure

Extends `ToolRegistry` with the revealed sets (one per session, or one for all:
`SharedWith`), the bootstrap tools that change them, and the downstream sessions:
handshake (`link`), debounce timer, the notification on its way (`told`), the list
that a failed send was about (`unsent`; nothing is sent again) and the list the client
has (`view`). `tools/list` and `tools/call` are translated
separately (`Listing`, `Answer`, the handlers' own decisions), as they are in the code,
so that their agreement is a property and not a definition. An upstream server
may be called `toolbx` and own a tool with the name of a bootstrap tool, and the
namespace of a custom tool may differ from it by its case only: a search compares in
lower case (`LowerCase`), everything else does not.

### 2.5 GatewayRuntime

Extends `ToolRegistry` with one `AbstractSession` per server, the status
registry with its transition table and its counters, and the writer of the tool
cache in `serve.ts` (`snapshot`, `dirty`, a write that may fail). A session's
event, both registry updates and the listeners' calls are one action, as they are
one turn of the event loop. The detachment of the writer, the beginning of
`dispose()`, each session's stop and the end of `dispose()` are separate actions.

### 2.6 SandboxRun, ToolCall and RunCommand

`SandboxRun` is one call of `executeSandbox` per member of `Runs`, some of them
`Describes`: the runner (`pc`, `outcome`, `timer`), the harness in the child
(`child`, `sent`), the messages between them (`inbox`), Node's `exit` and `close`
(`exitSeen`) and the OS sandbox's per-command state (`wrapped`, `cleanups`). The
stored file is abstracted to its first defect (`Defects`), by the check of the
harness that finds it; an import may replace it between two reads.

`ToolCall` puts the handler and the router before it: the decision tree of
`routeToolCall` (`Decision`), and for an upstream tool the race of the session's
answer, the timer and the caller's signal (`routing`, `raceTimer`, `listens`,
`cut`). What the client is told is `Response`.

`RunCommand` adds the client that makes the call: an MCP client (`"direct"`) or
`tlbx run` (`stage`, `tries`, `link`, `exit`), which lists, calls, calls again
while the server is starting, and turns the answer into an exit code.

### 2.7 HttpListener

A request is a member of `Requests`; one that initializes opens the session named
after it. Its socket (`conn`) and its handler (`job`) end independently. `state`,
`sessions`, `pendingSessions`, `inFlight` and the release flags of `trackRequest`
are the code's; `listener` and `closeFired` are Node's server and its `close`
event, `listenOn` the promise of the bind. `startPc` and `stopPc` say where
`start()` and the pending stop are suspended.

### 2.8 ServeDaemon

The managed daemon of one config: `record` (the state file), `port`, the config
file's version, and for each daemon where its `runServe` is (`life`), its
listener (`http`), a pending signal and the config it serves. Commands are
`tlbx serve --detach`, `tlbx run` and `tlbx stop`; a step is the code between two
awaits. A daemon is named by the command that spawned it and `Old` was there
before. Reading the file at the end of a daemon may fail, and so may every unlink
(`ReadFails`, `UnlinkFails`, `ClearFails`); a command that cannot read the file stops
there, which is not modelled. A daemon that answers is known by its port alone: a run
that has settled for a daemon (`target`) is answered by whoever holds `port` by then. A
pid is never used again by another process, and no edit of the config changes its port.

### 2.9 OAuthLogin and Credentials

`OAuthLogin` is `runOAuthLogin` with its callback server: `phase` says at which
await the flow is, `settlement` what the callback server has settled with,
`successPages` how many redirects were shown the success page. A redirect, the
callback timer, a browser that does not open and Ctrl-C come in any order. The login
returns when the callback server has closed (`"closing"`), and that waits for every
connection a client holds open (`held`).

`Credentials` is the stored record of one server name (`cred`: which login it
stems from and a serial number that no two writes share, for the fingerprint) and
everyone who touches it: the gateway's refreshes (`flow`, `lineage`: the
fingerprint remembered in the operation's cell or in the field all unscoped
operations share), and the commands `auth login`, `auth logout`, `auth refresh`,
`server add-http` with OAuth, `server remove` and `doctor --fix`. Every write may
fail. A registration that fails after its login restores what was there, or says that
it could not, or ends with an error nobody expected and does neither (`Rethrows`).
`revoked` and `latest` are history: what the user has deleted, and the last login.

### 2.10 ClientInstall and ConfigCommands

`ClientInstall` is the install flow of one client's file, each rename, read and
link a step, against the client's own rewrites from memory. The merge is
abstracted to what each adapter accepts (`ClaudeMerge`, `CodexMerge`,
`OpencodeMerge`).

`ConfigCommands` has the commands that write `config.json` or the manifest.
A command is a member of `Commands` with its kind and its name; `pc` says where it
is between its unlocked checks, its prompt or editor, the lock, the re-read and
the save; `seen` is what it has read before the lock and `next` what it will save.
Server names and tool namespaces are drawn from one set, so that they can meet.
`config set` is two kinds, of one entry or a part of it (`set`) and of `servers` as a
whole (`setAll`); `init` is two, with `--force` and without: the latter has found no
file, and does not look again before it saves. An import's source is a plain write that
may be cut short (`torn`). `setup` goes on to the client installation.

## 3. The runs

Every run terminates with the complete state space of its instance. One uses a state
constraint, `disclosure` (`SendsThatFail`: a failed send is followed for one client at a
time, where it leaves that client's list outdated). It also leaves `notified` out of its
view (`StateView`): no property reads it, and no step but the one that has just set it.
The bounds named here are the only ones. `lock_double_admit` is expected to be violated,
the others pass.

| Run | Question | Properties | Instance |
|---|---|---|---|
| `lock_nested` | Is the lock exclusive, is each read-modify-write atomic, does re-entrancy stay under the lock, do calls end? | `MutualExclusion`, `NoLostUpdate`, `EventuallyEnds` | a call, one made from its `fn` or escaped from it, and another process's call; any leftover on disk; any process ends anywhere, any operation of the acquire may fail; `StealAttempts = 2`, deadlines pass, no mutex gets old |
| `lock_live` | Does everyone get the lock in the end? | `EventuallyAdmitted` | three calls in three processes, `StealAttempts = 1`, no deadline, an abandoned mutex gets old |
| `lock_double_admit` | Is a double admission of stealers safe? | `LiveLockOnDisk` | as `lock_live` with `StealAttempts = 2` |
| `session_gateway` | Does a session as the gateway uses it keep its promises? | `OneConnection`, `PhaseInSync`, `KeepsPromise`, `SelfHeals`, `DisposeCleansUp` | two clients referred to at once, two callers, credential and upstream change freely |
| `session_restart` | Does dispose stay final, what may an overtaken attempt do, and do calls return, with `restart()`? | `StaysDisposed`, `StaleAttemptIsHarmless`, `CallsReturn` | two clients, one caller |
| `runtime` | Do the registries mirror the sessions, does the cache follow? | `RegistriesMirrorSessions`, `CacheFollows`, `DisposeEmpties` | two servers, one tool, one custom tool, lists of one |
| `disclosure` | Is what is listed callable, do list and call agree, is a stale client told? | `ListedIsCallable`, `ListAgreesWithCall`, `StaleSessionIsTold` | two clients, a server named `toolbx` with a tool named like a bootstrap tool and one whose description changes, a disabled custom tool, every setting, sends that fail; lists of one; clients symmetric |
| `http_listener` | Does the listener start, drain and stop as promised? | `NoSessionOutlivesDone`, `DrainedFirst`, `StopEnds` | two initialize requests, a call, a DELETE, an SSE stream |
| `tool_call` | Is a call answered once and truly, is everything reaped, what does `tlbx run` report? | `CleanedLast`, `AnswerNotLost`, `DescribedIsCallable`, `CancelReaches`, `ExitTellsWhatRan`, `RunsEnd` | one describe, one call (custom or upstream, of an MCP client or of `tlbx run`), every defect of the file, edits of it, `MaxTries = 2` |
| `daemon` | Does the unlocked protocol around the state file keep its promises? | `RecordNamesBound`, `CleanExit`, `NoChildLeft`, `HandleServesConfig` | a detached start, a run and a stop at once; nothing, a stale record, a foreign port holder or a serving daemon that may crash, unlinks that fail; `MaxEdits = 1` |
| `credentials` | Do logins, logouts, refreshes and registrations respect each other? | `SuccessPageIsTrue`, `LogoutSticks`, `LoginNotClobbered`, `AddIsAtomic`, `LoginEnds` | two commands of any kind, a scoped and an unscoped refresh, `MaxSerial = 3` records written |
| `commands` | Are two files and a client's file safe from concurrent and killed commands? | `CollisionsAreTyped`, `NoEntryLost`, `NoDanglingEntry`, `OnlyRestoreLoses` | two commands of any kind, two names, `MaxVersion = 1` rewrite by the client; symmetric |

Why these bounds are enough to be of interest. *Lock*: the races of stealing need
a holder, a stealer between its check and its removal, and a third party that
publishes; the third call is all three in turn. `STEAL_MUTEX_ATTEMPTS` (10 in the
code) only repeats a loop whose rounds start alike; one and two attempts cover
giving up and trying again. *Session*: an attempt that has lost the phase and its
successor are two clients; a third would have to outlive both, and the attempts'
checks compare with the one current client. Two callers are needed for one to
start a recovery and the other to join it. *Disclosure*: two clients, because one
reveals what the other one sees in global mode. *Runtime*: two servers, because
the list is a union; one that changes while the cache is being written. *HTTP*: a
session that is open and one that is just being opened when `stop` takes its
snapshot, and one request of each other kind. *Tool call*: calls share nothing
but the registration of the tool, which the describe stands for; a second try is
the only one that differs from the first. *Daemon*: one command of each kind, so
that each can be between its read and its action while another passes through.
*Credentials*: two writes after the first record suffice for an older one to meet
a newer one; a scoped and an unscoped flow are the two ways to remember a
fingerprint. *Commands*: two names, because a removal and an import may meet on
either; two commands, because each reads at most twice and it takes one other to
write in between. `BoundedInit` starts from a config or manifest with something in
it, or from a client's file with something in it, not both at once: the two parts
meet only in `setup`, whose steps are taken from either start.

`CHECK_DEADLOCK FALSE` is said in `tool_call`, `credentials`, `commands`,
`http_listener` and `runtime`: there a run of the system may be over, with every
call answered, every command returned, the listener stopped or the runtime torn
down, and nothing is left to do. That nothing stops *before* that is what
`RunsEnd`, `LoginEnds` (on its condition) and `StopEnds` say. The lock and the daemon
have an explicit
`Finished` step instead, and a session or a client can always do something.

### 3.1 Fairness

- *Lock* (`FairSpec`): weak fairness of each call's next operation (a live process
  runs) and of the passing of time. Nothing is assumed of crashes. Admission
  (`EventuallyAdmitted`) is claimed with finitely many calls, each made once: with
  an endless stream of new calls the polling loop promises nothing to a single one.
- *Session*: every request has a timeout, so each await resolves; every timer
  fires; the keepalive interval ticks. Nothing is assumed of the upstream, of the
  credential, or of callers. `SelfHeals` is conditional on both being in order for
  good.
- *HTTP listener*: Node binds or fails, its `close` event comes when the last socket
  is gone, the drain's and the close's timers fire, `start` and `stop` go on. No
  request need be answered and no client need leave.
- *Tool call*: the gateway handles its events, its timers fire, a child that was
  sent SIGKILL ends, a command goes on. A tool may hang for ever, a session may
  never answer.
- *Login*: its own steps and its callback timer. No user, browser or authorization
  server promises anything, but for one condition in `LoginEnds` itself: no client
  holds its connection to the callback server for ever (section 4).
- *Runtime, disclosure, daemon, commands*: no liveness is claimed.

## 4. What was found

**A run** with expectation `violation`, and a `finding` with the quoted text:
`lock_double_admit`. `acquireStealMutex` removes an old mutex by path. Two waiters
judge the same mutex old; one removes it, makes its own and starts to steal; the
other removes *that* one and steals too. One removes the stale lock, a third call
publishes, the other renames the live lock aside. The comment says that a double
admission is safe because staleness is confirmed again; the confirmation and the
removal are two operations.

**Properties stated in the modules that do not hold.** A run checks a property with
its exceptions named in the formula, and the stronger one that the code's comments
suggest is defined beside it. Adding it to the configuration named shows a behaviour:

- `LiveLockOnDisk` (`lock_nested.cfg` with `PromptProbe = FALSE`; no mutex gets old):
  a stealer reads the `meta.json` of a holder, the holder releases and its process
  ends, another call publishes its own lock, the stealer's probe finds the first
  holder's pid gone and renames the second one's lock aside (`lock.ts:256`).
- `UNCHANGED phaseVars` as the whole conclusion of `StaleAttemptIsHarmless`
  (`session_restart.cfg`): an attempt that a `restart()` has overtaken and that fails with
  an ordinary error has the session wait for its own retry (`session.ts:464`), though the
  comment before (lines 454-457) says of the other branch that a stale attempt must not
  clobber a newer one. `RetryOvertakesRestart` is that exception, and the only one.
- `AnswersForItsConfig` (`daemon.cfg`): a run compares the config of the daemon on
  record with its own, the daemon is stopped, the config is edited, another start binds
  the port, and the run's probe is answered by that one (`run-daemon.ts:175`, `239`; the
  comment at 227-229 says that the returned config always reflects the daemon that is
  serving). `HandleServesConfig` names what it takes: the daemon compared with is going.
- `ServingStaysRecorded` (`daemon.cfg`): `stop`, a detached start and a run unlink
  the state file a step after having read a dead pid there (`stop.ts:103`); a
  daemon that published in between serves on and no command finds it. `stop` after
  the end of the process (`stop.ts:167`), and a daemon that is told to stop while
  its custom tools load (`serve.ts:385`), have the same window.
- `NoFailureOrphans` (`credentials.cfg`): a registration whose save fails with an error
  that is no `ConfigLockError` (a full disk, a directory that cannot be written) rethrows
  it without the rollback (`server-add.ts:519`), and the new credential stays. The comment
  at 481-484 wants every failure after the login rolled back. `AddIsAtomic` names it.
- `LoginReturnsAlways` (`credentials.cfg`): `oauth-login.ts:214` awaits
  `server.close()`, which waits for open connections and has no timer
  (`oauth-callback-server.ts:176`). A browser that holds its socket keeps the login from
  returning; Ctrl-C does nothing any more, and the credential lock stays held.
- `InitOverwritesNothing` (`commands.cfg`): `init` without `--force` looks for the file
  before it has the lock and saves after (`init.ts:95`, `107`), `doctor --fix` before it
  asks (`doctor.ts:719`). What a `setup` and a `server add` have written in between is
  replaced by the default config, though `init` says that it takes `--force` to overwrite.
- `SocketGoneWhenDone` (`http_listener.cfg`): a `stop()` during the bind finds no
  handle to close (`http.ts:450`), so `done` resolves while Node still binds; the
  socket listens until `start()` notices and closes it. When the `close` event has
  rejected `listenOn` first (`http.ts:654`), `start()` never looks, and in the model
  Node may bind all the same; whether it does depends on its version.
- `StaleSessionIsTold` without its last disjunct (`disclosure.cfg`): a send that fails is
  logged and not repeated (`notify-tools-changed.ts:88`).

**Seen while modelling**, without a run of their own:

- Server names that end in `_` pass the schema (`schema.ts:6`), and then two servers
  can expose tools under one name; one of them becomes uncallable. The proofs of
  section 5.3 need, and name, the assumption that none does.
- A recovering `auth_expired` session whose attempt fails with an ordinary transport
  error goes to `error` (`session.ts:383`); the retry that follows is not a recovery
  any more, and a still-missing token collapses it into the terminal
  `auth_required`, which the comment at lines 329-332 rules out.
- A session in `auth_expired` whose upstream lists *no* tool has neither the
  recovery timer (it has a cached list) nor a tool anyone could call: it stays
  there until a restart. `Serving` counts it as waiting for a call.
- `restart()` during a suspended attempt may take over a client in use; it has no
  caller in production. `session_restart` covers what is promised of it.
- `tlbx run` through a daemon: the client's `callTool` has no timeout of its own, so
  the SDK's one-minute `RequestTimeout` is what ends a long call; `classifyCallError`
  takes it for an error of the tool (exit 1), not for `EXIT_TIMEOUT` (`GivesUp`).
- `doctor --fix` lists a credential without an entry as an orphan, asks, waits for the
  credential lock and deletes it without looking again (`doctor.ts:457`, `753`): when a
  `server add-http` (`server-add.ts:360`) has registered the name in between, the new
  entry loses its credential.
- `createConfigIfMissing` may leave an empty file when killed (`Torn`), and only
  `setup` writes the config without the lock.
- The install flow's restoration after a failed link is a rename, which replaces
  what the client has written meanwhile; a rewrite between the verification and the
  move aside ends in the backup, not in the merged file. `OnlyRestoreLoses` says
  that this is the only loss.
- The detached start whose child loses the port to a daemon of the same config that
  has not published yet reports a foreign collision.
- `dispose()` of a session that was never started emits `stopped` once more; the
  status registry refuses it and nothing follows.
- The comment above `dispose` in `runtime.ts` says the listeners are detached before
  the sessions are torn down. The code does it after, and `DisposeEmpties` needs that.
- `state.ts` describes an fsync that is not done, and `schema.ts` a record written by
  the parent, while the child writes it.

## 5. What is proved

### 5.1 The lock

`ConfigLockProofs`, for every number of calls and processes and every leftover:

| Theorem | Statement |
|---|---|
| `TypeCorrect` | `Spec => []TypeOK` |
| `ReentrantInScope` | a re-entrant call runs only while its outer call is in `fn` |
| `LockInvariant` | `Spec /\ Unraced => []LockInv` |
| `LiveLockKept`, `Exclusion`, `ReentrancyCovered` | with `Unraced`, a live lock stays on disk, `MutualExclusion`, a re-entrant call runs under its outer call's lock, from `LockInv` |
| `UpdatesAtomic` | with `Unraced`, `ConfigLock` implements `AtomicStore` (`NoLostUpdate`) |
| `LockIsExclusive` | with `Unraced`, `ConfigLock` implements `AbstractLock` |

*Assumptions*: the module's named assumptions on constants, and nothing on the
switches of section 2.1: every mutex may get old and every owner may exit at any moment.
`Unraced` is a property of the behaviour, that it takes neither of the two steps of
`Races`. So the theorems say that those two are the *only* ways in which the
lock is lost: no crash, leftover, deadline, re-entrancy or file-system error adds a
third. That the first really loses it is `lock_double_admit`, and the second
is described in section 4.

*The argument.* `MutualExclusion` is not inductive: that a stealer's removal is
harmless depends on what it read operations ago. `LockInv` adds what a suspended
operation may rely on: `RunnersLive` (whoever can take a step belongs to a live
process), `OneStealer` (one call inside `stealStale`, holding the mutex),
`StealsAbandoned` (a stealer about to rename has an abandoned slot before it: no
live owner, and not replaceable by a publishing rename) and `NestedScope` (a
re-entrant call runs while its outer call is in `fn`). An abandoned slot can be
changed by a stealer only, and there is one as long as nobody removes its mutex
(`RemovesLiveMutex`): so it is still abandoned when the rename happens. That it is
abandoned when it is judged is what `ProbesReplacedOwner` would break. Exclusion
follows because two holders would both be the content of one slot. For the refinement, `FileInv` adds that what a call is about to save
was computed from the file as it is; then each `SaveFile` is a `Commit` and every
other step stutters.

`LockIsExclusive` is what `Credentials` and `ConfigCommands` rest on. A call's
`stage` in `AbstractLock` follows from its `pc` (`StageOf`); a re-entrant call never
leaves `idle`, and all operations of `evaluateStale` and `stealStale` stutter. The
step that is not obvious is `Publish`: it must find nobody holding, which is
`LiveLockOnDisk` again, since what a publishing rename replaces belongs to no call.
The two modules keep a `holder` where the abstract lock has stages, and `holder` may
be handed on whenever nobody holds; that this is the same lock is by reading. They rest
on `Unraced`, as the code they model does.

### 5.2 The daemon

`ServeDaemonProofs`, for every number of commands of each kind at once, any set of
daemons that may crash and any number of edits of the config. No assumption on
timing is made; the constants are only distinct names (`NamesAssumption`,
`BoundsAssumption`).

| Theorem | Statement |
|---|---|
| `TypeCorrect` | `Spec => []TypeOK` |
| `DaemonInvariant` | `Spec => []DaemonInv` |
| `NeverHalfStarted` | `RecordNamesBound` |
| `LeavesNoRecord` | `CleanExit` |
| `NoSuperfluousChild` | `NoChildLeft` |
| `ActsOnItsConfig` | `HandleServesConfig` |

*The argument.* The state file is not locked, so a command may act on what it read
long ago; what saves these properties is that the facts they need are *stable*: a
daemon that was bound once was bound for good, an ended process stays ended, a
daemon loads its config once. `DaemonInv` says which stable fact each place in the
code relies on: `RecordLives` (a daemon on record has got as far as publishing and
has not passed its teardown alive), `BoundListens` (no listener before the bind,
one after, and one daemon that listens at most: whoever does holds the port),
`BeforeSpawn` (a detached start that has not spawned has no child), `ChildEnded` (it
looks for a sibling only after its child has ended), and `KeepsConfig` (the daemon a run
has settled for has loaded the config the run has). `ActsOnItsConfig` is about
the daemon that *answers*: it holds the port, and as long as the one that was settled for is
not going it is that one, by `BoundListens`.
`ServingStaysRecorded` is the property that is *not* stable, a record can be
replaced between a read and an unlink, and it is false (section 4).

### 5.3 Names and the tool registry

`GatewayProofs`, its first two parts. For names of any length over any characters:

| Theorem | Statement |
|---|---|
| `RoundTrip` | parsing an exposed name gives back its two parts |
| `Injective` | two different pairs never share an exposed name |

Both ask that the server's name passes the schema and does *not* end in `_`; the
tool's name may begin with `_` and hold separators. The argument is one lemma,
`SeparatorFound`: an earlier separator would lie inside the server's name, or
consist of its last character and the first one of the separator.

For any servers, tools, custom tools and lists:

| Theorem | Statement |
|---|---|
| `RegistryInvariant`, `TypeCorrect` | the entries are typed, hold tools of their own server, and the index holds under a name only an exposed tool of that name |
| `ListedCallable` | `NamesUnambiguous` implies `Spec => []ListedIsCallable` |
| `UnambiguousNames` | names are unambiguous if no server name ends in `_` |
| `LeadsBack` | `NamesLeadBack` |
| `DisclosureImplementsRegistry`, `RuntimeImplementsRegistry` | every behaviour of `Disclosure`, and every one of `GatewayRuntime`, is one of `ToolRegistry` |

*The argument.* Soundness of the index needs nothing of the names: what is dropped
is exactly what the replaced entry showed. Completeness (`IndexComplete`: every
exposed tool's name is taken) does: dropping an entry must not drop another
server's tool, which is `OthersApart`, the one place where `NamesUnambiguous` is
used. Without it the property is false (section 4). That "the last tool of a name"
exists is proved from the well-foundedness of the naturals (`GreatestElement`).
By the last row, what is proved of the registry holds where it is used.

### 5.4 The gateway: sessions, registries, clients

`GatewayProofs`, its last parts, for any servers, clients, tools and lists:

| Theorem | Statement |
|---|---|
| `ListAgrees` | `NamesUnambiguous` implies `DisclosureSpec => []ListAgreesWithCall` |
| `StaleTold` | `DisclosureSpec => []StaleSessionIsTold`, for a send that may fail each time |
| `RegistriesMirror` | `RuntimeSpec => []RegistriesMirrorSessions` |
| `NothingLeft` | `DisposeEmpties` |
| `CacheUpToDate` | `CacheFollows` |

*The argument.* A registry that calls its listeners too rarely leaves a client or
the cache behind, so the lemma that all this rests on is about silence:
`QuietServerStep` and its like say that an operation that notifies nobody
leaves what `tools/list` reads as it was. That needs what the code compares to
decide (`SameTools`, order aside) and `AbsentShowsNothing` (an entry that is not
there shows nothing). `ListAgrees` then is `IndexComplete` and the soundness of the
index, read through the two handlers' own decisions. For `StaleTold`, `ClientInv`
adds `ClientsOK`: who is not ready has no list yet, and in global mode all clients'
sets are one, so a change of it is followed by a notification of everyone it
concerns. `MirrorInv` (`RegistryInv`, `AbsentShowsNothing`, `SessionsOK`) says that
the status registry has the session's own status, whose table of transitions
therefore refuses nothing a session is entitled to emit (`AbstractSession`);
`CacheInv` says what a writer may rely on at each of its steps: a write that was
not overtaken writes what is listed now.

### 5.5 The upstream session

`UpstreamSessionProofs`, for any number of clients, pings, refreshes and callers:

| Theorem | Statement |
|---|---|
| `SessionInvariant` | `Spec => []SessionInv` |
| `SingleConnection` | `OneConnection` |
| `StaysInSync` | `PhaseInSync` |
| `StaleAttempts` | `StaleAttemptIsHarmless` |
| `PromiseKept` | `UpstreamSession` implements `AbstractSession` (`KeepsPromise`) |
| `DisposeLeavesNothing` | `DisposedOnlyEnds`: the safety half of `DisposeCleansUp` |
| `DisposedForGood` | `StaysDisposed` |

*Assumptions*: `~AllowRestart` in all but `StaleAttempts` and `DisposedForGood`.
Nothing in the gateway calls `restart()`, and the others are claims about the session the
gateway has; a restart during a suspended attempt may take over a client that is
in use (section 4).

*The argument.* What makes the session hard is that an attempt that was overtaken
resumes later. `SessionInv` says how little is left for it to do: `Owner` (the
current client belongs to "starting" or "connected", and to an attempt in the
former), `Attempts` (one attempt at most is suspended: the current one, or one a
dispose has overtaken, and then the last status was its own "starting"), and
`Connections` (whoever can still close a connection knows it). So an attempt
that resumes without being the current one finds the phase "stopped". `StaleAttempts`
does not rest on it: it holds of every step by what the step looks at first, restarts
included, and the exception `RetryOvertakesRestart` is the step that does not look.
`PhaseInSync`
is itself part of the invariant: an attempt begins with no timer left because the
phase it leaves had none but its own. The refinement maps each action that emits to
a step of the abstract session and every other one to a stutter.

### 5.6 Credentials

`CredentialsProofs`, for any number of commands and of refreshes, scoped or not:

| Theorem | Statement |
|---|---|
| `CredentialInvariant` | `Spec => []CredInv` |
| `RemovedStaysAway` | `LogoutSticks` |
| `LastLoginStays` | `LoginNotClobbered` |
| `PageIsTrue` | `SuccessPageIsTrue` |
| `FailedAddRestores` | `AddIsAtomic` |

*Assumptions*: only distinct names (`NamesAssumption`) and scoped flows among the
flows (`CredentialsAssumption`). That the lock admits one holder is built into the
module, and proved of `ConfigLock` in 5.1 (`LockIsExclusive`).

*The argument.* A refresh reads without a lock and writes much later, so what it
holds may be old; what saves the properties is the serial number it compares under
the lock. `CredInv` says what that comparison is worth: `UnderLock` (whoever is
between acquire and release is the holder, so nobody else writes), `LoginHeld` (the
one login flow belongs to a command that holds the lock), `ReadIsStored` (what a
locked refresh has read is still what is stored), `PriorKept` (what a registration
would restore is the credential before it, of a grant that was not revoked),
`LineageTrue` (the serial in a flow's cell, if it is the stored one's, names the
grant whose tokens the flow will write), `OneUnscoped` (one refresh outside a scope
at a time, so the shared field is its own). With these a save either finds another
serial and leaves the store alone, or writes the grant that is stored.

`PageIsTrue` is about the login alone and needs only `PagesTrue`: before the
settlement no page was sent. For `FailedAddRestores`, `UntouchedSoFar` says that
until a login has succeeded its command finds the record it has read, and that a
result is final: a login that failed has written nothing, and what fails after a
success is rolled back, or says that it could not be, or is the rethrown error that
`AddIsAtomic` excepts.

### 5.7 Commands on the config and the manifest

`ConfigCommandsProofs`, for any commands, names and clients' files:

| Theorem | Statement |
|---|---|
| `CommandsInvariant` | `Spec => []CommandsInv` |
| `EntriesHaveSources` | `NoDanglingEntry` |
| `EntriesAreKept` | `NoEntryLost` |
| `NamesStayApart` | `CollisionsAreTyped` |
| `ClientsKeepTheirs` | `OnlyRestoreLoses` |

*Assumptions*: distinct names (`FilesAssumption`), and a mark for a missing file that
is no file's contents (`ClientInstallAssumption`).

*The argument.* `CommandsInv` consists of `UnderLock` (one command past its acquire),
`SavesCurrent` (what that command is about to save differs from the file *as it is*
only in its own entry, or is meant to replace it as a whole: nothing that was read
before the prompt survives the re-read), `SeenBefore` (an editor was opened on a file
that exists, `init` and `doctor --fix` have found none) and `ToolSteps` (an import that
is between its two files has written all of the source, a removal has taken the entry
out before it deletes the source). `NoEntryLost` allows what the user has asked for
(`OwnChange`) and names the one loss that nobody has (`MissedTheFile`): the invariant
shows that only a command that has found no file can cause it.

`OnlyRestoreLoses` needs the invariant `InstallInv` (an installation that goes on has
merged into a file, and one that restores has one to put back) and a case for
each way the file changes: a move aside leaves it in a backup, a link finds nothing
there to replace, a rewrite by the client is its own last version.

### 5.8 The HTTP listener

`HttpListenerProofs`, for any finite set of requests of any kind
(`KindAssumption`, `RequestsAssumption`):

| Theorem | Statement |
|---|---|
| `ListenerInvariant` | `Spec => []ListenerInv` |
| `SessionsEnd` | `NoSessionOutlivesDone` |
| `DrainComesFirst` | `DrainedFirst` |
| `TypeCorrect` | `Spec => []TypeOK`; the counter stays between zero and the number of requests |
| `SocketEnds` | `SocketGoneInTheEnd`: what is left of `SocketGoneWhenDone` (section 4) |

*The argument.* `DrainedFirst` speaks of requests, the code counts. So `ListenerInv`
says what the counter is worth: `Counted` (it is the number of requests that have
not released it, whoever of `finish` and `close` comes first and however many
sockets close at once), `Tracked` (a finite request that is still open has not
released it), `Drained` (past the drain it is zero or the timer has fired).
`NoSessionOutlivesDone` needs `Owned`: an open session is in one of the two maps
until `stop` has taken its snapshot, and in the snapshot until it is closed. A session
whose initialization finishes later enters the emptied map again, but it was pending
when the snapshot was taken; and past the snapshot none is opened (`Life` says where a
`stop` can be in each lifecycle state). `SocketEnds` needs an invariant of its own,
`NetInv`: what `listenOn` settled with tells whether `start` has seen the socket, and
a `start` that is past that point has closed it.

### 5.9 Tool calls, the sandbox and `tlbx run`

`RunCommandProofs`, for any runs, describes and calls, any defects of the stored
file, upstream or custom tools and any number of tries (`RunsAssumption`,
`TriesAssumption`):

| Theorem | Statement |
|---|---|
| `CallInvariant` | `RunSpec => []CallInv` |
| `CleanupIsLast` | `CleanedLast` |
| `AnswersArrive` | `AnswerNotLost` |
| `CancellationReaches` | `CancelReaches` |
| `ExitsAreTrue` | `ExitTellsWhatRan` |
| `DescribeTells` | `DescribedIsCallable` |

*The argument.* The invariant is layered like the modules. `SandboxInv`: `Stages`
(how far a child can be for each place of its run; a child that outlives its run was
sent SIGKILL) and `Delivery` (the child's answer, once sent, waits behind `ready` in
the channel until the run is over, so neither `exit` nor `close` overtakes it).
`Race`: at each stage of a race the timer, the listener and the cut-off signal are in
order, and a call that is answered with "starting" has not reached its session.
`Truthful`: the number of times the tool was started is what the upstream request or
the sandbox run says. `ExitTellsWhatRan` follows through `Classified`, which goes
through the chain of `classifyCallError`: "unknown tool" can only stem from a call
that was refused before it was dispatched. That a retry never runs a tool twice is
the second half of `Race`. `DescribeTells` rests on `AnswersFromFile`: what a child
has answered is an answer the file allows which it has read, edits aside.

### 5.10 What is only model-checked

- No safety invariant and no action property of a passing run: each one is
  stated by a theorem.
- Liveness under fairness (`EventuallyEnds`, `EventuallyAdmitted`, `SelfHeals`,
  `DisposeCleansUp`, `CallsReturn`, `StopEnds`, `RunsEnd`, `LoginEnds`), and anything
  about `ENABLED`: out of TLAPS's reach.
- What a recursive definition computes for every input: it would need induction
  over data with an operator as a parameter, which the installed provers cannot
  instantiate. No module has a `RECURSIVE` operator, for the same reason.

## 6. Not modelled

- *Parsers, schemas and imports' validation* (`manifest/parse.ts`, `schema.ts`,
  `server-add.ts`'s parsing of arguments and headers): pure functions on text whose
  outcome the models draw freely (accepted, refused).
- *Output*: help, tables, suggestions, `run-discovery`'s rendering, `status`, the
  interactive shell, logging. None of it changes state.
- *Search ranking* (`core/src/disclosure`): a score over descriptions. What a search
  *reveals* is in `Disclosure`, for any result.
- *OAuth discovery and token exchange* as HTTP: a step that succeeds or fails.
- *The MCP wire protocol* and the SDK's transports: messages that arrive or not, in
  the order of their connection; requests that time out.
- *The OS sandbox* (a library) and redaction of secrets in output.
- *The stdio downstream server*: one session over stdin and stdout without the
  listener, the drain and the other sessions that make the HTTP one hard.
- *Scripts and skills*.
- *Durations.* Timers fire in any order; that one delay is shorter than another is
  used nowhere, except through the named switches of the lock.
- *A list refresh overtaken by another one* (`session.ts:238`): the model has one
  outstanding `tools/list` per client; lists have no age in it.
- *A reused pid*, *several gateways on one credential*, and files edited by hand
  while a command runs.

Status `partly` in `PROJECT.json` means that the state-changing operations are
there and one of the items above is not.

## 7. Plan

1. `Credentials` and `ConfigCommands` with their `holder` replaced by an instance of
   `AbstractLock`.
2. The runtime over the detailed session: `AbstractSession` replaced by what
   `PromiseKept` proves, so that `RegistriesMirror` holds of `UpstreamSession` itself.
3. Ages of tool lists in the session, for refreshes answered in the reverse order.
4. Two gateways, and the commands of a second machine, on one credential.
