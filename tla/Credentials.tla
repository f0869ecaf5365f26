---------------------------- MODULE Credentials ----------------------------
(***************************************************************************)
(* The stored OAuth credential of one server name and everything that      *)
(* touches it: the gateway's refreshes (core/src/auth/oauth-provider.ts),  *)
(* auth login, logout and refresh, server add-http with OAuth, server      *)
(* remove, and doctor --fix, each command a process of its own.            *)
(*                                                                         *)
(* The credential lock of the name and the config-dir lock are taken here  *)
(* as what ConfigLock shows them to be: one holder at a time, a waiter may *)
(* give up, and a lock whose holder was killed becomes free.               *)
(***************************************************************************)
EXTENDS OAuthLogin, FiniteSets

CONSTANTS
  Commands,   \* the commands that may be given, each once
  Flows,      \* the gateway's operations that may refresh
  Scoped,     \* the ones inside a withRefreshScope cell
  MaxSerial   \* bound: records written

ASSUME CredentialsAssumption == Scoped \subseteq Flows /\ MaxSerial \in Nat

Kinds == {"login", "logout", "refresh", "add", "remove", "doctor"}

\* A stored record: the login it stems from, and a serial number no two writes
\* share (recordFingerprint: obtainedAt and the tokens).
None == [grant |-> 0, serial |-> 0]
First == [grant |-> 1, serial |-> 1]
Nobody == "nobody"
Shared == "shared"

ASSUME NamesAssumption ==
  /\ Nobody \notin Commands \cup Flows /\ Shared \notin Flows
  /\ Commands \cap Flows = {}

VARIABLES
  cred,     \* the record in the token store, None when absent
  config,   \* config.json has the OAuth entry of the name
  holder,   \* who holds the credential lock
  issued,   \* serial numbers used
  kind, pc, \* of each command
  prior,    \* prior[c]: priorToken of an add, the record a refresh has read
  flow,     \* flow[f]: idle, exchange, save, persist
  lineage,  \* the fingerprint in each cell, 0 when undefined
  fresh,    \* fresh[f]: the grant the refreshed tokens belong to
  revoked,  \* grants whose record was deleted by the user
  latest    \* the grant of the last login that was not taken back

storeVars == <<cred, config, holder, issued, revoked, latest>>
cmdVars == <<kind, pc, prior>>
flowVars == <<flow, lineage, fresh>>
vars == <<loginVars, storeVars, cmdVars, flowVars>>

Init ==
  /\ LoginInit
  /\ cred \in {None, First} /\ config \in BOOLEAN
  /\ holder = Nobody /\ issued = 1
  /\ kind = [c \in Commands |-> "login"]
  /\ pc = [c \in Commands |-> "idle"]
  /\ prior = [c \in Commands |-> None]
  /\ flow = [f \in Flows |-> "idle"]
  /\ lineage = [f \in Scoped \cup {Shared} |-> 0]
  /\ fresh = [f \in Flows |-> 0]
  /\ revoked = {} /\ latest = cred.grant

-----------------------------------------------------------------------------
(* The token store. *)

MayWrite == issued < MaxSerial

\* A record of grant g, or of a new grant (g = 0), is written.
Write(g) ==
  /\ issued' = issued + 1
  /\ cred' = [grant |-> IF g = 0 THEN issued + 1 ELSE g, serial |-> issued + 1]

\* logout and doctor: the record is deleted for good.
Delete ==
  /\ cred' = None
  /\ revoked' = revoked \cup {cred.grant}
  /\ latest' = 0

-----------------------------------------------------------------------------
(* The gateway: ToolbxOAuthProvider on a long-lived session. *)

\* Mutant: one field for every operation of the provider.
OneField(f) == Shared

\* The cell of a scoped operation, or fallbackRefreshFingerprint.
CellOf(f) == IF f \in Scoped THEN f ELSE Shared

\* The standalone stream, the one operation outside a scope, reconnects
\* serially: it reads no tokens while one of its refreshes is under way.
Serial(f) ==
  f \in Scoped \/ \A g \in Flows \ Scoped : flow[g] = "idle"

\* tokens(): the record is handed to the SDK, its fingerprint remembered in the
\* cell of the operation or in the shared field.
ReadTokens(f) ==
  /\ flow[f] = "idle" /\ cred # None /\ Serial(f)
  /\ lineage' = [lineage EXCEPT ![CellOf(f)] = cred.serial]
  /\ fresh' = [fresh EXCEPT ![f] = cred.grant]
  /\ flow' = [flow EXCEPT ![f] = "exchange"]
  /\ UNCHANGED <<loginVars, storeVars, cmdVars>>

\* The operation ends; the next one has a cell of its own.
Over(f) ==
  /\ flow' = [flow EXCEPT ![f] = "idle"]
  /\ lineage' = [g \in DOMAIN lineage |-> IF g = f THEN 0 ELSE lineage[g]]
  /\ fresh' = [fresh EXCEPT ![f] = 0]

\* The refresh succeeds at the authorization server, or it fails.
Exchanged(f) ==
  /\ flow[f] = "exchange"
  /\ \/ flow' = [flow EXCEPT ![f] = "save"] /\ UNCHANGED <<lineage, fresh>>
     \/ Over(f)
  /\ UNCHANGED <<loginVars, storeVars, cmdVars>>

\* saveTokens takes the credential lock; busy: CredentialChangedDuringRefresh;
\* an error of the file system is thrown as it is.
SaveTokens(f) ==
  /\ flow[f] = "save"
  /\ \/ /\ holder = Nobody
        /\ holder' = f
        /\ flow' = [flow EXCEPT ![f] = "persist"]
        /\ UNCHANGED <<lineage, fresh>>
     \/ Over(f) /\ UNCHANGED holder
  /\ UNCHANGED <<loginVars, cred, config, issued, revoked, latest, cmdVars>>

Source(f) == lineage[CellOf(f)]

\* Mutant: the merged record is written although the stored one is gone.
AbsentIsFine(f) == cred = None \/ cred.serial = Source(f)

\* persistTokens: a removed record is an error, a replaced one is left alone.  A
\* source that is undefined is compared with nothing.
StillOurs(f) == cred # None /\ Source(f) \in {0, cred.serial}

\* The write may fail.
PersistTokens(f) ==
  /\ flow[f] = "persist"
  /\ holder' = Nobody
  /\ Over(f)
  /\ \/ StillOurs(f) /\ MayWrite /\ Write(fresh[f])
     \/ UNCHANGED <<cred, issued>>
  /\ UNCHANGED <<loginVars, config, revoked, latest, cmdVars>>

-----------------------------------------------------------------------------
(* The commands. *)

Goto(c, l) == pc' = [pc EXCEPT ![c] = l]

\* A command is given: login wants the entry, add refuses a duplicate, doctor
\* reports the name as an orphan or has nothing to do.
Begin(c) ==
  /\ pc[c] = "idle"
  /\ \E k \in Kinds :
       /\ kind' = [kind EXCEPT ![c] = IF k = "remove" THEN "login" ELSE k]
       /\ \/ /\ k = "remove"
             /\ config' = FALSE
             /\ Goto(c, "over")
          \/ /\ k # "remove"
             /\ k = "login" => config
             /\ k = "add" => ~config
             /\ k = "doctor" => ~config /\ cred # None
             /\ Goto(c, "wait")
             /\ UNCHANGED config
  /\ UNCHANGED <<loginVars, cred, holder, issued, revoked, latest, prior, flowVars>>

\* withCredentialLock: it is taken, or the wait for it is given up or fails.
Acquire(c) ==
  /\ pc[c] = "wait"
  /\ \/ /\ holder = Nobody
        /\ holder' = c
        /\ Goto(c, "locked")
        /\ UNCHANGED kind
     \/ /\ Goto(c, "over")
        /\ kind' = [kind EXCEPT ![c] = "login"]
        /\ UNCHANGED holder
  /\ UNCHANGED <<loginVars, cred, config, issued, revoked, latest, prior, flowVars>>

\* The end of fn: its result is r and the lock is released.  What the command was
\* and what it had read is of no use any more.
EndAs(c, r) ==
  /\ Goto(c, r)
  /\ holder' = Nobody
  /\ prior' = [prior EXCEPT ![c] = None]
  /\ kind' = [kind EXCEPT ![c] = "login"]

\* logout; doctor deletes the name it has listed before.  The store may refuse.
Prune(c) ==
  /\ pc[c] = "locked" /\ kind[c] \in {"logout", "doctor"}
  /\ Delete \/ UNCHANGED <<cred, revoked, latest>>
  /\ EndAs(c, "over")
  /\ UNCHANGED <<loginVars, config, issued, flowVars>>

\* auth refresh reads the record and goes to the token endpoint.
RefreshReads(c) ==
  /\ pc[c] = "locked" /\ kind[c] = "refresh"
  /\ IF cred = None
     THEN EndAs(c, "over")
     ELSE Goto(c, "refreshing") /\ prior' = [prior EXCEPT ![c] = cred] /\ UNCHANGED <<kind, holder>>
  /\ UNCHANGED <<loginVars, cred, config, issued, revoked, latest, flowVars>>

\* runOAuthRefresh writes what it got for the record it has read.
RefreshWrites(c) ==
  /\ pc[c] = "refreshing"
  /\ \/ MayWrite /\ Write(prior[c].grant) /\ EndAs(c, "over")
     \/ EndAs(c, "over") /\ UNCHANGED <<cred, issued>>
  /\ UNCHANGED <<loginVars, config, revoked, latest, flowVars>>

\* The token store cannot be used, or the entry is there by now.
CannotLogIn(c) ==
  /\ pc[c] = "locked" /\ kind[c] \in {"login", "add"}
  /\ EndAs(c, IF kind[c] = "add" THEN "failed" ELSE "over")
  /\ UNCHANGED <<loginVars, cred, config, issued, revoked, latest, flowVars>>

\* login; add checks the entry again and reads the orphan it may find.
StartsLogin(c) ==
  /\ pc[c] = "locked" /\ kind[c] \in {"login", "add"}
  /\ kind[c] = "add" => ~config
  /\ StartLogin
  /\ Goto(c, "login")
  /\ prior' = [prior EXCEPT ![c] = cred]
  /\ UNCHANGED <<kind, holder>>
  /\ UNCHANGED <<cred, config, issued, revoked, latest, flowVars>>

\* The steps of runOAuthLogin that leave the store alone.
LoginGoesOn ==
  /\ \E c \in Commands : pc[c] = "login"
  /\ LoginStep \/ UserStep
  /\ UNCHANGED <<storeVars, cmdVars, flowVars>>

\* Only an add, which does not force a new authentication, can be satisfied by
\* the stored tokens.
RefreshesStored(c) ==
  /\ pc[c] = "login" /\ kind[c] = "add" /\ cred # None
  /\ RefreshStored
  /\ UNCHANGED <<storeVars, cmdVars, flowVars>>

\* saveTokens of the login, without a lock of its own.
Commits(c) ==
  /\ pc[c] = "login" /\ MayWrite
  /\ Commit
  /\ IF phase = "refreshed"
     THEN Write(cred.grant) /\ UNCHANGED latest
     ELSE Write(0) /\ latest' = issued + 1
  /\ UNCHANGED <<config, holder, revoked, cmdVars, flowVars>>

\* runOAuthLogin has returned; nothing of it is left.
LoginReturns(c) ==
  /\ pc[c] = "login" /\ phase = "done"
  /\ IF result = "success" /\ kind[c] = "add"
     THEN Goto(c, "registers") /\ UNCHANGED <<kind, holder, prior>>
     ELSE EndAs(c, IF kind[c] = "add" THEN "failed" ELSE "over")
  /\ ResetLogin
  /\ UNCHANGED <<cred, config, issued, revoked, latest, flowVars>>

\* The entry is written under the config lock.
Registers(c) ==
  /\ pc[c] = "registers" /\ ~config
  /\ config' = TRUE
  /\ EndAs(c, "over")
  /\ UNCHANGED <<loginVars, cred, issued, revoked, latest, flowVars>>

\* Mutant: the rollback deletes instead of restoring what was there.
DeletesOnly(r) == None

Restored(r) == r

\* The config lock is busy, the config is gone or invalid, the name taken, or
\* the save fails: restorePriorToken, or the hint when that fails too.
RollsBack(c) ==
  /\ pc[c] = "registers"
  /\ \/ /\ cred' = Restored(prior[c])
        /\ latest' = prior[c].grant
        /\ EndAs(c, "failed")
     \/ EndAs(c, "warned") /\ UNCHANGED <<cred, latest>>
  /\ UNCHANGED <<loginVars, config, issued, revoked, flowVars>>

\* Any other error, of the config lock's files or of the read of the config, is
\* thrown on: neither a rollback nor a hint.
Rethrows(c) ==
  /\ pc[c] = "registers"
  /\ EndAs(c, "threw")
  /\ UNCHANGED <<loginVars, cred, config, issued, revoked, latest, flowVars>>

\* The process of a command is killed; its lock goes stale and is reclaimed.
Killed(c) ==
  /\ pc[c] \in {"locked", "refreshing", "login", "registers"}
  /\ EndAs(c, "over")
  /\ IF pc[c] = "login" THEN ResetLogin ELSE UNCHANGED loginVars
  /\ UNCHANGED <<cred, config, issued, revoked, latest, flowVars>>

-----------------------------------------------------------------------------
Gateway(f) ==
  ReadTokens(f) \/ Exchanged(f) \/ SaveTokens(f) \/ PersistTokens(f)

Command(c) ==
  \/ Begin(c) \/ Acquire(c) \/ Prune(c) \/ RefreshReads(c) \/ RefreshWrites(c)
  \/ CannotLogIn(c) \/ StartsLogin(c) \/ RefreshesStored(c) \/ Commits(c) \/ LoginReturns(c)
  \/ Registers(c) \/ RollsBack(c) \/ Rethrows(c) \/ Killed(c)

Next ==
  \/ LoginGoesOn
  \/ \E f \in Flows : Gateway(f)
  \/ \E c \in Commands : Command(c)

Spec == Init /\ [][Next]_vars

\* A login's own steps and timers happen; users and browsers promise nothing.
FairSpec == Spec /\ WF_vars(LoginStep /\ LoginGoesOn)

-----------------------------------------------------------------------------
TypeOK ==
  /\ LoginTypeOK
  /\ cred \in [grant : 0 .. MaxSerial, serial : 0 .. MaxSerial]
  /\ holder \in {Nobody} \cup Flows \cup Commands
  /\ \A c \in Commands : pc[c] \in {"idle", "wait", "locked", "refreshing",
       "login", "registers", "over", "failed", "warned", "threw"}
  /\ \A f \in Flows : flow[f] \in {"idle", "exchange", "save", "persist"}

\* A credential the user has removed does not come back: neither by a refresh
\* that was under way, nor by the rollback of a failed registration.
LogoutSticks == cred # None => cred.grant \notin revoked

\* The stored credential is the one of the last login, whatever refreshes of an
\* earlier one were still under way: switching identities is never undone.
LoginNotClobbered == cred.grant = latest

\* A registration that does not come about leaves the stored credential as it
\* found it, or says that it could not ("the (config, token) pair to be unchanged
\* on failure").  One that ends with an error nobody expected leaves the new one.
AddIsAtomic ==
  [][\A c \in Commands :
       kind[c] = "add" /\ pc[c] \in {"login", "registers"}
       /\ pc'[c] \in {"failed", "warned", "threw"} =>
         \/ cred' = prior[c]
         \/ pc[c] = "registers" /\ pc'[c] \in {"warned", "threw"}]_vars

\* Without that exception: "it must roll the token back like any other post-login
\* failure" (server-add.ts).
NoFailureOrphans ==
  [][\A c \in Commands :
       pc[c] = "registers" /\ pc'[c] \in {"failed", "threw"} => cred' = prior[c]]_vars

\* Every login returns, though the browser hangs and nobody answers: the callback
\* timer runs whenever the redirect is waited for.  The one thing that keeps it
\* is a client that never lets go of its connection to the callback server.
LoginEnds == []<>~held => (InLogin ~> ~InLogin)

\* Without that condition.
LoginReturnsAlways == InLogin ~> ~InLogin
=============================================================================
