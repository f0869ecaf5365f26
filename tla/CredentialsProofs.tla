-------------------------- MODULE CredentialsProofs --------------------------
(***************************************************************************)
(* Proofs about Credentials: for any number of commands and of refreshes   *)
(* of the gateway, a credential the user has removed stays away, and the   *)
(* stored one is the one of the last login.                                *)
(***************************************************************************)
EXTENDS Credentials, TLAPS

-----------------------------------------------------------------------------
(* The inductive invariant. *)

Places == {"idle", "wait", "locked", "refreshing", "login", "registers",
           "over", "failed", "warned", "threw"}

\* A record, by the serial numbers used so far.
Record == {r \in [grant : 0 .. issued, serial : 0 .. issued] :
             r = None \/ (r.grant > 0 /\ r.serial > 0)}

Typed ==
  /\ issued \in Nat \ {0}
  /\ cred \in Record /\ prior \in [Commands -> Record]
  /\ pc \in [Commands -> Places]
  /\ flow \in [Flows -> {"idle", "exchange", "save", "persist"}]
  /\ lineage \in [Scoped \cup {Shared} -> 0 .. issued]
  /\ fresh \in [Flows -> 0 .. issued]
  /\ revoked \subseteq 0 .. issued

\* Where a command holds the credential lock, and what it may fall back on.
Locked == {"locked", "refreshing", "login", "registers"}
Recovers == {"login", "registers"}

UnderLock ==
  /\ \A c \in Commands : pc[c] \in Locked => holder = c
  /\ \A f \in Flows : flow[f] = "persist" => holder = f

\* There is a login only where a command waits for it, and what a login has
\* found to refresh is still there.
LoginHeld ==
  /\ phase # "idle" => \E c \in Commands : pc[c] = "login"
  /\ phase = "refreshed" => cred # None

\* auth refresh writes for the record that is there.
ReadIsStored == \A c \in Commands : pc[c] = "refreshing" => prior[c] = cred /\ cred # None

\* What a rollback would restore has not been removed, and is told from the
\* stored record by its serial number.
PriorKept ==
  \A c \in Commands : pc[c] \in Recovers /\ prior[c] # None =>
    /\ prior[c].grant \notin revoked
    /\ prior[c].serial = cred.serial => prior[c].grant = cred.grant

\* A refresh that remembers the serial number of r has refreshed the grant of r,
\* and every refresh remembers one.
Lineage(r, f) == r # None /\ r.serial = Source(f) => r.grant = fresh[f]

LineageTrue ==
  \A f \in Flows : flow[f] # "idle" =>
    /\ Source(f) # 0
    /\ Lineage(cred, f)
    /\ \A c \in Commands : pc[c] \in Recovers => Lineage(prior[c], f)

\* The shared cell belongs to one refresh at a time.
OneUnscoped ==
  \A f, g \in Flows \ Scoped : flow[f] # "idle" /\ flow[g] # "idle" => f = g

CredInv ==
  /\ Typed /\ UnderLock /\ LoginHeld /\ ReadIsStored /\ PriorKept
  /\ LineageTrue /\ OneUnscoped
  /\ LogoutSticks /\ LoginNotClobbered

-----------------------------------------------------------------------------
\* The assumptions on the names, as the steps below use them.
LEMMA Names ==
  /\ Scoped \subseteq Flows /\ Shared \notin Flows
  /\ \A c \in Commands : c # Nobody /\ c \notin Flows
  /\ \A f \in Flows : f # Nobody
BY CredentialsAssumption, NamesAssumption

LEMMA InitHolds == Init => CredInv
BY Names DEF Init, LoginInit, CredInv, Typed, Record, None, First, Places, UnderLock, Locked,
  LoginHeld, ReadIsStored, PriorKept, Recovers, LineageTrue, OneUnscoped, LogoutSticks,
  LoginNotClobbered

\* No step of a login but the early success finds a record to refresh.
LEMMA LoginSteps ==
  ASSUME LoginStep \/ UserStep, phase' = "refreshed"
  PROVE  phase = "refreshed"
BY DEF LoginStep, UserStep, RequestFails, Arm, NoState, OpenBrowser, Race, Exchange, CommitFails,
  CallbackTimeout, CloseEnds, AbortLogin, BrowserFails, Disconnects, Redirect, Leave

LEMMA GatewayKeeps ==
  ASSUME CredInv, NEW f \in Flows, Gateway(f)
  PROVE  CredInv'
<1> USE Names DEF CredInv
<1>1. CASE ReadTokens(f)
  <2> USE <1>1 DEF ReadTokens, Serial, storeVars, cmdVars, loginVars
  <2>1. Typed' /\ UnderLock' /\ LoginHeld' /\ ReadIsStored' /\ PriorKept'
    BY DEF Typed, Record, None, UnderLock, LoginHeld, ReadIsStored, PriorKept, CellOf, Locked
  <2>2. OneUnscoped'
    BY DEF OneUnscoped, Typed
  <2>3. LineageTrue'
    BY DEF LineageTrue, Lineage, Source, CellOf, Typed, Record, PriorKept, OneUnscoped, None
  <2> QED BY <2>1, <2>2, <2>3 DEF LogoutSticks, LoginNotClobbered
<1>2. CASE Exchanged(f)
  <2> USE <1>2 DEF Exchanged, Over, storeVars, cmdVars, loginVars
  <2>1. Typed' /\ UnderLock' /\ LoginHeld' /\ ReadIsStored' /\ PriorKept' /\ OneUnscoped'
    BY DEF Typed, Record, UnderLock, LoginHeld, ReadIsStored, PriorKept, OneUnscoped
  <2>2. LineageTrue'
    BY DEF LineageTrue, Lineage, Source, CellOf, Typed
  <2> QED BY <2>1, <2>2 DEF LogoutSticks, LoginNotClobbered
<1>3. CASE SaveTokens(f)
  <2> USE <1>3 DEF SaveTokens, Over, storeVars, cmdVars, loginVars
  <2>1. Typed' /\ UnderLock' /\ LoginHeld' /\ ReadIsStored' /\ PriorKept' /\ OneUnscoped'
    BY DEF Typed, Record, UnderLock, Locked, LoginHeld, ReadIsStored, PriorKept, OneUnscoped
  <2>2. LineageTrue'
    BY DEF LineageTrue, Lineage, Source, CellOf, Typed
  <2> QED BY <2>1, <2>2 DEF LogoutSticks, LoginNotClobbered
<1>4. CASE PersistTokens(f)
  <2> USE <1>4 DEF PersistTokens, Over, cmdVars, loginVars
  <2>1. /\ holder = f /\ \A c \in Commands : pc[c] \notin Locked
        /\ phase = "idle"
    BY DEF UnderLock, LoginHeld, Locked
  <2>2. CASE UNCHANGED <<cred, issued>>
    BY <2>1, <2>2 DEF Typed, Record, UnderLock, LoginHeld, ReadIsStored, PriorKept, OneUnscoped,
      LineageTrue, Lineage, Source, CellOf, LogoutSticks, LoginNotClobbered
  <2>3. CASE StillOurs(f) /\ Write(fresh[f])
    <3>1. cred # None /\ fresh[f] = cred.grant /\ cred.grant > 0
      BY <2>3 DEF StillOurs, LineageTrue, Lineage, Typed, Record, None
    <3>2. cred' = [grant |-> cred.grant, serial |-> issued + 1] /\ issued' = issued + 1
      BY <2>3, <3>1 DEF Write
    <3>3. Typed'
      BY <3>1, <3>2 DEF Typed, Record, None
    <3>4. LineageTrue'
      BY <2>1, <3>1, <3>2 DEF LineageTrue, Lineage, Source, CellOf, Typed, Recovers, Locked
    <3>5. UnderLock' /\ LoginHeld' /\ ReadIsStored' /\ PriorKept' /\ OneUnscoped'
      BY <2>1, <3>1, <3>2 DEF UnderLock, LoginHeld, ReadIsStored, PriorKept, OneUnscoped,
        Recovers, Locked, Typed
    <3> QED BY <3>1, <3>2, <3>3, <3>4, <3>5 DEF LogoutSticks, LoginNotClobbered, None
  <2> QED BY <2>2, <2>3
<1> QED BY <1>1, <1>2, <1>3, <1>4 DEF Gateway

\* While a command holds the lock, no other command or refresh is under it.
LEMMA Alone ==
  ASSUME CredInv, NEW c \in Commands, pc[c] \in Locked
  PROVE  /\ holder = c
         /\ \A d \in Commands : pc[d] \in Locked => d = c
         /\ \A f \in Flows : flow[f] # "persist"
         /\ phase # "idle" => pc[c] = "login"
BY Names DEF CredInv, UnderLock, LoginHeld, Locked

\* The end of fn keeps what does not concern the stored record.
LEMMA EndKeeps ==
  ASSUME CredInv, NEW c \in Commands, pc[c] \in Locked,
         NEW r \in {"over", "failed", "warned", "threw"},
         EndAs(c, r), UNCHANGED flowVars, phase' = "idle" \/ (phase' = phase /\ pc[c] # "login")
  PROVE  UnderLock' /\ LoginHeld' /\ ReadIsStored' /\ OneUnscoped'
         /\ pc' \in [Commands -> Places]
         /\ \A d \in Commands : pc'[d] \notin Locked /\ (d # c => prior'[d] = prior[d])
         /\ prior' = [prior EXCEPT ![c] = None]
<1> USE Names, Alone DEF CredInv, EndAs, Goto, flowVars
<1>1. /\ pc' \in [Commands -> Places] /\ prior' = [prior EXCEPT ![c] = None]
      /\ \A d \in Commands : pc'[d] \notin Locked /\ (d # c => prior'[d] = prior[d])
  BY DEF Typed, Places, Locked
<1>2. UnderLock' /\ ReadIsStored'
  BY <1>1 DEF UnderLock, ReadIsStored, Locked
<1>3. OneUnscoped'
  BY DEF OneUnscoped
<1>4. phase' = "idle"
  BY DEF Locked
<1>5. LoginHeld'
  BY <1>4 DEF LoginHeld
<1> QED BY <1>1, <1>2, <1>3, <1>5

\* Nothing is left to restore then, and the invariant is about the stored record.
LEMMA EndsWell ==
  ASSUME CredInv, NEW c \in Commands, pc[c] \in Locked,
         NEW r \in {"over", "failed", "warned", "threw"},
         EndAs(c, r), UNCHANGED flowVars, phase' = "idle" \/ (phase' = phase /\ pc[c] # "login"),
         issued' \in Nat \ {0}, issued <= issued', cred' \in Record',
         revoked' \subseteq 0 .. issued',
         \A f \in Flows : flow[f] # "idle" => Lineage(cred', f),
         LogoutSticks', LoginNotClobbered'
  PROVE  CredInv'
<1>1. /\ UnderLock' /\ LoginHeld' /\ ReadIsStored' /\ OneUnscoped'
      /\ pc' \in [Commands -> Places]
      /\ \A d \in Commands : pc'[d] \notin Locked
      /\ prior' = [prior EXCEPT ![c] = None]
  BY EndKeeps
<1>2. Typed'
  BY <1>1 DEF CredInv, Typed, Record, None, flowVars
<1>3. PriorKept' /\ LineageTrue'
  BY <1>1 DEF CredInv, PriorKept, LineageTrue, Lineage, Source, Recovers, Locked, flowVars
<1> QED BY <1>1, <1>2, <1>3 DEF CredInv

\* The end of fn alone keeps the invariant.
LEMMA EndsQuietly ==
  ASSUME CredInv, NEW c \in Commands, pc[c] \in Locked,
         NEW r \in {"over", "failed", "warned", "threw"},
         EndAs(c, r), UNCHANGED flowVars, phase' = "idle" \/ (phase' = phase /\ pc[c] # "login"),
         UNCHANGED <<cred, issued, revoked, latest>>
  PROVE  CredInv'
<1>1. \A f \in Flows : flow[f] # "idle" => Lineage(cred', f)
  BY DEF CredInv, LineageTrue, Lineage
<1>2. /\ issued' \in Nat \ {0} /\ issued <= issued' /\ cred' \in Record'
      /\ revoked' \subseteq 0 .. issued' /\ LogoutSticks' /\ LoginNotClobbered'
  BY DEF CredInv, Typed, Record, LogoutSticks, LoginNotClobbered
<1> QED BY <1>1, <1>2, EndsWell

\* A new record has a serial number nothing remembers.
LEMMA WriteIsNew ==
  ASSUME CredInv, NEW g \in 0 .. issued, Write(g)
  PROVE  /\ issued' \in Nat \ {0} /\ issued <= issued' /\ cred' \in Record'
         /\ revoked \subseteq 0 .. issued'
         /\ cred'.grant = IF g = 0 THEN issued + 1 ELSE g
         /\ cred'.serial = issued + 1
         /\ \A f \in Flows : Lineage(cred', f)
         /\ \A d \in Commands : prior[d].serial # cred'.serial
<1> USE Names DEF CredInv, Typed
<1>1. /\ issued' = issued + 1
      /\ cred' = [grant |-> IF g = 0 THEN issued + 1 ELSE g, serial |-> issued + 1]
  BY DEF Write
<1>2. \A f \in Flows : Source(f) \in 0 .. issued
  BY DEF Source, CellOf
<1>3. \A d \in Commands : prior[d].serial \in 0 .. issued
  BY DEF Record
<1> QED BY <1>1, <1>2, <1>3 DEF Record, None, Lineage

LEMMA CommandKeeps ==
  ASSUME CredInv, NEW c \in Commands, Command(c)
  PROVE  CredInv'
<1> USE Names
<1>1. CASE Begin(c) \/ Acquire(c)
  <2> USE <1>1 DEF Begin, Acquire, Goto, flowVars, loginVars, CredInv
  <2>1. Typed' /\ UnderLock' /\ LoginHeld' /\ ReadIsStored'
    BY DEF Typed, Record, Places, UnderLock, Locked, LoginHeld, ReadIsStored
  <2>2. PriorKept' /\ OneUnscoped' /\ LineageTrue'
    BY DEF Typed, PriorKept, Recovers, OneUnscoped, LineageTrue, Lineage, Source
  <2> QED BY <2>1, <2>2 DEF LogoutSticks, LoginNotClobbered
<1>2. CASE Prune(c)
  <2> USE <1>2 DEF Prune, Locked
  <2>1. CASE Delete
    <3>1. /\ cred' = None /\ latest' = 0 /\ revoked' = revoked \cup {cred.grant}
          /\ UNCHANGED <<issued, flowVars, phase>> /\ EndAs(c, "over")
      BY <2>1 DEF Delete, loginVars
    <3>2. /\ issued' \in Nat \ {0} /\ issued <= issued' /\ cred' \in Record'
          /\ revoked' \subseteq 0 .. issued'
      <4>1. issued \in Nat \ {0} /\ cred.grant \in 0 .. issued /\ revoked \subseteq 0 .. issued
        BY DEF CredInv, Typed, Record
      <4>2. None \in Record
        BY <4>1 DEF Record, None
      <4>3. Record' = Record
        BY <3>1 DEF Record
      <4>4. issued' = issued
        BY <3>1
      <4>5. revoked' \subseteq 0 .. issued'
        <5>1. revoked \cup {cred.grant} \subseteq 0 .. issued
          BY <4>1
        <5> QED BY <3>1, <4>4, <5>1
      <4>6. cred' \in Record'
        BY <3>1, <4>2, <4>3
      <4> QED BY <4>1, <4>4, <4>5, <4>6
    <3>3. LogoutSticks' /\ LoginNotClobbered'
      BY <3>1 DEF LogoutSticks, LoginNotClobbered, None
    <3>4. \A f \in Flows : Lineage(cred', f)
      BY <3>1 DEF Lineage
    <3> QED BY <3>1, <3>2, <3>3, <3>4, EndsWell
  <2>2. CASE UNCHANGED <<cred, revoked, latest>>
    BY <2>2, EndsQuietly DEF loginVars
  <2> QED BY <2>1, <2>2
<1>3. CASE RefreshReads(c)
  <2>1. CASE cred = None
    BY <1>3, <2>1, EndsQuietly DEF RefreshReads, Locked, loginVars
  <2>2. CASE cred # None
    <3> USE <1>3, <2>2 DEF RefreshReads, Goto, flowVars, loginVars, CredInv
    <3>1. Typed' /\ UnderLock' /\ LoginHeld' /\ ReadIsStored'
      BY DEF Typed, Record, Places, UnderLock, Locked, LoginHeld, ReadIsStored
    <3>2. PriorKept' /\ OneUnscoped' /\ LineageTrue'
      BY DEF Typed, PriorKept, Recovers, OneUnscoped, LineageTrue, Lineage, Source
    <3> QED BY <3>1, <3>2 DEF LogoutSticks, LoginNotClobbered
  <2> QED BY <2>1, <2>2
<1>4. CASE RefreshWrites(c)
  <2> USE <1>4 DEF RefreshWrites, Locked
  <2>1. CASE Write(prior[c].grant) /\ EndAs(c, "over")
    <3>1. prior[c] = cred /\ cred # None /\ cred.grant \in 1 .. issued
      BY DEF CredInv, ReadIsStored, Typed, Record, None
    <3>2. /\ issued' \in Nat \ {0} /\ issued <= issued' /\ cred' \in Record'
          /\ revoked \subseteq 0 .. issued' /\ cred'.grant = cred.grant
          /\ \A f \in Flows : Lineage(cred', f)
      BY <2>1, <3>1, WriteIsNew
    <3>3. LogoutSticks' /\ LoginNotClobbered'
      BY <3>1, <3>2 DEF CredInv, LogoutSticks, LoginNotClobbered
    <3> QED BY <2>1, <3>2, <3>3, EndsWell DEF loginVars
  <2>2. CASE EndAs(c, "over") /\ UNCHANGED <<cred, issued>>
    BY <2>2, EndsQuietly DEF loginVars
  <2> QED BY <2>1, <2>2
<1>5. CASE CannotLogIn(c)
  BY <1>5, EndsQuietly DEF CannotLogIn, Locked, loginVars
<1>6. CASE StartsLogin(c)
  <2> USE <1>6 DEF StartsLogin, StartLogin, Goto, flowVars, CredInv
  <2>1. Typed' /\ UnderLock' /\ LoginHeld' /\ ReadIsStored'
    BY DEF Typed, Record, Places, UnderLock, Locked, LoginHeld, ReadIsStored
  <2>2. PriorKept' /\ OneUnscoped' /\ LineageTrue'
    BY DEF Typed, PriorKept, Recovers, OneUnscoped, LineageTrue, Lineage, Source, LogoutSticks
  <2> QED BY <2>1, <2>2 DEF LogoutSticks, LoginNotClobbered
<1>7. CASE RefreshesStored(c)
  <2> USE <1>7 DEF RefreshesStored, RefreshStored, storeVars, cmdVars, flowVars, CredInv
  <2>1. Typed' /\ UnderLock' /\ LoginHeld' /\ ReadIsStored'
    BY DEF Typed, Record, Places, UnderLock, Locked, LoginHeld, ReadIsStored
  <2>2. PriorKept' /\ OneUnscoped' /\ LineageTrue'
    BY DEF Typed, PriorKept, Recovers, OneUnscoped, LineageTrue, Lineage, Source
  <2> QED BY <2>1, <2>2 DEF LogoutSticks, LoginNotClobbered
<1>8. CASE Commits(c)
  <2> USE <1>8
  <2>1. /\ pc[c] = "login" /\ holder = c /\ phase' = "closing"
        /\ \A d \in Commands : pc[d] \in Locked => d = c
        /\ \A f \in Flows : flow[f] # "persist"
        /\ UNCHANGED <<holder, revoked, cmdVars, flowVars>>
    BY Alone DEF Commits, Commit, Leave, Locked
  <2>2. PICK g \in 0 .. issued :
          /\ Write(g)
          /\ \/ g = 0 /\ latest' = issued + 1
             \/ g = cred.grant /\ g # 0 /\ UNCHANGED latest
    <3>1. CASE phase = "refreshed"
      BY <3>1 DEF Commits, CredInv, LoginHeld, Typed, Record, None
    <3>2. CASE phase # "refreshed"
      BY <3>2 DEF Commits, CredInv, Typed
    <3> QED BY <3>1, <3>2
  <2>3. /\ issued' \in Nat \ {0} /\ issued <= issued' /\ cred' \in Record'
        /\ revoked \subseteq 0 .. issued'
        /\ cred'.grant = IF g = 0 THEN issued + 1 ELSE g
        /\ \A f \in Flows : Lineage(cred', f)
        /\ \A d \in Commands : prior[d].serial # cred'.serial
    BY <2>2, WriteIsNew
  <2>4. LogoutSticks' /\ LoginNotClobbered'
    BY <2>1, <2>2, <2>3 DEF CredInv, Typed, LogoutSticks, LoginNotClobbered, None
  <2>5. Typed'
    BY <2>1, <2>3 DEF CredInv, Typed, Record, cmdVars, flowVars
  <2>6. UnderLock' /\ LoginHeld' /\ OneUnscoped' /\ ReadIsStored'
    BY <2>1 DEF CredInv, UnderLock, LoginHeld, OneUnscoped, ReadIsStored, Locked, cmdVars, flowVars
  <2>7. PriorKept' /\ LineageTrue'
    BY <2>1, <2>3 DEF CredInv, PriorKept, LineageTrue, Lineage, Source, cmdVars, flowVars
  <2> QED BY <2>4, <2>5, <2>6, <2>7 DEF CredInv
<1>9. CASE LoginReturns(c)
  <2> USE <1>9 DEF LoginReturns, ResetLogin
  <2>1. CASE result = "success" /\ kind[c] = "add"
    <3> USE <2>1 DEF Goto, flowVars, CredInv
    <3>1. Typed' /\ UnderLock' /\ LoginHeld' /\ ReadIsStored'
      BY DEF Typed, Record, Places, UnderLock, Locked, LoginHeld, ReadIsStored
    <3>2. PriorKept' /\ OneUnscoped' /\ LineageTrue'
      BY DEF Typed, PriorKept, Recovers, OneUnscoped, LineageTrue, Lineage, Source
    <3> QED BY <3>1, <3>2 DEF LogoutSticks, LoginNotClobbered
  <2>2. CASE ~(result = "success" /\ kind[c] = "add")
    BY <2>2, EndsQuietly DEF Locked
  <2> QED BY <2>1, <2>2
<1>10. CASE Registers(c)
  BY <1>10, EndsQuietly DEF Registers, Locked, loginVars
<1>11. CASE RollsBack(c)
  <2> USE <1>11 DEF RollsBack, Locked, loginVars
  <2>1. CASE cred' = Restored(prior[c]) /\ latest' = prior[c].grant /\ EndAs(c, "failed")
    <3>1. cred' = prior[c] /\ prior[c] \in Record /\ issued' = issued /\ revoked' = revoked
      BY <2>1 DEF Restored, CredInv, Typed
    <3>2. /\ issued' \in Nat \ {0} /\ issued <= issued' /\ cred' \in Record'
          /\ revoked' \subseteq 0 .. issued'
      BY <3>1 DEF CredInv, Typed, Record
    <3>3. LogoutSticks' /\ LoginNotClobbered'
      BY <2>1, <3>1 DEF CredInv, PriorKept, Recovers, LogoutSticks, LoginNotClobbered
    <3>4. \A f \in Flows : flow[f] # "idle" => Lineage(cred', f)
      BY <3>1 DEF CredInv, LineageTrue, Recovers, Lineage
    <3> QED BY <2>1, <3>2, <3>3, <3>4, EndsWell
  <2>2. CASE EndAs(c, "warned") /\ UNCHANGED <<cred, latest>>
    BY <2>2, EndsQuietly
  <2> QED BY <2>1, <2>2
<1>12. CASE Killed(c)
  BY <1>12, EndsQuietly DEF Killed, Locked, ResetLogin, loginVars
<1>13. CASE Rethrows(c)
  BY <1>13, EndsQuietly DEF Rethrows, Locked, loginVars
<1> QED
  BY <1>1, <1>2, <1>3, <1>4, <1>5, <1>6, <1>7, <1>8, <1>9, <1>10, <1>11, <1>12, <1>13 DEF Command

LEMMA Inductive == CredInv /\ [Next]_vars => CredInv'
<1> SUFFICES ASSUME CredInv, [Next]_vars PROVE CredInv'
  OBVIOUS
<1>1. CASE LoginGoesOn
  <2> USE <1>1 DEF LoginGoesOn, storeVars, cmdVars, flowVars, CredInv
  <2>1. LoginHeld'
    BY LoginSteps DEF LoginHeld
  <2>2. Typed' /\ UnderLock' /\ ReadIsStored' /\ PriorKept' /\ OneUnscoped' /\ LineageTrue'
    BY DEF Typed, Record, UnderLock, ReadIsStored, PriorKept, OneUnscoped, LineageTrue, Lineage,
      Source
  <2> QED BY <2>1, <2>2 DEF LogoutSticks, LoginNotClobbered
<1>2. CASE UNCHANGED vars
  BY <1>2 DEF vars, loginVars, storeVars, cmdVars, flowVars, CredInv, Typed, Record, UnderLock,
    LoginHeld, ReadIsStored, PriorKept, OneUnscoped, LineageTrue, Lineage, Source, LogoutSticks,
    LoginNotClobbered
<1> QED BY <1>1, <1>2, GatewayKeeps, CommandKeeps DEF Next

-----------------------------------------------------------------------------
\* The inductive invariant holds in every reachable state: whoever changes the
\* stored credential holds its lock, and every lineage names the grant it says.
THEOREM CredentialInvariant == Spec => []CredInv
<1>1. Init => CredInv
  BY InitHolds
<1>2. CredInv /\ [Next]_vars => CredInv'
  BY Inductive
<1> QED BY <1>1, <1>2, PTL DEF Spec

\* A credential that logout or doctor --fix has deleted does not come back, for
\* any number of refreshes, logins and registrations under way.
THEOREM RemovedStaysAway == Spec => []LogoutSticks
<1>1. CredInv => LogoutSticks
  BY DEF CredInv
<1> QED BY <1>1, CredentialInvariant, PTL

\* The stored credential is the one of the last login that was not taken back.
THEOREM LastLoginStays == Spec => []LoginNotClobbered
<1>1. CredInv => LoginNotClobbered
  BY DEF CredInv
<1> QED BY <1>1, CredentialInvariant, PTL

-----------------------------------------------------------------------------
(* What the user is told of a login. *)

\* A page that says "authenticated" is sent with the settlement, and once.
PagesTrue ==
  /\ successPages \in Nat /\ SuccessPageIsTrue
  /\ settlement = "none" => successPages = 0

LEMMA PagesKept ==
  ASSUME PagesTrue,
         LoginStep \/ UserStep \/ StartLogin \/ RefreshStored \/ Commit \/ ResetLogin
           \/ UNCHANGED loginVars
  PROVE  PagesTrue'
<1> USE DEF PagesTrue, SuccessPageIsTrue
<1>1. ASSUME NEW s, Settle(s), UNCHANGED successPages
      PROVE  PagesTrue'
  BY <1>1 DEF Settle
<1>2. ASSUME NEW r, Redirect(r)
      PROVE  PagesTrue'
  BY <1>2 DEF Redirect, Settle, Unsettled
<1>3. CASE UNCHANGED <<settlement, successPages>>
  BY <1>3
<1>4. CASE ResetLogin
  BY <1>4 DEF ResetLogin
<1>5. CASE UNCHANGED loginVars \/ StartLogin \/ RefreshStored
  BY <1>3, <1>5 DEF loginVars, callbackVars, StartLogin, RefreshStored
<1>6. CASE Commit
  BY <1>1, <1>6 DEF Commit, Leave
<1>7. CASE UserStep
  BY <1>2, <1>3, <1>7 DEF UserStep, AbortLogin, BrowserFails, Disconnects, callbackVars
<1>8. CASE LoginStep
  BY <1>1, <1>3, <1>8 DEF LoginStep, RequestFails, Arm, NoState, OpenBrowser, Race, Exchange,
    CommitFails, CallbackTimeout, CloseEnds, Leave, callbackVars
<1> QED BY <1>4, <1>5, <1>6, <1>7, <1>8

\* What the commands do to the login that one of them waits for.
LEMMA LoginMoves ==
  ASSUME [Next]_vars
  PROVE  LoginStep \/ UserStep \/ RefreshStored \/ Commit \/ ResetLogin \/ UNCHANGED loginVars
           \/ ((\E c \in Commands : pc[c] = "locked") /\ StartLogin)
<1>1. ASSUME NEW f \in Flows, Gateway(f) PROVE UNCHANGED loginVars
  BY <1>1 DEF Gateway, ReadTokens, Exchanged, SaveTokens, PersistTokens
<1>2. ASSUME NEW c \in Commands, Command(c)
      PROVE  RefreshStored \/ Commit \/ ResetLogin \/ UNCHANGED loginVars
               \/ (pc[c] = "locked" /\ StartLogin)
  BY <1>2 DEF Command, Begin, Acquire, Prune, RefreshReads, RefreshWrites, CannotLogIn,
    StartsLogin, RefreshesStored, Commits, LoginReturns, Registers, RollsBack, Rethrows, Killed
<1>3. CASE UNCHANGED vars
  BY <1>3 DEF vars
<1> QED BY <1>1, <1>2, <1>3 DEF Next, LoginGoesOn

\* SuccessPageIsTrue: the user reads "authenticated" once at most, and only for
\* the code the login has settled with, however redirects, timeout and abort fall.
THEOREM PageIsTrue == Spec => []SuccessPageIsTrue
<1>1. Init => PagesTrue
  BY DEF Init, LoginInit, PagesTrue, SuccessPageIsTrue
<1>2. PagesTrue /\ [Next]_vars => PagesTrue'
  BY PagesKept, LoginMoves
<1>3. PagesTrue => SuccessPageIsTrue
  BY DEF PagesTrue
<1> QED BY <1>1, <1>2, <1>3, PTL DEF Spec

-----------------------------------------------------------------------------
(* A registration that fails leaves the store as it was. *)

\* Until its login has committed, a command finds the record it has read.
UntouchedSoFar ==
  /\ result # "none" <=> phase \in {"closing", "done"}
  /\ \A c \in Commands : pc[c] = "login" /\ result # "success" => prior[c] = cred

\* The result of a login is known when it is over, and does not change.
LEMMA ResultIsFinal ==
  ASSUME result # "none" <=> phase \in {"closing", "done"},
         LoginStep \/ UserStep \/ RefreshStored \/ Commit \/ ResetLogin \/ UNCHANGED loginVars
           \/ (phase = "idle" /\ StartLogin)
  PROVE  /\ result' # "none" <=> phase' \in {"closing", "done"}
         /\ ~ResetLogin /\ result = "success" => result' = "success"
<1>1. CASE LoginStep
  BY <1>1 DEF LoginStep, RequestFails, Arm, NoState, OpenBrowser, Race, Exchange, CommitFails,
    CallbackTimeout, CloseEnds, Leave, Failure, callbackVars
<1>2. CASE UserStep
  BY <1>2 DEF UserStep, AbortLogin, BrowserFails, Disconnects, Redirect, Deciding, InLogin,
    callbackVars
<1>3. CASE RefreshStored \/ Commit \/ ResetLogin
  BY <1>3 DEF RefreshStored, Commit, Committed, Leave, ResetLogin, callbackVars
<1>4. CASE UNCHANGED loginVars \/ (phase = "idle" /\ StartLogin)
  BY <1>4 DEF loginVars, StartLogin
<1> QED BY <1>1, <1>2, <1>3, <1>4

\* A step of a command that is in the credential lock, or of none.
LEMMA UntouchedStep ==
  ASSUME CredInv, UntouchedSoFar, [Next]_vars
  PROVE  UntouchedSoFar'
<1> USE DEF CredInv, Typed
<1>0. result' # "none" <=> phase' \in {"closing", "done"}
  <2>1. (\E c \in Commands : pc[c] = "locked") => phase = "idle"
    BY Alone DEF Locked
  <2> QED BY <2>1, LoginMoves, ResultIsFinal DEF UntouchedSoFar
<1> SUFFICES ASSUME NEW c \in Commands, pc'[c] = "login", result' # "success"
             PROVE  prior'[c] = cred'
  BY <1>0 DEF UntouchedSoFar
<1>1. ASSUME NEW d \in Commands, Command(d), d # c
      PROVE  prior'[c] = cred'
  <2>1. pc'[c] = pc[c] /\ prior'[c] = prior[c]
    BY <1>1 DEF Command, Begin, Acquire, Prune, RefreshReads, RefreshWrites, CannotLogIn,
      StartsLogin, RefreshesStored, Commits, LoginReturns, Registers, RollsBack, Rethrows, Killed,
      EndAs, Goto, cmdVars
  <2>2. pc[d] \notin Locked
    BY <1>1, <2>1, Alone DEF Locked
  <2>3. Begin(d) \/ Acquire(d)
    BY <1>1, <2>2 DEF Locked, Command, Prune, RefreshReads, RefreshWrites, CannotLogIn,
      StartsLogin, RefreshesStored, Commits, LoginReturns, Registers, RollsBack, Rethrows, Killed
  <2>4. UNCHANGED <<cred, result>>
    BY <2>3 DEF Begin, Acquire, loginVars
  <2> QED BY <2>1, <2>4 DEF UntouchedSoFar
<1>2. CASE Command(c)
  <2>1. CASE StartsLogin(c)
    BY <2>1 DEF StartsLogin
  <2>2. CASE RefreshesStored(c)
    BY <2>2 DEF RefreshesStored, RefreshStored, storeVars, cmdVars, callbackVars, UntouchedSoFar
  <2>3. ~Commits(c)
    BY DEF Commits, Commit, Committed, Leave
  <2>4. ~(\/ Begin(c) \/ Acquire(c) \/ Prune(c) \/ RefreshReads(c) \/ RefreshWrites(c)
          \/ CannotLogIn(c) \/ LoginReturns(c) \/ Registers(c) \/ RollsBack(c) \/ Rethrows(c)
          \/ Killed(c))
    BY DEF Begin, Acquire, Prune, RefreshReads, RefreshWrites, CannotLogIn, LoginReturns,
      Registers, RollsBack, Rethrows, Killed, EndAs, Goto
  <2> QED BY <1>2, <2>1, <2>2, <2>3, <2>4 DEF Command
<1>3. ASSUME NEW f \in Flows, Gateway(f)
      PROVE  prior'[c] = cred'
  <2>1. UNCHANGED <<pc, prior, result>>
    BY <1>3 DEF Gateway, ReadTokens, Exchanged, SaveTokens, PersistTokens, cmdVars, loginVars
  <2>2. flow[f] # "persist"
    BY <2>1, Alone DEF Locked
  <2>3. UNCHANGED cred
    BY <1>3, <2>2 DEF Gateway, ReadTokens, Exchanged, SaveTokens, PersistTokens, storeVars
  <2> QED BY <2>1, <2>3 DEF UntouchedSoFar
<1>4. CASE LoginGoesOn
  <2>1. UNCHANGED <<cred, prior, pc>>
    BY <1>4 DEF LoginGoesOn, storeVars, cmdVars
  <2>2. ~ResetLogin
    BY <1>4, <2>1 DEF LoginGoesOn, LoginStep, UserStep, RequestFails, Arm, NoState, OpenBrowser,
      Race, Exchange, CommitFails, CallbackTimeout, CloseEnds, AbortLogin, BrowserFails,
      Disconnects, Redirect, Leave,
      ResetLogin, Deciding, InLogin, Settle
  <2>3. result # "success"
    BY <1>4, <2>2, ResultIsFinal DEF LoginGoesOn, UntouchedSoFar
  <2> QED BY <2>1, <2>3 DEF UntouchedSoFar
<1>5. CASE UNCHANGED vars
  BY <1>5 DEF vars, loginVars, storeVars, cmdVars, UntouchedSoFar
<1> QED BY <1>1, <1>2, <1>3, <1>4, <1>5 DEF Next

LEMMA FailureRestores ==
  ASSUME CredInv, UntouchedSoFar, [Next]_vars, NEW c \in Commands,
         kind[c] = "add", pc[c] \in {"login", "registers"},
         pc'[c] \in {"failed", "warned", "threw"}
  PROVE  \/ cred' = prior[c]
         \/ pc[c] = "registers" /\ pc'[c] \in {"warned", "threw"}
<1> USE DEF CredInv, Typed
<1>1. ASSUME NEW d \in Commands, Command(d), d # c
      PROVE  FALSE
  BY <1>1 DEF Command, Begin, Acquire, Prune, RefreshReads, RefreshWrites, CannotLogIn,
    StartsLogin, RefreshesStored, Commits, LoginReturns, Registers, RollsBack, Rethrows, Killed,
    EndAs, Goto, cmdVars
<1>2. CASE Command(c)
  <2>1. LoginReturns(c) \/ RollsBack(c) \/ Rethrows(c)
    BY <1>2 DEF Command, Begin, Acquire, Prune, RefreshReads, RefreshWrites, CannotLogIn,
      StartsLogin, RefreshesStored, Commits, Registers, Killed, EndAs, Goto, cmdVars
  <2>2. CASE LoginReturns(c)
    <3>1. pc[c] = "login" /\ result # "success" /\ UNCHANGED cred
      BY <2>2 DEF LoginReturns, Goto
    <3> QED BY <3>1 DEF UntouchedSoFar
  <2>3. CASE RollsBack(c)
    BY <2>3 DEF RollsBack, Restored, EndAs, Goto
  <2>4. CASE Rethrows(c)
    BY <2>4 DEF Rethrows, EndAs, Goto
  <2> QED BY <2>1, <2>2, <2>3, <2>4
<1>3. CASE LoginGoesOn \/ UNCHANGED vars
  BY <1>3 DEF LoginGoesOn, vars, cmdVars
<1>4. ASSUME NEW f \in Flows, Gateway(f)
      PROVE  FALSE
  BY <1>4 DEF Gateway, ReadTokens, Exchanged, SaveTokens, PersistTokens, cmdVars
<1> QED BY <1>1, <1>2, <1>3, <1>4 DEF Next

\* AddIsAtomic: a server add whose login fails has left the credential it found,
\* and one that cannot write its entry has put it back, said that it could not, or
\* ended with an unexpected error.
THEOREM FailedAddRestores == Spec => AddIsAtomic
<1>1. Init => UntouchedSoFar
  BY DEF Init, LoginInit, UntouchedSoFar
<1>2. CredInv /\ UntouchedSoFar /\ [Next]_vars => UntouchedSoFar'
  BY UntouchedStep
<1>3. CredInv /\ UntouchedSoFar /\ [Next]_vars =>
        [\A c \in Commands :
           kind[c] = "add" /\ pc[c] \in {"login", "registers"}
           /\ pc'[c] \in {"failed", "warned", "threw"} =>
             \/ cred' = prior[c]
             \/ pc[c] = "registers" /\ pc'[c] \in {"warned", "threw"}]_vars
  BY FailureRestores
<1> QED BY <1>1, <1>2, <1>3, CredentialInvariant, PTL DEF Spec, AddIsAtomic
=============================================================================
