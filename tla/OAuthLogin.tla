----------------------------- MODULE OAuthLogin -----------------------------
(***************************************************************************)
(* packages/core/src/auth/oauth-login.ts and oauth-callback-server.ts: one *)
(* browser login.  The callback listener is bound first, the SDK's first   *)
(* auth() either is satisfied by the stored tokens or yields the URL of    *)
(* the authorization page, the listener is armed with its `state`, the     *)
(* browser opened, and abort, browser failure and redirect race.           *)
(*                                                                         *)
(* One login runs at a time: its commands hold the credential lock.  The   *)
(* SDK is external: an auth() is a request that succeeds, fails or is      *)
(* aborted, and then calls saveTokens (Commit), which no abort reaches.    *)
(***************************************************************************)
EXTENDS Naturals

VARIABLES
  phase,      \* idle, preflight, armed, waiting, exchange, refreshed, exchanged,
              \* closing, done
  aborted,    \* the caller's abort signal
  opener,     \* openBrowser: none, launching (for ever, if it hangs), failed
  timing,     \* the callback timer runs
  settlement, \* what the callback server has settled with
  successPages, \* the redirects that were answered with the success page
  held,       \* the server that closes waits for a client's open connection
  result      \* RunOAuthLoginResult.kind

callbackVars == <<timing, settlement, successPages, held>>
loginVars == <<phase, aborted, opener, callbackVars, result>>

Results == {"none", "success", "cancelled", "failed"}
Settlements == {"none", "code", "denied", "error", "mismatch", "timeout", "closed"}

LoginInit ==
  /\ phase = "idle" /\ aborted = FALSE /\ opener = "none" /\ timing = FALSE
  /\ settlement = "none" /\ successPages = 0 /\ held = FALSE /\ result = "none"

\* runOAuthLogin is called: the callback listener is bound (or not).
StartLogin ==
  /\ phase' = "preflight"
  /\ UNCHANGED <<aborted, opener, callbackVars, result>>

\* The caller has the result.
ResetLogin ==
  /\ phase' = "idle" /\ aborted' = FALSE /\ opener' = "none" /\ timing' = FALSE
  /\ settlement' = "none" /\ successPages' = 0 /\ held' = FALSE /\ result' = "none"

InLogin == phase \notin {"idle", "done"}

\* Its result is open, and its callback server takes connections.
Deciding == InLogin /\ phase # "closing"

\* The caller's Ctrl-C; once the result is known, nothing listens to it.
AbortLogin ==
  /\ Deciding /\ ~aborted
  /\ aborted' = TRUE
  /\ UNCHANGED <<phase, opener, callbackVars, result>>

-----------------------------------------------------------------------------
(* oauth-callback-server.ts *)

\* First writer wins.
Settle(s) == settlement' = IF settlement = "none" THEN s ELSE settlement

\* waitForCode has been called.
Armed == phase \in {"armed", "waiting", "exchange", "exchanged"}

\* Mutant: a redirect is looked at although the flow is over.
StillAnswers == TRUE

Unsettled == settlement = "none"

\* A redirect, by what it carries: our state with a code, a refusal, another
\* error or nothing, another state.  Without a state, before waitForCode, or
\* after the settlement it is answered with an error and changes nothing.
Redirects == {"code", "denied", "error", "nothing", "mismatch"}

Redirect(r) ==
  /\ Deciding /\ Armed /\ Unsettled /\ r # "nothing"
  /\ Settle(r)
  /\ successPages' = IF r = "code" THEN successPages + 1 ELSE successPages
  /\ UNCHANGED <<phase, aborted, opener, timing, held, result>>

CallbackTimeout ==
  /\ timing
  /\ timing' = FALSE
  /\ Settle("timeout")
  /\ UNCHANGED <<phase, aborted, opener, successPages, held, result>>

-----------------------------------------------------------------------------
(* oauth-login.ts *)

\* isCancelledError
Failure(denied) == IF aborted \/ denied THEN "cancelled" ELSE "failed"

\* The result is known; finally begins to close the callback server, to which a
\* client may have opened a connection by then.
Leave(res) ==
  /\ phase' = "closing"
  /\ result' = res
  /\ timing' = FALSE
  /\ Settle("closed")
  /\ held' \in BOOLEAN
  /\ UNCHANGED <<aborted, opener, successPages>>

\* The client ends its request or its connection, if it ever does.
Disconnects ==
  /\ phase = "closing" /\ held
  /\ held' = FALSE
  /\ UNCHANGED <<phase, aborted, opener, timing, settlement, successPages, result>>

\* server.close() waits for the open connections, without a limit: only then
\* does runOAuthLogin return.
CloseEnds ==
  /\ phase = "closing" /\ ~held
  /\ phase' = "done"
  /\ UNCHANGED <<aborted, opener, callbackVars, result>>

\* The listener does not bind, discovery, registration or the exchange fails,
\* or its fetch is aborted.
RequestFails ==
  /\ phase \in {"preflight", "exchange"}
  /\ Leave(Failure(FALSE))

\* The first auth() refreshes the stored tokens: the early success.
RefreshStored ==
  /\ phase = "preflight" /\ ~aborted
  /\ phase' = "refreshed"
  /\ UNCHANGED <<aborted, opener, callbackVars, result>>

\* The first auth() ends in SuppressedRedirectError: waitForCode(state).  The
\* signal may have fired since the last fetch.
Arm ==
  /\ phase = "preflight"
  /\ phase' = "armed"
  /\ timing' = (settlement = "none")
  /\ UNCHANGED <<aborted, opener, settlement, successPages, held, result>>

\* The authorization URL has no state.
NoState == phase = "preflight" /\ Leave("failed")

OpenBrowser ==
  /\ phase = "armed"
  /\ IF aborted
     THEN Leave("cancelled")
     ELSE /\ phase' = "waiting" /\ opener' = "launching"
          /\ UNCHANGED <<aborted, callbackVars, result>>

BrowserFails ==
  /\ phase = "waiting" /\ opener = "launching"
  /\ opener' = "failed"
  /\ UNCHANGED <<phase, aborted, callbackVars, result>>

\* Mutant: only the redirect and a failed launch end the wait for it.
NoTimeoutRescue == settlement \notin {"none", "timeout"}

RedirectSettled == settlement # "none"

\* Promise.race: whichever of the three the gateway sees first.
Race ==
  /\ phase = "waiting"
  /\ \/ aborted /\ Leave("cancelled")
     \/ opener = "failed" /\ Leave("failed")
     \/ RedirectSettled /\ settlement # "code" /\ Leave(Failure(settlement = "denied"))
     \/ /\ settlement = "code"
        /\ phase' = "exchange"
        /\ UNCHANGED <<aborted, opener, callbackVars, result>>

\* The second auth() exchanges the code; a fetch under an aborted signal fails.
Exchange ==
  /\ phase = "exchange" /\ ~aborted
  /\ phase' = "exchanged"
  /\ UNCHANGED <<aborted, opener, callbackVars, result>>

Committed == "success"

\* saveTokens, the only commit point, has written the record.
Commit == phase \in {"refreshed", "exchanged"} /\ Leave(Committed)

\* saveTokens throws.
CommitFails == phase \in {"refreshed", "exchanged"} /\ Leave(Failure(FALSE))

\* The steps the gateway or its timers owe to a login; Commit and RefreshStored
\* touch the store and belong to Credentials.
LoginStep ==
  \/ RequestFails \/ Arm \/ NoState \/ OpenBrowser \/ Race \/ Exchange
  \/ CommitFails \/ CallbackTimeout \/ CloseEnds

\* What the user, the browser and the authorization server may do.
UserStep ==
  \/ AbortLogin \/ BrowserFails \/ Disconnects
  \/ \E r \in Redirects : Redirect(r)

-----------------------------------------------------------------------------
LoginTypeOK ==
  /\ phase \in {"idle", "preflight", "armed", "waiting", "exchange",
                "refreshed", "exchanged", "closing", "done"}
  /\ opener \in {"none", "launching", "failed"}
  /\ settlement \in Settlements /\ result \in Results
  /\ successPages \in 0 .. 1 /\ held \in BOOLEAN

\* The user is told "authenticated" only for the code the flow has settled with:
\* never for a second redirect, nor after a mismatch, a refusal or a timeout.
SuccessPageIsTrue ==
  /\ successPages <= 1
  /\ successPages = 1 => settlement = "code"
=============================================================================
