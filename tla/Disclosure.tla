------------------------------ MODULE Disclosure ------------------------------
(***************************************************************************)
(* What a client of the gateway sees and may call, and what it is told of  *)
(* changes: the revealed sets (core/src/disclosure/session-visibility.ts), *)
(* the gateway's own bootstrap tools that change them (packages/mcp-       *)
(* gateway/src/bootstrap-tools/), and the two handlers that apply them to  *)
(* the tool registry independently of each other, tools/list and           *)
(* tools/call.                                                             *)
(*                                                                         *)
(* With `mode: session` each client has a revealed set of its own; with    *)
(* `mode: global` the clients share one, and all listen to it.             *)
(***************************************************************************)
EXTENDS ToolRegistry

CONSTANTS
  Clients,   \* downstream sessions
  Disabled,  \* exposed names that the config disables
  NotListed, \* a client that has not listed the tools yet
  LowerCase  \* LowerCase[s]: the name s of a server or namespace, in lower case

VARIABLES
  settings,  \* progressiveDisclosure of the config the runtime was built from
  revealed,  \* revealed[d]: the set of d's visibility (of all, in global mode)
  link,      \* link[d]: "closed", "open", or "ready" (initialized was received)
  local,     \* local[d]: d is a control-plane session of `tlbx run`
  timer,     \* timer[d]: d's debounce timer is set
  told,      \* told[d]: a tools/list_changed is on its way to d
  unsent,    \* unsent[d]: the list that d was not told of, as its last send failed
  view       \* view[d]: the registry's tools that d listed last, or NotListed

clientVars == <<link, local, told, unsent, view>>
vars == <<registryVars, settings, revealed, clientVars, timer>>

BootstrapNames ==
  {FormatExposedName(<<"toolbx">>, <<t>>) :
     t \in {"search_tools", "reveal_tools", "hide_tools",
            "list_available_servers", "list_revealed_tools"}}

\* The bootstrap tools a session registers, which are always visible.
Bootstrap == IF settings.bootstrapTools THEN BootstrapNames ELSE {}

-----------------------------------------------------------------------------
DisclosureInit ==
  /\ Init
  /\ settings \in [enabled : BOOLEAN, bootstrapTools : BOOLEAN,
                   mode : {"session", "global"}, autoReveal : BOOLEAN]
  /\ revealed = [d \in Clients |-> {}]
  /\ link = [d \in Clients |-> "closed"]
  /\ local = [d \in Clients |-> FALSE]
  /\ timer = [d \in Clients |-> FALSE]
  /\ told = [d \in Clients |-> FALSE]
  /\ unsent = [d \in Clients |-> NotListed]
  /\ view = [d \in Clients |-> NotListed]

-----------------------------------------------------------------------------
(* The revealed set of a session *)

\* Mutant: a session hears of its own calls only.
OwnSet(d) == {d}

\* The sessions that share d's set, and listen to it.
SharedWith(d) == IF settings.mode = "global" THEN Clients ELSE {d}

IsVisible(d, n) == n \in Bootstrap \cup revealed[d]

\* schedule() of every open session in D: a pending timer is left as it is.
Schedule(D) == timer' = [c \in Clients |-> timer[c] \/ (c \in D /\ link[c] # "closed")]

\* A change of d's set to R tells its listeners; no change tells nobody.
Becomes(d, R) ==
  /\ revealed' = [c \in Clients |->
                    IF settings.mode = "global" \/ c = d THEN R ELSE revealed[c]]
  /\ Schedule(IF R # revealed[d] THEN SharedWith(d) ELSE {})
  /\ UNCHANGED <<registryVars, settings, clientVars>>

\* reveal and hide skip the bootstrap names.
RevealNames(d, N) == Becomes(d, revealed[d] \cup (N \ Bootstrap))
HideNames(d, N) == Becomes(d, revealed[d] \ (N \ Bootstrap))

-----------------------------------------------------------------------------
(* tools/list and tools/call *)

\* Mutant: the listing hides unrevealed tools from `tlbx run` as well.
FiltersAll(d) == settings.enabled

\* disclosureOn of tools/list
Filters(d) == settings.enabled /\ ~local[d]

\* The registry's part of the answer to tools/list.
Listing(d) ==
  {r \in Visible :
     LET n == ExposedName(r) IN
     n \notin Bootstrap /\ n \notin Disabled /\ (Filters(d) => IsVisible(d, n))}

\* Who answers a tools/call of n: a bootstrap tool, nobody (the name is unknown,
\* disabled or not revealed), or the tool that the router is handed.
Answer(d, n) ==
  LET entry == Find(n)
      known == entry # NotFound
  IN  IF n \in Bootstrap THEN "bootstrap"
      ELSE IF known /\ n \in Disabled THEN "unknown"
      ELSE IF settings.enabled /\ ~local[d] /\ known /\ ~IsVisible(d, n)
           THEN "not_revealed"
      ELSE IF known THEN "routed" ELSE "unknown"

-----------------------------------------------------------------------------
(* The bootstrap tools *)

\* A tools/call of the bootstrap tool t reaches it.
Calls(d, t) ==
  /\ link[d] = "ready"
  /\ Answer(d, FormatExposedName(<<"toolbx">>, <<t>>)) = "bootstrap"

\* A name that is a bootstrap tool's or unknown makes the whole request fail.
RevealTools(d, N) ==
  /\ Calls(d, "reveal_tools")
  /\ N \cap BootstrapNames = {} /\ \A n \in N : Find(n) # NotFound
  /\ RevealNames(d, N)

\* Unknown names may be hidden: a tool that has gone may still be revealed.
HideTools(d, N) ==
  /\ Calls(d, "hide_tools")
  /\ N \cap BootstrapNames = {}
  /\ HideNames(d, N)

\* A query that is the name of servers, in whatever case: all their listed tools
\* are revealed, not only those among the hits.
SearchTools(d, query) ==
  LET found == {r \in Visible : LowerCase[r.server] = query} IN
  /\ Calls(d, "search_tools") /\ settings.autoReveal
  /\ found # {}
  /\ RevealNames(d, {ExposedName(r) : r \in found})

-----------------------------------------------------------------------------
(* The registry and the notifiers *)

TellClients ==
  /\ Schedule(IF notified' THEN Clients ELSE {})
  /\ UNCHANGED <<settings, revealed, clientVars>>

\* syncToolRegistry: a server that is not visible publishes nothing.
ServerChanges(s, visible, list) ==
  /\ visible \/ list = <<>>
  /\ SetServerEntry(s, visible, list)
  /\ TellClients

\* onTools of the custom tools host: the loaded set grows.
CustomToolLoads(r) == r \notin customs /\ SetCustomTools(customs \cup {r}) /\ TellClients

\* notifyAllSessionsToolsChanged()
Broadcast == Schedule(Clients) /\ UNCHANGED <<registryVars, settings, revealed, clientVars>>

\* registerHandlers: a new visibility, empty unless it is the shared one.
Open(d) ==
  /\ link[d] = "closed"
  /\ link' = [link EXCEPT ![d] = "open"]
  /\ \E b \in BOOLEAN : local' = [local EXCEPT ![d] = b]
  /\ revealed' = IF settings.mode = "global" THEN revealed
                 ELSE [revealed EXCEPT ![d] = {}]
  /\ UNCHANGED <<registryVars, settings, timer, told, unsent, view>>

Initialized(d) ==
  /\ link[d] = "open"
  /\ link' = [link EXCEPT ![d] = "ready"]
  /\ UNCHANGED <<registryVars, settings, revealed, timer, local, told, unsent, view>>

ListTools(d) ==
  /\ link[d] = "ready"
  /\ view' = [view EXCEPT ![d] = Listing(d)]
  /\ told' = [told EXCEPT ![d] = FALSE]
  /\ unsent' = [unsent EXCEPT ![d] = NotListed]
  /\ UNCHANGED <<registryVars, settings, revealed, timer, link, local>>

\* fire(): nothing is sent to a client that is not initialized yet, and nothing
\* is sent again when a send fails.
Fire(d) ==
  /\ timer[d]
  /\ timer' = [timer EXCEPT ![d] = FALSE]
  /\ \/ link[d] # "ready" /\ UNCHANGED <<told, unsent>>
     \/ /\ link[d] = "ready"
        /\ \/ told' = [told EXCEPT ![d] = TRUE] /\ unsent' = [unsent EXCEPT ![d] = NotListed]
           \/ unsent' = [unsent EXCEPT ![d] = Listing(d)] /\ UNCHANGED told
  /\ UNCHANGED <<registryVars, settings, revealed, link, local, view>>

\* onClose: unsubscribed from the set and from the registry.
Close(d) ==
  /\ link[d] # "closed"
  /\ link' = [link EXCEPT ![d] = "closed"]
  /\ local' = [local EXCEPT ![d] = FALSE]
  /\ timer' = [timer EXCEPT ![d] = FALSE]
  /\ told' = [told EXCEPT ![d] = FALSE]
  /\ unsent' = [unsent EXCEPT ![d] = NotListed]
  /\ view' = [view EXCEPT ![d] = NotListed]
  /\ UNCHANGED <<registryVars, settings, revealed>>

-----------------------------------------------------------------------------
DisclosureNext ==
  \/ \E s \in Servers, visible \in BOOLEAN, list \in Lists : ServerChanges(s, visible, list)
  \/ \E r \in CustomTools : CustomToolLoads(r)
  \/ Broadcast
  \/ \E d \in Clients :
       \/ Open(d) \/ Initialized(d) \/ ListTools(d) \/ Fire(d) \/ Close(d)
       \/ \E N \in SUBSET Names : RevealTools(d, N) \/ HideTools(d, N)
       \/ \E query \in {LowerCase[r.server] : r \in AllTools} : SearchTools(d, query)

DisclosureSpec == DisclosureInit /\ [][DisclosureNext]_vars

-----------------------------------------------------------------------------
\* tools/list and tools/call agree for every session, though each applies the
\* bootstrap names, the disabled names and the revealed set by itself and reads
\* another structure of the registry: a tool that is listed is routed to its own
\* server, and a name that is routed belongs to a tool that is listed.
ListAgreesWithCall ==
  \A d \in Clients : link[d] = "ready" =>
    /\ \A r \in Listing(d) :
         LET n == ExposedName(r) IN
         Answer(d, n) = "routed" /\ Find(n).server = r.server /\ Find(n).name = r.name
    /\ \A n \in Names : Answer(d, n) = "routed" => Find(n) \in Listing(d)

\* A client whose list is out of date, by a change of the registry, a call of its
\* own or another client's call on the shared set, has been told or is about to
\* be: no change is lost between the listeners, the debounce and the handshake.
\* Only the change that a failed send was about stays untold, and no later one.
StaleSessionIsTold ==
  \A d \in Clients :
    (link[d] = "ready" /\ view[d] # NotListed /\ view[d] # Listing(d))
      => timer[d] \/ told[d] \/ unsent[d] = Listing(d)
=============================================================================
