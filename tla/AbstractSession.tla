--------------------------- MODULE AbstractSession ---------------------------
(***************************************************************************)
(* What an upstream session promises to the gateway that owns it: its      *)
(* status moves along ALLOWED_TRANSITIONS (server-status/state-machine.ts),*)
(* its cached tools change only when it connects or while it is connected, *)
(* and once disposed it says "stopped" and nothing else.  UpstreamSession  *)
(* implements it; GatewayRuntime is built on it.                           *)
(***************************************************************************)
CONSTANTS ToolLists, NoTools  \* the lists it may cache, and nothing cached yet

VARIABLES
  status,  \* the last status emitted
  tools,   \* the cached tools/list result
  over     \* dispose() was called

sessionVars == <<status, tools, over>>

\* ALLOWED_TRANSITIONS, for the kinds a session emits.
Allowed ==
  [stopped |-> {"starting"},
   starting |-> {"connected", "error", "auth_required", "auth_expired", "stopped"},
   connected |-> {"starting", "error", "auth_expired", "stopped"},
   error |-> {"starting", "stopped"},
   auth_required |-> {"starting", "stopped"},
   auth_expired |-> {"starting", "auth_required", "stopped"}]

Statuses == DOMAIN Allowed

Init == status = "stopped" /\ tools = NoTools /\ over = FALSE

\* A status is emitted; a connect may bring a new list with it.
Change(s) ==
  /\ s \in Allowed[status]
  /\ over => s = "stopped"
  /\ status' = s
  /\ tools' = tools \/ (s = "connected" /\ tools' \in ToolLists)
  /\ UNCHANGED over

\* tools_list_changed is emitted.
Reload ==
  /\ status = "connected" /\ ~over
  /\ tools' \in ToolLists
  /\ UNCHANGED <<status, over>>

\* dispose() is called; a list still on its way is cached, and not announced.
Dispose == over' = TRUE /\ ~over /\ UNCHANGED <<status, tools>>
LateList ==
  /\ over /\ status \in {"starting", "stopped"}
  /\ tools' \in ToolLists
  /\ UNCHANGED <<status, over>>

Next == (\E s \in Statuses : Change(s)) \/ Reload \/ Dispose \/ LateList

Spec == Init /\ [][Next]_sessionVars
=============================================================================
