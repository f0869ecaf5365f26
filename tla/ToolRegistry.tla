----------------------------- MODULE ToolRegistry -----------------------------
(***************************************************************************)
(* packages/mcp-gateway/src/registry/tool-registry.ts: the tools the       *)
(* gateway exposes, by server, and the index by exposed name that          *)
(* tools/call looks them up in.  tools/list reads the one, find() the      *)
(* other; the listeners are told when the exposed set changes.             *)
(***************************************************************************)
EXTENDS Naturals, Sequences, SequencesExt, Namespace

CONSTANTS
  Servers,      \* names of the enabled servers
  UpstreamTools,\* what they may list: records with a name and the rest, "desc"
  CustomTools,  \* custom tools, as they are registered
  MaxList       \* bound: length of an upstream's list

ASSUME ListAssumption == MaxList \in Nat

\* The keys of the config's servers have passed ServerNameSchema.
ASSUME ServersAssumption == \A s \in Servers : ValidServerName(s)

\* isEligible (custom-tools-host.ts): a custom tool whose namespace is an enabled
\* server's is not registered.
ASSUME CustomAssumption ==
  \A r \in CustomTools : r.source = "custom" /\ r.server \notin Servers

VARIABLES
  entries,  \* entries[s]: NoEntry, or the server's visibility and tools
  customs,  \* customByExposedName: the custom tools that are exposed
  index,    \* visibleByExposedName
  notified  \* the operation that was done last called its listeners

registryVars == <<entries, customs, index, notified>>

-----------------------------------------------------------------------------
Registered(s, t) ==
  [server |-> s, name |-> t.name, desc |-> t.desc, source |-> "upstream"]

UpstreamEntries == {Registered(s, t) : s \in Servers, t \in UpstreamTools}
AllTools == UpstreamEntries \cup CustomTools

ExposedName(r) == FormatExposedName(r.server, r.name)
Names == {ExposedName(r) : r \in AllTools}

NotFound == [server |-> <<>>, name |-> <<>>, desc |-> "", source |-> "none"]
NoEntry == [present |-> FALSE, visible |-> FALSE, tools |-> <<>>]

\* isServerVisible, of an enabled server
IsServerVisible(status) == status \in {"connected", "auth_expired"}

\* The lists an upstream may return; it may repeat a name.
Lists == UNION {[1 .. n -> UpstreamTools] : n \in 0 .. MaxList}

Entry(s, visible, list) ==
  [present |-> TRUE, visible |-> visible,
   tools |-> [i \in DOMAIN list |-> Registered(s, list[i])]]

\* The places of a list where the name n is exposed.
Places(list, n) == {i \in DOMAIN list : ExposedName(list[i]) = n}
LastPlace(list, n) == CHOOSE i \in Places(list, n) : \A j \in Places(list, n) : j <= i

Shown(e) == IF e.visible THEN e.tools ELSE <<>>

\* list()
Visible == (UNION {ToSet(Shown(entries[s])) : s \in Servers}) \cup customs

\* find()
Find(n) == IF n \in Names THEN index[n] ELSE NotFound

-----------------------------------------------------------------------------
\* Mutant: the entry that is replaced stays in the index.
StaysInIndex(ix, e) == ix

DropFromIndex(ix, e) ==
  [n \in Names |-> IF Places(Shown(e), n) # {} THEN NotFound ELSE ix[n]]

\* Map.set in the order of the list: the last tool of a name stays.
AddToIndex(ix, e) ==
  [n \in Names |->
     IF Places(Shown(e), n) # {} THEN Shown(e)[LastPlace(Shown(e), n)] ELSE ix[n]]

\* Equal fingerprints: the same tools after a stable sort by exposed name, so a
\* name that is repeated has its tools in the same order.
SameTools(p, q) ==
  \E f \in Bijection(DOMAIN p, DOMAIN q) :
    /\ \A i \in DOMAIN p : p[i] = q[f[i]]
    /\ \A i, j \in DOMAIN p :
         i < j /\ ExposedName(p[i]) = ExposedName(p[j]) => f[i] < f[j]

EqualForVisibility(prev, next) ==
  /\ prev.visible = next.visible
  /\ prev.visible => SameTools(prev.tools, next.tools)

-----------------------------------------------------------------------------
Init ==
  /\ entries = [s \in Servers |-> NoEntry]
  /\ customs = {}
  /\ index = [n \in Names |-> NotFound]
  /\ notified = FALSE

SetServerEntry(s, visible, list) ==
  LET next == Entry(s, visible, list) IN
  /\ index' = AddToIndex(DropFromIndex(index, entries[s]), next)
  /\ entries' = [entries EXCEPT ![s] = next]
  /\ notified' = IF entries[s].present THEN ~EqualForVisibility(entries[s], next)
                 ELSE visible
  /\ UNCHANGED customs

RemoveServer(s) ==
  /\ entries[s].present
  /\ index' = DropFromIndex(index, entries[s])
  /\ entries' = [entries EXCEPT ![s] = NoEntry]
  /\ notified' = entries[s].visible
  /\ UNCHANGED customs

\* The tools of T by exposed name, over what ix holds for the other names.  The
\* manifest keeps one custom tool of a name.
Named(T, n) == {r \in T : ExposedName(r) = n}
Indexed(ix, T) ==
  [n \in Names |-> IF Named(T, n) # {} THEN CHOOSE r \in Named(T, n) : TRUE ELSE ix[n]]

\* The whole set of custom tools is replaced; the same set again does nothing.
SetCustomTools(T) ==
  IF T = customs THEN notified' = FALSE /\ UNCHANGED <<entries, customs, index>>
  ELSE /\ customs' = T
       /\ index' = Indexed([n \in Names |-> IF Named(customs, n) # {} THEN NotFound
                                           ELSE index[n]], T)
       /\ notified' = TRUE
       /\ UNCHANGED entries

Next ==
  \/ \E s \in Servers, visible \in BOOLEAN, list \in Lists : SetServerEntry(s, visible, list)
  \/ \E s \in Servers : RemoveServer(s)
  \/ \E T \in SUBSET CustomTools : SetCustomTools(T)

Spec == Init /\ [][Next]_registryVars

-----------------------------------------------------------------------------
TypeOK ==
  /\ entries \in [Servers -> [present : BOOLEAN, visible : BOOLEAN,
                              tools : Seq(UpstreamEntries)]]
  /\ customs \subseteq CustomTools
  /\ index \in [Names -> AllTools \cup {NotFound}]
  /\ notified \in BOOLEAN

\* No two tools of different servers, or of a server and a custom namespace,
\* share an exposed name.
NamesUnambiguous ==
  \A r, q \in AllTools :
    ExposedName(r) = ExposedName(q) => r.server = q.server /\ r.name = q.name

\* What tools/list shows is what tools/call finds: every listed tool is found
\* under its exposed name and goes to its own server, and nothing is found that
\* is not listed.
ListedIsCallable ==
  /\ \A r \in Visible : /\ index[ExposedName(r)].server = r.server
                        /\ index[ExposedName(r)].name = r.name
  /\ \A n \in Names : index[n] # NotFound => index[n] \in Visible

\* The exposed name of a listed tool leads back to its server and its tool, as
\* the router's answer for an unavailable server and tlbx run rely on, as long
\* as the server's name does not end in "_".
NamesLeadBack ==
  \A r \in Visible :
    r.server[Len(r.server)] # Underscore =>
      ParseExposedName(ExposedName(r)) = <<r.server, r.name>>
=============================================================================
