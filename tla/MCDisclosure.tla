---------------------------- MODULE MCDisclosure ----------------------------
(***************************************************************************)
(* Instances of Disclosure for TLC.                                        *)
(***************************************************************************)
EXTENDS Disclosure

CONSTANTS d1, d2

TwoClients == {d1, d2}
AnyClient == Permutations(TwoClients)

\* An upstream server with the namespace of the bootstrap tools, one of its tools
\* with the name of a bootstrap tool, and another one before and after its
\* description changes.  The custom tool is in a namespace that differs from the
\* server's name by its case only.
ToolbxServer == {<<"toolbx">>}
TwoTools == {[name |-> <<"reveal_tools">>, desc |-> "old"],
             [name |-> <<"x">>, desc |-> "old"], [name |-> <<"x">>, desc |-> "new"]}

OneCustom == {[server |-> <<"Toolbx">>, name |-> <<"t">>, desc |-> "old", source |-> "custom"]}

CustomIsDisabled == {<<"Toolbx", "_", "_", "t">>}

InLowerCase == [s \in {<<"toolbx">>, <<"Toolbx">>} |-> <<"toolbx">>]

\* Bound: a send fails for one client at a time, which is no `tlbx run`, and only
\* where it matters: the client has listed something else, and no other
\* notification is on its way to it.
SendsThatFail ==
  LET missed == {d \in Clients : unsent[d] # NotListed} IN
  /\ \A c, d \in missed : c = d
  /\ \A d \in missed : view[d] \notin {NotListed, unsent[d]} /\ ~told[d] /\ ~local[d]

\* The states are told apart without `notified`, which no step reads but the one
\* that has just set it.
StateView == <<entries, customs, index, settings, revealed, clientVars, timer>>
=============================================================================
