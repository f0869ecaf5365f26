-------------------------- MODULE MCConfigCommands --------------------------
(***************************************************************************)
(* An instance of ConfigCommands for TLC.  Commands are interchangeable,   *)
(* and so are names.                                                       *)
(***************************************************************************)
EXTENDS ConfigCommands, TLC

CONSTANTS c1, c2, nameA, nameB

TwoCommands == {c1, c2}
TwoNames == {nameA, nameB}

\* Bound: either there is a server or a tool to begin with, or a client's file.
BoundedInit == Init /\ (live = Absent => client = "claude")
                    /\ (live = Absent \/ (config = Default /\ manifest = Default))
MCSpec == BoundedInit /\ [][Next]_vars

Symmetry == Permutations(Installers) \cup Permutations(Names)
=============================================================================
