--------------------------- MODULE MCServeDaemon ---------------------------
(***************************************************************************)
(* Instances of ServeDaemon for TLC.                                       *)
(***************************************************************************)
EXTENDS ServeDaemon

CONSTANTS d1, r1, s1, old

OneDetach == {d1}
OneRun == {r1}
OneStop == {s1}
OldOnly == {old}
=============================================================================
