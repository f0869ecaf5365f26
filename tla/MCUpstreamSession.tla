-------------------------- MODULE MCUpstreamSession --------------------------
(***************************************************************************)
(* Instances of UpstreamSession for TLC.                                   *)
(***************************************************************************)
EXTENDS UpstreamSession

CONSTANTS c1, c2

OneCall == {c1}
TwoCalls == {c1, c2}
=============================================================================
