--------------------------- MODULE MCCredentials ---------------------------
(***************************************************************************)
(* An instance of Credentials for TLC: two commands of any kind against a  *)
(* scoped operation of the gateway and its unscoped stream.                *)
(***************************************************************************)
EXTENDS Credentials

CONSTANTS c1, c2, op, stream

TwoCommands == {c1, c2}
TwoFlows == {op, stream}
OneScoped == {op}
=============================================================================
