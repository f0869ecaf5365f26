----------------------------- MODULE MCToolCall -----------------------------
(***************************************************************************)
(* An instance of RunCommand for TLC: one describe and one call of a tool. *)
(***************************************************************************)
EXTENDS RunCommand

CONSTANTS d, c1

DescribeAndCall == {d, c1}
OneDescribe == {d}
EveryFile == Defects
=============================================================================
