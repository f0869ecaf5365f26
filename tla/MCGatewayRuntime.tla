-------------------------- MODULE MCGatewayRuntime --------------------------
(***************************************************************************)
(* Instances of GatewayRuntime for TLC.                                    *)
(***************************************************************************)
EXTENDS GatewayRuntime

TwoServers == {<<"a">>, <<"b">>}

OneTool == {[name |-> <<"t">>, desc |-> "old"]}

OneCustom == {[server |-> <<"c">>, name |-> <<"t">>, desc |-> "old", source |-> "custom"]}
=============================================================================
