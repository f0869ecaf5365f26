--------------------------- MODULE MCHttpListener ---------------------------
(***************************************************************************)
(* An instance of HttpListener for TLC: two sessions, a call to one of     *)
(* them, its end by its client, and an SSE stream.                         *)
(***************************************************************************)
EXTENDS HttpListener, TLC

CONSTANTS i1, i2, q, e, g

FiveRequests == {i1, i2, q, e, g}
FiveKinds ==
  i1 :> "init" @@ i2 :> "init" @@ q :> "call" @@ e :> "delete" @@ g :> "stream"
=============================================================================
