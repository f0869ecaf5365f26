------------------------------ MODULE Namespace ------------------------------
(***************************************************************************)
(* packages/core/src/namespace/index.ts: the names under which the gateway *)
(* exposes the tools of its upstream servers.  A name is a sequence of     *)
(* characters.                                                             *)
(***************************************************************************)
EXTENDS Naturals, Sequences

Underscore == "_"
Hyphen == "-"

Separator == <<Underscore, Underscore>>

\* The places of e where a separator begins.
SeparatorsIn(e) == {i \in 1 .. Len(e) - 1 : e[i] = Underscore /\ e[i + 1] = Underscore}

\* ServerNameSchema: a letter or a digit, then letters, digits, "-" and "_",
\* without the separator inside.
ValidServerName(s) == s # <<>> /\ s[1] \notin {Underscore, Hyphen} /\ SeparatorsIn(s) = {}

FormatExposedName(server, tool) == server \o Separator \o tool

NotExposed == <<>>

FirstSeparator(e) == CHOOSE i \in SeparatorsIn(e) : \A j \in SeparatorsIn(e) : i <= j

\* The pair <<server, tool>>, or NotExposed: the name is split at its first
\* separator, and neither part may be empty.
ParseExposedName(e) ==
  IF SeparatorsIn(e) = {} THEN NotExposed
  ELSE LET i == FirstSeparator(e)
           pair == <<SubSeq(e, 1, i - 1), SubSeq(e, i + 2, Len(e))>>
       IN  IF i = 1 \/ pair[2] = <<>> THEN NotExposed ELSE pair
=============================================================================
