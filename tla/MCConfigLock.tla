---------------------------- MODULE MCConfigLock ----------------------------
(***************************************************************************)
(* Instances of ConfigLock for TLC.                                        *)
(***************************************************************************)
EXTENDS ConfigLock, TLC

CONSTANTS a, b, c, d, p, q, r, none

Calls3 == {a, b, c}
Procs2 == {p, q}
Procs3 == {p, q, r}

\* Three commands in three processes.
ProcOfSeparate == a :> p @@ b :> q @@ c :> r
\* Two calls of one process (a, and c made from a's fn) against another's b.
ProcOfShared == a :> p @@ b :> q @@ c :> p
OuterNone == [x \in Calls |-> none]
OuterOfC == [x \in Calls |-> IF x = c THEN a ELSE none]

AnySlot == {"absent", "empty", "leftover", "opaque", "orphan"}
AnyMutex == {"free", "orphan"}
=============================================================================
