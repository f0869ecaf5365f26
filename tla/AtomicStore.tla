---------------------------- MODULE AtomicStore ----------------------------
(***************************************************************************)
(* What the directory lock promises the commands that take it: the file    *)
(* they guard (config.json, or one credential record) behaves as if every  *)
(* command's read-modify-write cycle happened in a single step.  A command *)
(* is identified by the call that made it, and the file is the set of the  *)
(* commands whose change it carries, so an update that was overwritten by  *)
(* a stale copy is a member that disappears.                               *)
(***************************************************************************)
CONSTANT Calls

VARIABLE store

Init == store = {}

\* One whole read-modify-write cycle.
Commit(c) == store' = store \cup {c}

Next == \E c \in Calls : Commit(c)

Spec == Init /\ [][Next]_store
=============================================================================
