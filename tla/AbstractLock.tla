---------------------------- MODULE AbstractLock ----------------------------
(***************************************************************************)
(* What the directory lock is to the commands that take it: a call asks    *)
(* for it, has it alone, or gives up, and it comes back when the holder    *)
(* leaves it or its process ends.  ConfigCommands and Credentials are      *)
(* written over this lock.                                                 *)
(***************************************************************************)
CONSTANT Calls

VARIABLE stage  \* stage[c]: c does not need the lock (yet), waits for it, has
                \* it, or is done with it

Init == stage = [c \in Calls |-> "idle"]

Step(c, from, to) == stage[c] = from /\ stage' = [stage EXCEPT ![c] = to]

Ask(c) == Step(c, "idle", "waits")

\* One holder at a time.
Admit(c) == (\A d \in Calls : stage[d] # "holds") /\ Step(c, "waits", "holds")

\* ConfigLockError, the deadline has passed, or a raw file-system error.
GiveUp(c) == Step(c, "waits", "over")

Leave(c) == Step(c, "holds", "over")

\* A process ends, and with it all its calls.
End(R) == stage' = [c \in Calls |-> IF c \in R THEN "over" ELSE stage[c]]

Next ==
  \/ \E c \in Calls : Ask(c) \/ Admit(c) \/ GiveUp(c) \/ Leave(c)
  \/ \E R \in SUBSET Calls : End(R)

Spec == Init /\ [][Next]_stage
=============================================================================
