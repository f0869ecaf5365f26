----------------------------- MODULE ConfigLock -----------------------------
(***************************************************************************)
(* packages/core/src/config/lock.ts: the cross-process directory lock that *)
(* serializes every command changing the config directory, and (with       *)
(* withCredentialLock) every credential.                                   *)
(*                                                                         *)
(* A call of withConfigLock is one member of Calls and carries one nonce,  *)
(* so the call itself stands for the nonce in meta.json.  Calls run in     *)
(* processes; a process may end at any moment, between two file-system     *)
(* operations, and leaves on disk whatever it left there.  Every action is *)
(* one file-system operation with the synchronous code after it: this is   *)
(* the grain at which other processes interleave.                          *)
(***************************************************************************)
EXTENDS Naturals

CONSTANTS
  Calls,          \* the calls of withConfigLock on one resolved directory
  Procs,          \* the processes making them
  ProcOf,         \* [Calls -> Procs]
  OuterOf,        \* [Calls -> Calls \cup {NoCall}]: the call whose fn makes it
  NoCall,
  StealAttempts,  \* STEAL_MUTEX_ATTEMPTS (10 in the code)
  InitSlots,      \* what may lie at <dir>/.lock when the calls start
  InitMutexes,    \* what may lie at <dir>/.lock.steal
  Deadlines,      \* TRUE: timeoutMs may pass before a call gets the lock
  MutexAges,      \* which steal mutexes get older than staleMs: "none", those of
                  \* dead stealers ("abandoned"), or "any", a frozen stealer's too
  PromptProbe     \* bound; TRUE: an owner that has released its lock does not end
                  \* between a stealer's read of its meta.json and the probe
                  \* of its pid

\* The contents of <dir>/.lock other than a lock published by a call:
\*   absent    no directory            empty     an empty directory
\*   leftover  files, no meta.json     opaque    a meta.json of no local pid
\*                                               (unusable, or another host)
\*   orphan    a valid meta.json of a local pid that is gone
SlotKinds == {"absent", "empty", "leftover", "opaque", "orphan"}

\* The contents of <dir>/.lock.steal other than the mutex of a call.
MutexKinds == {"free", "orphan"}

ASSUME CallsAssumption ==
  /\ Calls \cap (SlotKinds \cup MutexKinds \cup {NoCall}) = {}
  /\ ProcOf \in [Calls -> Procs]

ASSUME NestingAssumption ==
  /\ OuterOf \in [Calls -> Calls \cup {NoCall}]
  /\ \A c \in Calls : OuterOf[c] # NoCall =>
       /\ OuterOf[OuterOf[c]] = NoCall
       /\ ProcOf[OuterOf[c]] = ProcOf[c]

ASSUME BoundsAssumption ==
  /\ StealAttempts \in Nat \ {0}
  /\ InitSlots \subseteq SlotKinds
  /\ InitMutexes \subseteq MutexKinds

ASSUME TimingAssumption ==
  /\ Deadlines \in BOOLEAN /\ PromptProbe \in BOOLEAN
  /\ MutexAges \in {"none", "abandoned", "any"}

VARIABLES
  pc,       \* pc[c]: the operation the call does next
  alive,    \* alive[p]: the process still runs
  slot,     \* the directory <dir>/.lock: a SlotKind, or the call it belongs to
  slotOld,  \* its mtime is more than staleMs ago
  mutex,    \* the directory <dir>/.lock.steal: a MutexKind or its maker
  mutexOld, \* its mtime is more than staleMs ago
  late,     \* late[c]: Date.now() is past the call's deadline
  nested,   \* nested[c]: c ran inside its outer call's still active scope
  stealing, \* stealing[c]: c is past acquireStealMutex in stealStale
  tries,    \* tries[c]: attempts made on the steal mutex
  saw,      \* saw[c]: whose meta.json c has read
  removal,  \* removal[c]: StaleEvaluation.removal
  store,    \* the guarded file, as the set of the calls whose change is in it
  seen      \* seen[c]: the file as c read it

lockVars == <<slot, slotOld>>
mutexVars == <<mutex, mutexOld>>
stealVars == <<stealing, tries, saw, removal>>
fileVars == <<store, seen>>
vars == <<pc, alive, lockVars, mutexVars, late, nested, stealVars, fileVars>>

-----------------------------------------------------------------------------
\* Operations of acquire, of the staleness check and of stealStale.
Acquiring == {"publish", "readdir", "readMeta", "probe", "stat", "mkMutex",
              "statMutex", "rmMutex", "remove", "rmOwnMutex"}
\* HoldRecord.active: fn runs (it loads the file, then saves it).
Active == {"load", "save", "fn"}
\* releaseLock.
Releasing == {"check", "discard"}
\* What a call ends with: fn's result, ConfigLockError, a raw file-system error.
Ended == {"done", "failed", "threw"}
\* The call ended with its process, wherever it was.
Pcs == {"idle", "killed"} \cup Acquiring \cup Active \cup Releasing \cup Ended

Removals == {"rename-aside", "rmdir-if-empty"}

Goto(c, l) == pc' = [pc EXCEPT ![c] = l]

\* The outermost call of c holds the lock: fn runs or the release is not over.
Holding(c) == ~nested[c] /\ pc[c] \in Active \cup Releasing

\* Another call that c awaits from inside its fn.
AwaitsNested(c) ==
  \E d \in Calls : OuterOf[d] = c /\ nested[d] /\ pc[d] \in Active

Replaceable == slot \in {"absent", "empty"}
HasMeta == slot \in Calls \cup {"opaque", "orphan"}

SetSlot(s) == slot' = s /\ slotOld' = FALSE
SetMutex(m) == mutex' = m /\ mutexOld' = FALSE

-----------------------------------------------------------------------------
Init ==
  /\ pc = [c \in Calls |-> "idle"]
  /\ alive = [p \in Procs |-> TRUE]
  /\ slot \in InitSlots
  /\ slotOld = FALSE
  /\ mutex \in InitMutexes
  /\ mutexOld = FALSE
  /\ late = [c \in Calls |-> FALSE]
  /\ nested = [c \in Calls |-> FALSE]
  /\ stealing = [c \in Calls |-> FALSE]
  /\ tries = [c \in Calls |-> 0]
  /\ saw = [c \in Calls |-> "absent"]
  /\ removal = [c \in Calls |-> "rmdir-if-empty"]
  /\ store = {}
  /\ seen = [c \in Calls |-> {}]

\* Mutant: the record stays active until the release is over.
ReentrantTooLong(c) ==
  OuterOf[c] # NoCall /\ pc[OuterOf[c]] \in {"load", "fn", "check", "discard"}

\* current?.get(resolved)?.active: made from an fn whose scope is active (fn
\* makes it before or after its own cycle, never between its load and save).
Reentrant(c) == OuterOf[c] # NoCall /\ pc[OuterOf[c]] \in {"load", "fn"}

\* withConfigLock: a call made inside the fn of a call that still holds this
\* directory runs at once; work that escaped such an fn, and every other call,
\* acquires.  fn awaits the nested call, so its own cycle does not straddle it.
Begin(c) ==
  /\ pc[c] = "idle"
  /\ \/ /\ Reentrant(c)
        /\ ~AwaitsNested(OuterOf[c])
        /\ Goto(c, "load")
        /\ nested' = [nested EXCEPT ![c] = TRUE]
     \/ /\ ~Reentrant(c)
        /\ OuterOf[c] # NoCall => pc[OuterOf[c]] \in Releasing \cup Ended
        /\ Goto(c, "publish")
        /\ UNCHANGED nested
  /\ UNCHANGED <<alive, lockVars, mutexVars, late, stealVars, fileVars>>

-----------------------------------------------------------------------------
(* acquire *)

\* rename(staging, lockDir) succeeds on a free slot and on an empty directory.
Publish(c) ==
  /\ pc[c] = "publish"
  /\ Replaceable
  /\ SetSlot(c)
  /\ Goto(c, "load")
  /\ late' = [late EXCEPT ![c] = FALSE]
  /\ UNCHANGED <<alive, mutexVars, nested, stealVars, fileVars>>

\* Mutant: the deadline is not enforced while there is something to steal.
NeverTimesOut(c) == FALSE

TimedOut(c) == late[c]

\* The slot is taken: give up at the deadline, look for a stale lock before it.
PublishFails(c) ==
  /\ pc[c] = "publish"
  /\ ~Replaceable
  /\ Goto(c, IF TimedOut(c) THEN "failed" ELSE "readdir")
  /\ UNCHANGED <<alive, lockVars, mutexVars, late, nested, stealVars, fileVars>>

\* mkdir or writeFile of the staging directory, the rename onto lockDir, or the
\* mkdir of the steal mutex fails with another code than "held" (no space, a
\* read-only directory): the call throws that error as it is.
FsError(c) ==
  /\ pc[c] \in {"publish", "mkMutex"}
  /\ Goto(c, "threw")
  /\ tries' = [tries EXCEPT ![c] = 0]
  /\ UNCHANGED <<alive, lockVars, mutexVars, late, nested, stealing, saw, removal,
                 fileVars>>

\* What follows evaluateStale: in acquire's loop only whether to steal counts,
\* in stealStale also how.
Steal(c, r) ==
  /\ removal' = [removal EXCEPT ![c] = IF stealing[c] THEN r ELSE "rmdir-if-empty"]
  /\ Goto(c, IF stealing[c] THEN "remove" ELSE "mkMutex")

KeepOff(c) ==
  /\ removal' = [removal EXCEPT ![c] = "rmdir-if-empty"]
  /\ Goto(c, IF stealing[c] THEN "rmOwnMutex" ELSE "publish")

-----------------------------------------------------------------------------
(* evaluateStale *)

\* An empty directory can be replaced, so only rmdir is safe for it.
RemovalFor(s) == IF s = "empty" THEN "rmdir-if-empty" ELSE "rename-aside"

\* readdir(lockDir) tells an absent, empty, meta-bearing or leftover slot.
ReadDir(c) ==
  /\ pc[c] = "readdir"
  /\ \/ /\ slot = "absent"
        /\ Steal(c, "rmdir-if-empty")
     \/ /\ slot \in {"empty", "leftover"}
        /\ removal' = [removal EXCEPT ![c] = RemovalFor(slot)]
        /\ Goto(c, "stat")
     \/ /\ HasMeta
        /\ Goto(c, "readMeta")
        /\ UNCHANGED removal
  /\ UNCHANGED <<alive, lockVars, mutexVars, late, nested, stealing, tries, saw,
                 fileVars>>

\* readMetaState: the file may be gone, unusable (then the directory's age
\* counts), of another host (its own age counts), or name a local pid.
ReadMeta(c) ==
  /\ pc[c] = "readMeta"
  /\ \/ /\ ~HasMeta
        /\ Steal(c, "rmdir-if-empty")
        /\ UNCHANGED saw
     \/ /\ slot = "opaque"
        /\ removal' = [removal EXCEPT ![c] = "rename-aside"]
        /\ Goto(c, "stat")
        /\ UNCHANGED saw
     \/ /\ slot = "opaque"
        /\ IF slotOld THEN Steal(c, "rename-aside") ELSE KeepOff(c)
        /\ UNCHANGED saw
     \/ /\ slot \in Calls \cup {"orphan"}
        /\ saw' = [saw EXCEPT ![c] = slot]
        /\ Goto(c, "probe")
        /\ UNCHANGED removal
  /\ UNCHANGED <<alive, lockVars, mutexVars, late, nested, stealing, tries,
                 fileVars>>

\* Mutant: age decides for a local owner too.
OldEnough(s) == slotOld

\* The process of the meta.json that c has read is gone.
OwnerGone(s) == s = "orphan" \/ (s \in Calls /\ ~alive[ProcOf[s]])

\* isAlive(meta.pid), after the await of the read.
Probe(c) ==
  /\ pc[c] = "probe"
  /\ \/ OwnerGone(saw[c]) /\ Steal(c, "rename-aside")
     \/ ~OwnerGone(saw[c]) /\ KeepOff(c)
  /\ saw' = [saw EXCEPT ![c] = "absent"]
  /\ UNCHANGED <<alive, lockVars, mutexVars, late, nested, stealing, tries,
                 fileVars>>

\* staleByDirAge: the age of whatever is at lockDir by now.
StatDir(c) ==
  /\ pc[c] = "stat"
  /\ \/ slot = "absent" /\ Steal(c, "rmdir-if-empty")
     \/ slot # "absent" /\ slotOld /\ Steal(c, removal[c])
     \/ slot # "absent" /\ ~slotOld /\ KeepOff(c)
  /\ UNCHANGED <<alive, lockVars, mutexVars, late, nested, stealing, tries, saw,
                 fileVars>>

-----------------------------------------------------------------------------
(* stealStale *)

TriesLeft(n) == n + 1 < StealAttempts

\* acquireStealMutex: after a failed attempt, the next one or back to acquire.
NextTry(c) ==
  IF TriesLeft(tries[c])
  THEN tries' = [tries EXCEPT ![c] = @ + 1] /\ Goto(c, "mkMutex")
  ELSE tries' = [tries EXCEPT ![c] = 0] /\ Goto(c, "publish")

MakeMutex(c) ==
  /\ pc[c] = "mkMutex"
  /\ \/ /\ mutex = "free"
        /\ SetMutex(c)
        /\ stealing' = [stealing EXCEPT ![c] = TRUE]
        /\ tries' = [tries EXCEPT ![c] = 0]
        /\ Goto(c, "readdir")
     \/ /\ mutex # "free"
        /\ Goto(c, "statMutex")
        /\ UNCHANGED <<mutexVars, stealing, tries>>
  /\ UNCHANGED <<alive, lockVars, late, nested, saw, removal, fileVars>>

\* Mutant: no age-based recovery of the mutex.
MutexNeverStale == FALSE

MutexStale == mutexOld

\* Vanished: try again.  Older than staleMs: remove it.  Else wait and retry.
StatMutex(c) ==
  /\ pc[c] = "statMutex"
  /\ \/ MutexStale /\ Goto(c, "rmMutex") /\ UNCHANGED tries
     \/ ~MutexStale /\ NextTry(c)
  /\ UNCHANGED <<alive, lockVars, mutexVars, late, nested, stealing, saw,
                 removal, fileVars>>

RemoveOldMutex(c) ==
  /\ pc[c] = "rmMutex"
  /\ SetMutex("free")
  /\ NextTry(c)
  /\ UNCHANGED <<alive, lockVars, late, nested, stealing, saw, removal, fileVars>>

Removes(r) == r = "rename-aside" \/ slot = "empty"

\* discardLockDir renames aside whatever is there; rmdir needs it empty.
RemoveStale(c) ==
  /\ pc[c] = "remove"
  /\ IF Removes(removal[c])
     THEN SetSlot("absent") ELSE UNCHANGED lockVars
  /\ removal' = [removal EXCEPT ![c] = "rmdir-if-empty"]
  /\ Goto(c, "rmOwnMutex")
  /\ UNCHANGED <<alive, mutexVars, late, nested, stealing, tries, saw, fileVars>>

\* finally: rm(stealMutex), whoever made the one that is there.
RemoveOwnMutex(c) ==
  /\ pc[c] = "rmOwnMutex"
  /\ SetMutex("free")
  /\ stealing' = [stealing EXCEPT ![c] = FALSE]
  /\ Goto(c, "publish")
  /\ UNCHANGED <<alive, lockVars, late, nested, tries, saw, removal, fileVars>>

-----------------------------------------------------------------------------
(* fn, as the commands write it: load the file, change it, save it. *)

LoadFile(c) ==
  /\ pc[c] = "load"
  /\ ~AwaitsNested(c)
  /\ seen' = [seen EXCEPT ![c] = store]
  /\ Goto(c, "save")
  /\ UNCHANGED <<alive, lockVars, mutexVars, late, nested, stealVars, store>>

\* atomicWriteFile's rename, or a validation error that leaves the file alone.
SaveFile(c) ==
  /\ pc[c] = "save"
  /\ store' \in {store, seen[c] \cup {c}}
  /\ seen' = [seen EXCEPT ![c] = {}]
  /\ Goto(c, "fn")
  /\ UNCHANGED <<alive, lockVars, mutexVars, late, nested, stealVars>>

\* fn settles: the record turns inactive before releaseLock starts, and a
\* nested call leaves the release to the outermost one.
LeaveFn(c) ==
  /\ pc[c] = "fn"
  /\ ~AwaitsNested(c)
  /\ Goto(c, IF nested[c] THEN "done" ELSE "check")
  /\ UNCHANGED <<alive, lockVars, mutexVars, late, nested, stealVars, fileVars>>

-----------------------------------------------------------------------------
(* releaseLock *)

\* A valid meta.json with another nonce is not ours to remove.
CheckNonce(c) ==
  /\ pc[c] = "check"
  /\ Goto(c, IF slot \in (Calls \cup {"orphan"}) \ {c} THEN "done" ELSE "discard")
  /\ UNCHANGED <<alive, lockVars, mutexVars, late, nested, stealVars, fileVars>>

DiscardOwn(c) ==
  /\ pc[c] = "discard"
  /\ SetSlot("absent")
  /\ Goto(c, "done")
  /\ UNCHANGED <<alive, mutexVars, late, nested, stealVars, fileVars>>

-----------------------------------------------------------------------------
(* The environment: time and the end of processes (and FsError). *)

SlotAges ==
  /\ slot # "absent"
  /\ ~slotOld
  /\ slotOld' = TRUE
  /\ UNCHANGED <<pc, alive, slot, mutexVars, late, nested, stealVars, fileVars>>

\* By the lease bound of stealStale's comment a stealer that still runs removes
\* its mutex before staleMs, so only a dead one's mutex grows old.
MutexGetsOld ==
  /\ mutex # "free" /\ MutexAges # "none"
  /\ (mutex \in Calls /\ alive[ProcOf[mutex]]) => MutexAges = "any"
  /\ ~mutexOld
  /\ mutexOld' = TRUE
  /\ UNCHANGED <<pc, alive, lockVars, mutex, late, nested, stealVars, fileVars>>

DeadlinePasses(c) ==
  /\ Deadlines
  /\ pc[c] \in Acquiring
  /\ ~late[c]
  /\ late' = [late EXCEPT ![c] = TRUE]
  /\ UNCHANGED <<pc, alive, lockVars, mutexVars, nested, stealVars, fileVars>>

\* The memory f of the calls of process p is lost: each has value v again.
Lose(p, f, v) == [c \in Calls |-> IF ProcOf[c] = p THEN v ELSE f[c]]

\* p crashes, is killed, or simply exits after its command.
Die(p) ==
  /\ alive[p]
  /\ PromptProbe =>
       \A s \in Calls :
         (pc[s] = "probe" /\ saw[s] \in Calls /\ ProcOf[saw[s]] = p)
           => slot = saw[s]
  /\ alive' = [alive EXCEPT ![p] = FALSE]
  /\ pc' = [c \in Calls |->
       IF ProcOf[c] = p /\ pc[c] \notin Ended THEN "killed" ELSE pc[c]]
  /\ late' = Lose(p, late, FALSE)
  /\ nested' = Lose(p, nested, FALSE)
  /\ stealing' = Lose(p, stealing, FALSE)
  /\ tries' = Lose(p, tries, 0)
  /\ saw' = Lose(p, saw, "absent")
  /\ removal' = Lose(p, removal, "rmdir-if-empty")
  /\ seen' = Lose(p, seen, {})
  /\ UNCHANGED <<lockVars, mutexVars, store>>

-----------------------------------------------------------------------------
Evaluate(c) == ReadDir(c) \/ ReadMeta(c) \/ Probe(c) \/ StatDir(c)
StealStale(c) ==
  MakeMutex(c) \/ StatMutex(c) \/ RemoveOldMutex(c) \/ RemoveStale(c)
    \/ RemoveOwnMutex(c)
RunFn(c) == LoadFile(c) \/ SaveFile(c) \/ LeaveFn(c)
Release(c) == CheckNonce(c) \/ DiscardOwn(c)
CallStep(c) ==
  \/ Begin(c) \/ Publish(c) \/ PublishFails(c)
  \/ Evaluate(c) \/ StealStale(c) \/ RunFn(c) \/ Release(c)

\* Every call has ended or lost its process.
AllOver == \A c \in Calls : pc[c] \in Ended \cup {"killed"}
Finished == AllOver /\ UNCHANGED vars

Next ==
  \/ \E c \in Calls : CallStep(c) \/ FsError(c) \/ DeadlinePasses(c)
  \/ SlotAges \/ MutexGetsOld
  \/ \E p \in Procs : Die(p)
  \/ Finished

Spec == Init /\ [][Next]_vars

\* A live process keeps running its calls, and time passes.  No error of the
\* file system is ever due.
FairSpec ==
  /\ Spec
  /\ \A c \in Calls : WF_vars(CallStep(c)) /\ WF_vars(DeadlinePasses(c))
  /\ WF_vars(SlotAges)
  /\ WF_vars(MutexGetsOld)

-----------------------------------------------------------------------------
CallTypes ==
  /\ pc \in [Calls -> Pcs]
  /\ late \in [Calls -> BOOLEAN]
  /\ nested \in [Calls -> BOOLEAN]

DiskTypes ==
  /\ alive \in [Procs -> BOOLEAN]
  /\ slot \in SlotKinds \cup Calls
  /\ slotOld \in BOOLEAN
  /\ mutex \in MutexKinds \cup Calls
  /\ mutexOld \in BOOLEAN

StealTypes ==
  /\ stealing \in [Calls -> BOOLEAN]
  /\ tries \in [Calls -> 0 .. (StealAttempts - 1)]
  /\ saw \in [Calls -> SlotKinds \cup Calls]
  /\ removal \in [Calls -> Removals]

FileTypes ==
  /\ store \subseteq Calls
  /\ seen \in [Calls -> SUBSET Calls]

\* Every variable has the values the code can give it; in particular the
\* attempts on the steal mutex never reach STEAL_MUTEX_ATTEMPTS.
TypeOK == CallTypes /\ DiskTypes /\ StealTypes /\ FileTypes

(* The two ways the exclusion can be lost. *)

\* A mutex judged old by its age is removed by path a moment later, when it is
\* the fresh one of a stealer that runs (acquireStealMutex).
RemovesLiveMutex(c) == RemoveOldMutex(c) /\ mutex \in Calls /\ stealing[mutex]

\* A stealer finds the pid it has read gone when the lock that named the pid is
\* no longer there: its owner has released it and ended in between
\* (evaluateMetaBearing).
ProbesReplacedOwner(c) ==
  Probe(c) /\ stealing[c] /\ OwnerGone(saw[c]) /\ slot # saw[c]

Races == \E c \in Calls : RemovesLiveMutex(c) \/ ProbesReplacedOwner(c)

\* A behaviour that takes neither of the two steps.
Unraced == [][~Races]_vars

(* Safety *)

\* Two live calls are never both inside the lock: whatever crashed before
\* them and however their file-system operations interleave, two commands
\* never run their fn at once (withConfigLock, acquire, stealStale).
MutualExclusion ==
  \A c, d \in Calls :
    c # d => ~(Holding(c) /\ Holding(d))

\* Stealing never takes the lock directory of a live holder, and its own
\* release finds it in place (lock.ts: "it can never delete a live holder's
\* lock").
LiveLockOnDisk ==
  \A c \in Calls : Holding(c) => slot = c

\* A call that skipped the acquire (re-entrancy) is inside a lock its own
\* outermost call holds: nothing that escaped an ended fn runs unlocked.
NestedUnderLock ==
  \A c \in Calls :
    (nested[c] /\ pc[c] \in Active)
      => pc[OuterOf[c]] \in Active /\ slot = OuterOf[c]

\* No command's change is lost to another command's stale copy of the file:
\* the detailed lock implements the atomic store.
Atomic == INSTANCE AtomicStore
NoLostUpdate == Atomic!Spec

(* Liveness *)

\* Neither a crashed holder nor a crashed stealer blocks later commands: a call
\* that wants the lock gets it unless its own process ends or its file system
\* refuses it ("A crashed holder cannot deadlock subsequent commands").
EventuallyAdmitted ==
  \A c \in Calls :
    pc[c] \in Acquiring ~> pc[c] \in Active \cup {"killed", "threw"}

\* With a deadline every call ends, admitted or with ConfigLockError, even when
\* a crashed stealer's mutex is never reclaimed.
EventuallyEnds ==
  \A c \in Calls :
    pc[c] # "idle" ~> pc[c] \in Ended \cup {"killed"}
=============================================================================
