-------------------------- MODULE ConfigLockProofs --------------------------
(***************************************************************************)
(* Proofs about ConfigLock: for any number of calls and processes, and     *)
(* with nothing assumed about time, every behaviour in which the lock      *)
(* fails to exclude, is taken from a live holder, or loses an update takes *)
(* one of the two steps of Races.  lock_double_admit shows that the first  *)
(* of them really loses the lock.                                          *)
(***************************************************************************)
EXTENDS ConfigLock, TLAPS

-----------------------------------------------------------------------------
(* The inductive invariant. *)

\* A call that can still take a step belongs to a live process.
RunnersLive ==
  \A c \in Calls : pc[c] \notin Ended \cup {"killed"} => alive[ProcOf[c]]

\* The steal mutex belongs to the one call that is inside stealStale.
StealingAt == {"readdir", "readMeta", "probe", "stat", "remove", "rmOwnMutex"}
OneStealer ==
  \A s \in Calls :
    /\ stealing[s] => mutex = s /\ pc[s] \in StealingAt
    /\ pc[s] \in {"remove", "rmOwnMutex"} => stealing[s]

\* A slot that neither an acquirer nor a releasing owner can change.
Abandoned ==
  \/ slot \in {"leftover", "opaque", "orphan"}
  \/ slot \in Calls /\ ~alive[ProcOf[slot]]

\* A stealer that may rename the slot aside has an abandoned one before it.
StealsAbandoned ==
  \A s \in Calls :
    (pc[s] \in {"remove", "stat"} /\ stealing[s] /\ removal[s] = "rename-aside")
      => Abandoned

\* A call that skipped the acquire runs while its outermost call is in fn.
NestedScope ==
  \A c \in Calls : nested[c] =>
    /\ OuterOf[c] # NoCall
    /\ pc[c] \in Active \cup {"done"}
    /\ pc[c] \in Active => pc[OuterOf[c]] \in {"load", "fn"}

LockInv ==
  /\ TypeOK
  /\ NestedScope
  /\ RunnersLive
  /\ OneStealer
  /\ StealsAbandoned
  /\ LiveLockOnDisk

-----------------------------------------------------------------------------
LEMMA SlotNames ==
  /\ \A c \in Calls : c \notin SlotKinds /\ c \notin MutexKinds
  /\ ProcOf \in [Calls -> Procs]
BY CallsAssumption

LEMMA TypeInit == Init => TypeOK
<1> SUFFICES ASSUME Init PROVE TypeOK
  OBVIOUS
<1> USE DEF TypeOK, CallTypes, DiskTypes, StealTypes, FileTypes, Pcs,
            Acquiring, Active, Releasing, Ended, Removals, SlotKinds, MutexKinds
<1>1. CallTypes
  BY DEF Init
<1>2. DiskTypes
  BY BoundsAssumption DEF Init
<1>3. StealTypes
  BY BoundsAssumption DEF Init
<1>4. FileTypes
  BY DEF Init
<1> QED BY <1>1, <1>2, <1>3, <1>4 DEF TypeOK

LEMMA TypeStep == TypeOK /\ [Next]_vars => TypeOK'
<1> SUFFICES ASSUME TypeOK, [Next]_vars PROVE TypeOK'
  OBVIOUS
<1> USE DEF TypeOK, CallTypes, DiskTypes, StealTypes, FileTypes, Pcs,
            Acquiring, Active, Releasing, Ended, Removals, SlotKinds, MutexKinds
<1> USE BoundsAssumption DEF Goto, SetSlot, SetMutex, lockVars, mutexVars,
        stealVars, fileVars
<1>1. ASSUME NEW c \in Calls, CallStep(c) PROVE TypeOK'
  <2> USE DEF CallStep, Begin, Publish, PublishFails, Evaluate, ReadDir,
              ReadMeta, Probe, StatDir, Steal, KeepOff, RemovalFor, StealStale,
              MakeMutex, StatMutex, RemoveOldMutex, RemoveStale,
              RemoveOwnMutex, NextTry, TriesLeft, RunFn, LoadFile, SaveFile,
              LeaveFn, Release, CheckNonce, DiscardOwn
  <2>1. DiskTypes'
    BY <1>1
  <2>2. CallTypes'
    <3>1. CASE Begin(c)
      <4>1. pc' \in [Calls -> Pcs]
        BY <3>1
      <4>2. nested' \in [Calls -> BOOLEAN] /\ late' \in [Calls -> BOOLEAN]
        BY <3>1
      <4> QED BY <4>1, <4>2
    <3>2. CASE Publish(c) \/ PublishFails(c)
      BY <3>2
    <3>3. CASE Evaluate(c)
      BY <3>3
    <3>4. CASE StealStale(c)
      BY <3>4
    <3>5. CASE RunFn(c) \/ Release(c)
      BY <3>5
    <3> QED BY <1>1, <3>1, <3>2, <3>3, <3>4, <3>5
  <2>3. StealTypes'
    <3>1. CASE Begin(c) \/ Publish(c) \/ PublishFails(c) \/ RunFn(c) \/ Release(c)
      BY <3>1
    <3>2. CASE Evaluate(c)
      BY <3>2
    <3>3. CASE MakeMutex(c)
      <4>1. stealing' \in [Calls -> BOOLEAN]
        BY <3>3
      <4>2. tries' \in [Calls -> 0 .. (StealAttempts - 1)]
        BY <3>3
      <4>3. saw' \in [Calls -> SlotKinds \cup Calls] /\ removal' \in [Calls -> Removals]
        BY <3>3
      <4> QED BY <4>1, <4>2, <4>3
    <3>4. CASE StatMutex(c) \/ RemoveOldMutex(c)
      BY <3>4
    <3>5. CASE RemoveStale(c) \/ RemoveOwnMutex(c)
      BY <3>5
    <3> QED BY <1>1, <3>1, <3>2, <3>3, <3>4, <3>5
  <2>4. FileTypes'
    BY <1>1
  <2> QED BY <2>1, <2>2, <2>3, <2>4 DEF TypeOK
<1>2. ASSUME NEW c \in Calls, DeadlinePasses(c) \/ FsError(c) PROVE TypeOK'
  <2>1. CASE DeadlinePasses(c)
    BY <2>1 DEF DeadlinePasses
  <2>2. CASE FsError(c)
    BY <2>2 DEF FsError
  <2> QED BY <1>2, <2>1, <2>2
<1>3. CASE SlotAges \/ MutexGetsOld
  BY <1>3 DEF SlotAges, MutexGetsOld
<1>4. ASSUME NEW p \in Procs, Die(p) PROVE TypeOK'
  <2>1. CallTypes' /\ FileTypes'
    BY <1>4 DEF Die, Lose
  <2>2. DiskTypes'
    BY <1>4 DEF Die
  <2>3. StealTypes'
    <3>1. stealing' \in [Calls -> BOOLEAN] /\ removal' \in [Calls -> Removals]
      BY <1>4 DEF Die, Lose
    <3>2. tries' \in [Calls -> 0 .. (StealAttempts - 1)]
      BY <1>4 DEF Die, Lose
    <3>3. saw' \in [Calls -> SlotKinds \cup Calls]
      BY <1>4 DEF Die, Lose
    <3> QED BY <3>1, <3>2, <3>3
  <2> QED BY <2>1, <2>2, <2>3 DEF TypeOK
<1>5. CASE Finished \/ UNCHANGED vars
  BY <1>5 DEF Finished, vars
<1> QED BY <1>1, <1>2, <1>3, <1>4, <1>5 DEF Next

\* Every variable keeps its type (what a step assigns, and what a process that
\* ends forgets, stays within the sets the code's values come from).
THEOREM TypeCorrect == Spec => []TypeOK
BY TypeInit, TypeStep, PTL DEF Spec

-----------------------------------------------------------------------------
(* Each part of LockInv survives every step. *)

LEMMA RunnersLiveStep ==
  ASSUME TypeOK, RunnersLive, [Next]_vars
  PROVE  RunnersLive'
<1> USE DEF RunnersLive, TypeOK, CallTypes, DiskTypes, Goto, Ended
<1>1. ASSUME NEW c \in Calls, CallStep(c) PROVE RunnersLive'
  <2>1. /\ alive' = alive
        /\ pc[c] \notin Ended \cup {"killed"}
        /\ \E l \in Pcs : pc' = [pc EXCEPT ![c] = l]
    <3> USE <1>1 DEF CallStep, Pcs, Acquiring, Active, Releasing
    <3>1. CASE Begin(c) \/ Publish(c) \/ PublishFails(c)
      BY <3>1 DEF Begin, Publish, PublishFails
    <3>2. CASE Evaluate(c)
      BY <3>2 DEF Evaluate, ReadDir, ReadMeta, Probe, StatDir, Steal, KeepOff
    <3>3. CASE StealStale(c)
      BY <3>3 DEF StealStale, MakeMutex, StatMutex, RemoveOldMutex, RemoveStale,
                  RemoveOwnMutex, NextTry
    <3>4. CASE RunFn(c) \/ Release(c)
      BY <3>4 DEF RunFn, LoadFile, SaveFile, LeaveFn, Release, CheckNonce,
                  DiscardOwn
    <3> QED BY <3>1, <3>2, <3>3, <3>4
  <2> QED BY <2>1
<1>2. ASSUME NEW p \in Procs, Die(p) PROVE RunnersLive'
  BY <1>2, CallsAssumption DEF Die
<1>3. CASE UNCHANGED <<pc, alive>>
  BY <1>3
<1>4. ASSUME NEW c \in Calls, FsError(c) PROVE RunnersLive'
  BY <1>4 DEF FsError
<1> QED
  BY <1>1, <1>2, <1>3, <1>4 DEF Next, vars, DeadlinePasses, SlotAges,
                                MutexGetsOld, Finished

LEMMA OneStealerStep ==
  ASSUME TypeOK, OneStealer, [Next]_vars, [~Races]_vars
  PROVE  OneStealer'
<1> USE SlotNames DEF OneStealer, StealingAt, TypeOK, CallTypes, DiskTypes,
                      StealTypes, Goto, MutexKinds
<1>1. ASSUME NEW c \in Calls, CallStep(c), ~RemovesLiveMutex(c)
      PROVE  OneStealer'
  <2>1. CASE Begin(c) \/ Publish(c) \/ PublishFails(c)
    BY <2>1 DEF Begin, Publish, PublishFails, mutexVars, stealVars
  <2>2. CASE Evaluate(c)
    <3>1. CASE ReadDir(c) \/ ReadMeta(c)
      BY <3>1 DEF ReadDir, ReadMeta, Steal, KeepOff, mutexVars
    <3>2. CASE Probe(c) \/ StatDir(c)
      BY <3>2 DEF Probe, StatDir, Steal, KeepOff, mutexVars
    <3> QED BY <2>2, <3>1, <3>2 DEF Evaluate
  <2>3. CASE MakeMutex(c)
    BY <2>3 DEF MakeMutex, SetMutex, mutexVars
  <2>4. CASE StatMutex(c)
    BY <2>4 DEF StatMutex, NextTry, mutexVars
  <2>8. CASE RemoveOldMutex(c)
    <3>1. \A s \in Calls : ~stealing[s]
      BY <1>1, <2>8 DEF RemovesLiveMutex
    <3> QED BY <2>8, <3>1 DEF RemoveOldMutex, NextTry
  <2>5. CASE RemoveStale(c)
    BY <2>5 DEF RemoveStale, mutexVars
  <2>6. CASE RemoveOwnMutex(c)
    BY <2>6 DEF RemoveOwnMutex, SetMutex
  <2>7. CASE RunFn(c) \/ Release(c)
    BY <2>7 DEF RunFn, LoadFile, SaveFile, LeaveFn, Release, CheckNonce,
                DiscardOwn, mutexVars, stealVars
  <2> QED
    BY <1>1, <2>1, <2>2, <2>3, <2>4, <2>5, <2>6, <2>7, <2>8
    DEF CallStep, StealStale
<1>2. ASSUME NEW p \in Procs, Die(p) PROVE OneStealer'
  BY <1>2 DEF Die, Lose, mutexVars, Ended
<1>3. CASE UNCHANGED <<pc, mutex, stealing>>
  BY <1>3
<1>4. ASSUME NEW c \in Calls, FsError(c) PROVE OneStealer'
  BY <1>4 DEF FsError, mutexVars
<1> QED
  BY <1>1, <1>2, <1>3, <1>4 DEF Next, vars, Races, DeadlinePasses, SlotAges,
                                MutexGetsOld, Finished, mutexVars, stealVars

\* The outermost call of a nested one takes no step out of fn before it.
LEMMA NestedScopeStep ==
  ASSUME TypeOK, NestedScope, [Next]_vars
  PROVE  NestedScope'
<1> USE NestingAssumption, SlotNames
    DEF NestedScope, TypeOK, CallTypes, Goto, Active, Ended
<1>1. ASSUME NEW c \in Calls, CallStep(c) PROVE NestedScope'
  <2>1. CASE Begin(c)
    BY <2>1 DEF Begin, Reentrant
  <2>2. CASE Publish(c) \/ PublishFails(c)
    BY <2>2 DEF Publish, PublishFails
  <2>3. CASE Evaluate(c)
    <3>1. CASE ReadDir(c) \/ ReadMeta(c)
      BY <3>1 DEF ReadDir, ReadMeta, Steal, KeepOff
    <3>2. CASE Probe(c) \/ StatDir(c)
      BY <3>2 DEF Probe, StatDir, Steal, KeepOff
    <3> QED BY <2>3, <3>1, <3>2 DEF Evaluate
  <2>4. CASE StealStale(c)
    BY <2>4 DEF StealStale, MakeMutex, StatMutex, RemoveOldMutex, RemoveStale,
                RemoveOwnMutex, NextTry
  <2>5. CASE LoadFile(c)
    BY <2>5 DEF LoadFile, AwaitsNested
  <2>6. CASE SaveFile(c)
    BY <2>6 DEF SaveFile
  <2>7. CASE LeaveFn(c)
    BY <2>7 DEF LeaveFn, AwaitsNested
  <2>8. CASE Release(c)
    BY <2>8 DEF Release, CheckNonce, DiscardOwn
  <2> QED
    BY <1>1, <2>1, <2>2, <2>3, <2>4, <2>5, <2>6, <2>7, <2>8 DEF CallStep, RunFn
<1>2. ASSUME NEW p \in Procs, Die(p) PROVE NestedScope'
  BY <1>2 DEF Die, Lose
<1>3. CASE UNCHANGED <<pc, nested>>
  BY <1>3
<1>4. ASSUME NEW c \in Calls, FsError(c) PROVE NestedScope'
  BY <1>4 DEF FsError
<1> QED
  BY <1>1, <1>2, <1>3, <1>4 DEF Next, vars, DeadlinePasses, SlotAges,
                                MutexGetsOld, Finished

\* An abandoned slot is not free, and no live call holds it.
LEMMA AbandonedStays ==
  ASSUME TypeOK, RunnersLive, LiveLockOnDisk, Abandoned
  PROVE  /\ ~Replaceable
         /\ \A c \in Calls : ~Holding(c)
BY SlotNames DEF Abandoned, Replaceable, LiveLockOnDisk, Holding, RunnersLive,
   SlotKinds, Active, Releasing, Ended

\* While a stealer has an abandoned slot before it nobody else changes that
\* slot: acquirers find it taken, its owner is gone, and there is one stealer.
LEMMA StealsAbandonedStep ==
  ASSUME LockInv, [Next]_vars, [~Races]_vars
  PROVE  StealsAbandoned'
<1> USE SlotNames DEF LockInv, StealsAbandoned, TypeOK, CallTypes, DiskTypes,
                      StealTypes, Goto
<1>1. ASSUME NEW c \in Calls, Publish(c) \/ DiscardOwn(c)
      PROVE  StealsAbandoned'
  <2>1. ~Abandoned
    <3>1. CASE Publish(c)
      BY <3>1, AbandonedStays DEF Publish
    <3>2. CASE DiscardOwn(c)
      <4>1. Holding(c)
        BY <3>2 DEF DiscardOwn, Holding, Releasing, NestedScope, Active
      <4> QED BY <4>1, AbandonedStays
    <3> QED BY <1>1, <3>1, <3>2
  <2> QED
    BY <1>1, <2>1 DEF Publish, DiscardOwn, lockVars, mutexVars, stealVars
<1>2. ASSUME NEW c \in Calls, RemoveStale(c) PROVE StealsAbandoned'
  <2>1. \A s \in Calls : stealing[s] => s = c
    BY <1>2 DEF OneStealer, RemoveStale
  <2> QED BY <1>2, <2>1 DEF RemoveStale, mutexVars
<1>3. ASSUME NEW c \in Calls, Evaluate(c), ~ProbesReplacedOwner(c)
      PROVE  StealsAbandoned'
  <2> USE DEF lockVars, mutexVars, Abandoned, OwnerGone
  <2>1. CASE ReadDir(c)
    BY <2>1 DEF ReadDir, Steal, RemovalFor
  <2>2. CASE ReadMeta(c)
    BY <2>2 DEF ReadMeta, Steal, KeepOff, HasMeta
  <2>3. CASE Probe(c)
    <3>1. CASE stealing[c] /\ OwnerGone(saw[c])
      <4>1. slot = saw[c]
        BY <1>3, <2>3, <3>1 DEF ProbesReplacedOwner
      <4>2. Abandoned
        BY <3>1, <4>1
      <4> QED BY <2>3, <4>2 DEF Probe, Steal, KeepOff
    <3>2. CASE ~stealing[c] \/ ~OwnerGone(saw[c])
      BY <2>3, <3>2 DEF Probe, Steal, KeepOff
    <3> QED BY <3>1, <3>2
  <2>4. CASE StatDir(c)
    BY <2>4 DEF StatDir, Steal, KeepOff
  <2> QED BY <1>3, <2>1, <2>2, <2>3, <2>4 DEF Evaluate
<1>4. ASSUME NEW c \in Calls,
             \/ Begin(c) \/ PublishFails(c) \/ MakeMutex(c) \/ StatMutex(c)
             \/ RemoveOldMutex(c) \/ RemoveOwnMutex(c) \/ RunFn(c) \/ CheckNonce(c)
             \/ FsError(c)
      PROVE  StealsAbandoned'
  <2> USE DEF lockVars, mutexVars, stealVars, Abandoned, OwnerGone
  <2>1. CASE Begin(c) \/ PublishFails(c) \/ FsError(c)
    BY <2>1 DEF Begin, PublishFails, FsError
  <2>2. CASE MakeMutex(c) \/ RemoveOwnMutex(c)
    BY <2>2 DEF MakeMutex, RemoveOwnMutex
  <2>3. CASE StatMutex(c) \/ RemoveOldMutex(c)
    BY <2>3 DEF StatMutex, RemoveOldMutex, NextTry
  <2>4. CASE RunFn(c) \/ CheckNonce(c)
    BY <2>4 DEF RunFn, LoadFile, SaveFile, LeaveFn, CheckNonce
  <2> QED BY <1>4, <2>1, <2>2, <2>3, <2>4
<1>5. ASSUME NEW p \in Procs, Die(p) PROVE StealsAbandoned'
  <2>1. Abandoned => Abandoned'
    BY <1>5 DEF Die, lockVars, Abandoned
  <2>3. ASSUME NEW s \in Calls, pc'[s] \in {"remove", "stat"}, stealing'[s],
               removal'[s] = "rename-aside"
        PROVE  Abandoned'
    BY <1>5, <2>1, <2>3 DEF Die, Lose
  <2> QED BY <2>3
<1>6. CASE UNCHANGED <<pc, alive, slot, stealing, saw, removal>>
  BY <1>6 DEF Abandoned, OwnerGone
<1> QED
  BY <1>1, <1>2, <1>3, <1>4, <1>5, <1>6
  DEF Next, Races, CallStep, StealStale, Release, vars, DeadlinePasses,
      SlotAges, MutexGetsOld, Finished, stealVars, lockVars

\* The lock of a live holder stays on disk.
LEMMA LiveLockOnDiskStep ==
  ASSUME LockInv, [Next]_vars
  PROVE  LiveLockOnDisk'
<1> USE SlotNames DEF LockInv, LiveLockOnDisk, Holding, TypeOK, CallTypes,
                      DiskTypes, Goto, Active, Releasing, SlotKinds
<1>1. ASSUME NEW c \in Calls, Publish(c) PROVE LiveLockOnDisk'
  BY <1>1 DEF Publish, Replaceable, SetSlot
<1>2. ASSUME NEW c \in Calls, RemoveStale(c) PROVE LiveLockOnDisk'
  <2>1. CASE Removes(removal[c])
    <3>1. \A d \in Calls : ~Holding(d)
      <4>1. CASE removal[c] = "rename-aside"
        <5>1. Abandoned
          BY <1>2, <4>1 DEF RemoveStale, OneStealer, StealsAbandoned
        <5> QED BY <5>1, AbandonedStays
      <4>2. CASE slot = "empty"
        BY <4>2
      <4> QED BY <2>1, <4>1, <4>2 DEF Removes
    <3> QED BY <1>2, <3>1 DEF RemoveStale
  <2>2. CASE ~Removes(removal[c])
    BY <1>2, <2>2 DEF RemoveStale, lockVars
  <2> QED BY <2>1, <2>2
<1>3. ASSUME NEW c \in Calls, DiscardOwn(c) PROVE LiveLockOnDisk'
  <2>1. Holding(c)
    BY <1>3 DEF DiscardOwn, NestedScope
  <2> QED BY <1>3, <2>1 DEF DiscardOwn
<1>4. ASSUME NEW c \in Calls,
             \/ Begin(c) \/ PublishFails(c) \/ Evaluate(c) \/ MakeMutex(c)
             \/ StatMutex(c) \/ RemoveOldMutex(c) \/ RemoveOwnMutex(c)
             \/ FsError(c)
      PROVE  LiveLockOnDisk'
  <2> USE DEF lockVars
  <2>1. CASE Begin(c) \/ PublishFails(c) \/ FsError(c)
    BY <2>1 DEF Begin, PublishFails, FsError
  <2>2. CASE Evaluate(c)
    BY <2>2 DEF Evaluate, ReadDir, ReadMeta, Probe, StatDir, Steal, KeepOff
  <2>3. CASE MakeMutex(c) \/ StatMutex(c) \/ RemoveOldMutex(c) \/ RemoveOwnMutex(c)
    BY <2>3 DEF MakeMutex, StatMutex, RemoveOldMutex, RemoveOwnMutex, NextTry
  <2> QED BY <1>4, <2>1, <2>2, <2>3
<1>5. ASSUME NEW c \in Calls, RunFn(c) \/ CheckNonce(c) PROVE LiveLockOnDisk'
  BY <1>5 DEF RunFn, LoadFile, SaveFile, LeaveFn, CheckNonce, lockVars
<1>6. ASSUME NEW p \in Procs, Die(p) PROVE LiveLockOnDisk'
  BY <1>6 DEF Die, Lose, lockVars, Ended
<1>7. CASE UNCHANGED <<pc, slot, nested>>
  BY <1>7
<1> QED
  BY <1>1, <1>2, <1>3, <1>4, <1>5, <1>6, <1>7
  DEF Next, CallStep, StealStale, Release, vars, lockVars, DeadlinePasses,
      SlotAges, MutexGetsOld, Finished

-----------------------------------------------------------------------------
(* Exclusion. *)

LEMMA LockInvInit == Init => LockInv
<1> SUFFICES ASSUME Init PROVE LockInv
  OBVIOUS
<1>1. TypeOK
  BY TypeInit
<1>2. RunnersLive /\ NestedScope /\ OneStealer /\ StealsAbandoned
  BY CallsAssumption DEF Init, RunnersLive, NestedScope, OneStealer,
                         StealsAbandoned, StealingAt
<1>3. LiveLockOnDisk
  BY DEF Init, LiveLockOnDisk, Holding, Active, Releasing
<1> QED BY <1>1, <1>2, <1>3 DEF LockInv

\* The invariant the exclusion rests on holds until the first race.
THEOREM LockInvariant == Spec /\ Unraced => []LockInv
<1>1. Init => LockInv
  BY LockInvInit
<1>2. LockInv /\ [Next]_vars /\ [~Races]_vars => LockInv'
  <2> SUFFICES ASSUME LockInv, [Next]_vars, [~Races]_vars PROVE LockInv'
    OBVIOUS
  <2>1. TypeOK'
    BY TypeStep DEF LockInv
  <2>2. RunnersLive' /\ NestedScope' /\ OneStealer'
    BY RunnersLiveStep, NestedScopeStep, OneStealerStep DEF LockInv
  <2>3. StealsAbandoned' /\ LiveLockOnDisk'
    BY StealsAbandonedStep, LiveLockOnDiskStep
  <2> QED BY <2>1, <2>2, <2>3 DEF LockInv
<1> QED BY <1>1, <1>2, PTL DEF Spec, Unraced

\* The lock directory of a live holder is taken away only by way of a race,
\* whichever other processes crashed, whatever lay on disk, however old locks and
\* mutexes are taken to be and however the stealers interleave.
THEOREM LiveLockKept == Spec /\ Unraced => []LiveLockOnDisk
<1>1. LockInv => LiveLockOnDisk
  BY DEF LockInv
<1> QED BY <1>1, LockInvariant, PTL

\* Two calls run inside the lock together only after a race.
THEOREM Exclusion == Spec /\ Unraced => []MutualExclusion
<1>1. LockInv => MutualExclusion
  BY DEF LockInv, LiveLockOnDisk, MutualExclusion
<1> QED BY <1>1, LockInvariant, PTL

\* Races or not, a call that skipped the acquire runs only while its outermost
\* call is inside its fn: nothing that escaped an ended fn is re-entrant.
THEOREM ReentrantInScope ==
  Spec => [](\A c \in Calls :
               (nested[c] /\ pc[c] \in Active) => pc[OuterOf[c]] \in Active)
<1> DEFINE Scoped == \A c \in Calls :
                       (nested[c] /\ pc[c] \in Active) => pc[OuterOf[c]] \in Active
<1>1. Init => TypeOK /\ NestedScope
  BY TypeInit DEF Init, NestedScope
<1>2. TypeOK /\ NestedScope /\ [Next]_vars => (TypeOK /\ NestedScope)'
  BY TypeStep, NestedScopeStep
<1>3. NestedScope => Scoped
  BY DEF NestedScope, Active
<1> HIDE DEF Scoped
<1>4. Spec => []Scoped
  BY <1>1, <1>2, <1>3, PTL DEF Spec
<1> QED BY <1>4 DEF Scoped

\* The outermost call of a nested one holds the lock.
LEMMA OuterHolds ==
  ASSUME LockInv, NEW c \in Calls, nested[c], pc[c] \in Active
  PROVE  /\ OuterOf[c] \in Calls
         /\ pc[OuterOf[c]] \in {"load", "fn"}
         /\ slot = OuterOf[c]
<1>1. OuterOf[c] \in Calls /\ pc[OuterOf[c]] \in {"load", "fn"}
  BY NestingAssumption DEF LockInv, NestedScope
<1>2. ~nested[OuterOf[c]]
  BY <1>1, NestingAssumption DEF LockInv, NestedScope
<1> QED BY <1>1, <1>2 DEF LockInv, LiveLockOnDisk, Holding, Active

\* A call that skipped the acquire is covered by its outermost call's lock as
\* long as there is no race.
THEOREM ReentrancyCovered == Spec /\ Unraced => []NestedUnderLock
<1>1. LockInv => NestedUnderLock
  BY OuterHolds DEF NestedUnderLock, Active
<1> QED BY <1>1, LockInvariant, PTL

-----------------------------------------------------------------------------
(* Refinement of the atomic store. *)

\* An fn awaits one nested call at a time.
OneNested ==
  \A d, e \in Calls :
    (/\ nested[d] /\ pc[d] \in Active
     /\ nested[e] /\ pc[e] \in Active
     /\ OuterOf[d] = OuterOf[e]) => d = e

\* What a call is about to save was computed from the file as it is.
SavesFresh == \A c \in Calls : pc[c] = "save" => seen[c] = store

FileInv == OneNested /\ SavesFresh

LEMMA OneSaver ==
  ASSUME LockInv, OneNested, NEW c \in Calls, NEW d \in Calls,
         pc[c] = "save", pc[d] = "save"
  PROVE  c = d
<1>1. pc[c] \in Active /\ pc[d] \in Active
  BY DEF Active
<1>2. ASSUME NEW e \in Calls, pc[e] = "save", ~nested[e] PROVE slot = e
  BY <1>2 DEF LockInv, LiveLockOnDisk, Holding, Active
<1>3. CASE nested[c] /\ nested[d]
  BY <1>1, <1>3, OuterHolds DEF OneNested
<1>4. CASE nested[c] /\ ~nested[d]
  BY <1>1, <1>2, <1>4, OuterHolds
<1>5. CASE ~nested[c] /\ nested[d]
  BY <1>1, <1>2, <1>5, OuterHolds
<1>6. CASE ~nested[c] /\ ~nested[d]
  BY <1>2, <1>6
<1> QED BY <1>3, <1>4, <1>5, <1>6

LEMMA OneNestedStep ==
  ASSUME LockInv, OneNested, [Next]_vars
  PROVE  OneNested'
<1> USE DEF LockInv, OneNested, TypeOK, CallTypes, Goto, Active
<1>1. ASSUME NEW c \in Calls, Begin(c) PROVE OneNested'
  BY <1>1 DEF Begin, AwaitsNested
<1>2. ASSUME NEW c \in Calls, CallStep(c), ~Begin(c) PROVE OneNested'
  <2>1. nested' = nested
    BY <1>2 DEF CallStep, Publish, PublishFails, Evaluate, ReadDir, ReadMeta,
                Probe, StatDir, StealStale, MakeMutex, StatMutex, RemoveOldMutex,
                RemoveStale, RemoveOwnMutex, RunFn, LoadFile, SaveFile, LeaveFn,
                Release, CheckNonce, DiscardOwn
  <2>2. \A d \in Calls : nested[d] /\ pc'[d] \in Active => pc[d] \in Active
    <3>1. CASE pc[c] \in Active
      <4>1. RunFn(c)
        BY <1>2, <3>1 DEF CallStep, Publish, PublishFails, Evaluate, ReadDir,
             ReadMeta, Probe, StatDir, StealStale, MakeMutex, StatMutex,
             RemoveOldMutex, RemoveStale, RemoveOwnMutex, Release, CheckNonce,
             DiscardOwn
      <4> QED BY <3>1, <4>1 DEF RunFn, LoadFile, SaveFile, LeaveFn
    <3>2. CASE ~nested[c]
      <4>1. \A d \in Calls : d # c => pc'[d] = pc[d]
        BY <1>2 DEF CallStep, Publish, PublishFails, Evaluate, ReadDir, ReadMeta,
             Probe, StatDir, Steal, KeepOff, StealStale, MakeMutex, StatMutex,
             NextTry, RemoveOldMutex, RemoveStale, RemoveOwnMutex, RunFn,
             LoadFile, SaveFile, LeaveFn, Release, CheckNonce, DiscardOwn
      <4> QED BY <3>2, <4>1
    <3>3. CASE nested[c] /\ pc[c] = "done"
      BY <1>2, <3>3 DEF CallStep, Publish, PublishFails, Evaluate, ReadDir,
           ReadMeta, Probe, StatDir, StealStale, MakeMutex, StatMutex,
           RemoveOldMutex, RemoveStale, RemoveOwnMutex, RunFn, LoadFile,
           SaveFile, LeaveFn, Release, CheckNonce, DiscardOwn
    <3> QED BY <3>1, <3>2, <3>3 DEF NestedScope
  <2> QED BY <2>1, <2>2
<1>3. ASSUME NEW p \in Procs, Die(p) PROVE OneNested'
  BY <1>3 DEF Die, Lose, Ended
<1>4. CASE UNCHANGED <<pc, nested>>
  BY <1>4
<1>5. ASSUME NEW c \in Calls, FsError(c) PROVE OneNested'
  BY <1>5 DEF FsError
<1> QED
  BY <1>1, <1>2, <1>3, <1>4, <1>5 DEF Next, vars, DeadlinePasses, SlotAges,
                                      MutexGetsOld, Finished

LEMMA SavesFreshStep ==
  ASSUME LockInv, FileInv, [Next]_vars
  PROVE  SavesFresh'
<1> USE DEF LockInv, FileInv, SavesFresh, TypeOK, CallTypes, FileTypes, Goto
<1>1. ASSUME NEW c \in Calls, SaveFile(c) PROVE SavesFresh'
  <2>1. \A d \in Calls : pc[d] = "save" => d = c
    BY <1>1, OneSaver DEF SaveFile
  <2> QED BY <1>1, <2>1 DEF SaveFile
<1>2. ASSUME NEW c \in Calls, LoadFile(c) PROVE SavesFresh'
  BY <1>2 DEF LoadFile
<1>3. ASSUME NEW c \in Calls, CallStep(c), ~SaveFile(c), ~LoadFile(c)
      PROVE  SavesFresh'
  <2>1. UNCHANGED fileVars
    BY <1>3 DEF CallStep, Begin, Publish, PublishFails, Evaluate, ReadDir,
         ReadMeta, Probe, StatDir, StealStale, MakeMutex, StatMutex,
         RemoveOldMutex, RemoveStale, RemoveOwnMutex, RunFn, LeaveFn, Release,
         CheckNonce, DiscardOwn
  <2>2. \A d \in Calls : pc'[d] = "save" => pc[d] = "save"
    BY <1>3 DEF CallStep, Begin, Publish, PublishFails, Evaluate, ReadDir,
         ReadMeta, Probe, StatDir, Steal, KeepOff, StealStale, MakeMutex,
         StatMutex, NextTry, RemoveOldMutex, RemoveStale, RemoveOwnMutex, RunFn,
         LeaveFn, Release, CheckNonce, DiscardOwn
  <2> QED BY <2>1, <2>2 DEF fileVars
<1>4. ASSUME NEW p \in Procs, Die(p) PROVE SavesFresh'
  BY <1>4 DEF Die, Lose, Ended
<1>5. CASE UNCHANGED <<pc, store, seen>>
  BY <1>5
<1>6. ASSUME NEW c \in Calls, FsError(c) PROVE SavesFresh'
  BY <1>6 DEF FsError, fileVars
<1> QED
  BY <1>1, <1>2, <1>3, <1>4, <1>5, <1>6 DEF Next, vars, fileVars,
       DeadlinePasses, SlotAges, MutexGetsOld, Finished

\* The only step that changes the file adds one call's change to it.
LEMMA StoreStep ==
  ASSUME LockInv, FileInv, [Next]_vars
  PROVE  [Atomic!Next]_store
<1> USE DEF Atomic!Next, Atomic!Commit
<1>1. ASSUME NEW c \in Calls, SaveFile(c) PROVE [Atomic!Next]_store
  BY <1>1 DEF SaveFile, FileInv, SavesFresh
<1>2. ASSUME NEW c \in Calls, CallStep(c), ~SaveFile(c) PROVE store' = store
  BY <1>2 DEF CallStep, Begin, Publish, PublishFails, Evaluate, ReadDir,
       ReadMeta, Probe, StatDir, StealStale, MakeMutex, StatMutex,
       RemoveOldMutex, RemoveStale, RemoveOwnMutex, RunFn, LoadFile, LeaveFn,
       Release, CheckNonce, DiscardOwn, fileVars
<1>3. ASSUME NEW p \in Procs, Die(p) PROVE store' = store
  BY <1>3 DEF Die
<1> QED
  BY <1>1, <1>2, <1>3 DEF Next, vars, fileVars, FsError, DeadlinePasses,
                          SlotAges, MutexGetsOld, Finished

\* Every read-modify-write cycle under the lock is atomic: a command's change is
\* lost to another's stale copy only after a race.
THEOREM UpdatesAtomic == Spec /\ Unraced => NoLostUpdate
<1>1. Init => FileInv /\ Atomic!Init
  BY DEF Init, FileInv, OneNested, SavesFresh, Active, Atomic!Init
<1>2. LockInv /\ FileInv /\ [Next]_vars => FileInv'
  BY OneNestedStep, SavesFreshStep DEF FileInv
<1>3. LockInv /\ FileInv /\ [Next]_vars => [Atomic!Next]_store
  BY StoreStep
<1> QED
  BY <1>1, <1>2, <1>3, LockInvariant, PTL DEF Spec, NoLostUpdate, Atomic!Spec

-----------------------------------------------------------------------------
(* What the commands take the lock for. *)

\* A call that runs inside its outer call's lock never asks for one.
StageOf(c) ==
  IF pc[c] = "idle" \/ nested[c] THEN "idle"
  ELSE IF Holding(c) THEN "holds"
  ELSE IF pc[c] \in Acquiring THEN "waits" ELSE "over"

Exclusive == INSTANCE AbstractLock WITH stage <- [c \in Calls |-> StageOf(c)]

\* An operation that leaves c where it was leaves all of them.
LEMMA SameStage ==
  ASSUME NEW c \in Calls, UNCHANGED nested, StageOf(c)' = StageOf(c),
         \A d \in Calls \ {c} : pc'[d] = pc[d]
  PROVE  [d \in Calls |-> StageOf(d)]' = [d \in Calls |-> StageOf(d)]
<1>1. ASSUME NEW d \in Calls PROVE StageOf(d)' = StageOf(d)
  BY <1>1 DEF StageOf, Holding
<1> QED BY <1>1

LEMMA StageStep ==
  ASSUME LockInv, [Next]_vars
  PROVE  [Exclusive!Next]_[c \in Calls |-> StageOf(c)]
<1> DEFINE stage == [c \in Calls |-> StageOf(c)]
<1> USE DEF Acquiring, Active, Releasing, Ended, Exclusive!Next, Exclusive!Step
<1>t. pc \in [Calls -> Pcs] /\ nested \in [Calls -> BOOLEAN]
  BY DEF LockInv, TypeOK, CallTypes
<1>1. ASSUME NEW c \in Calls, Begin(c) PROVE [Exclusive!Next]_stage
  <2>1. ~nested[c]
    BY <1>1 DEF Begin, LockInv, NestedScope
  <2>2. CASE nested'[c]
    <3>1. StageOf(c) = "idle" /\ StageOf(c)' = "idle"
      BY <1>1, <2>2 DEF Begin, StageOf
    <3>2. \A d \in Calls \ {c} : StageOf(d)' = StageOf(d)
      BY <1>t, <1>1 DEF Begin, Goto, StageOf, Holding
    <3> QED BY <3>1, <3>2
  <2>3. CASE ~nested'[c]
    <3>1. UNCHANGED nested /\ pc[c] = "idle" /\ pc' = [pc EXCEPT ![c] = "publish"]
      BY <1>t, <1>1, <2>3 DEF Begin, Goto
    <3>2. stage' = [stage EXCEPT ![c] = "waits"] /\ stage[c] = "idle"
      BY <1>t, <2>1, <3>1 DEF StageOf, Holding
    <3> QED BY <3>2 DEF Exclusive!Ask
  <2> QED BY <2>2, <2>3
<1>2. ASSUME NEW c \in Calls, Publish(c) PROVE [Exclusive!Next]_stage
  <2>1. \A d \in Calls : ~Holding(d)
    BY <1>2, CallsAssumption DEF Publish, Replaceable, LockInv, LiveLockOnDisk, SlotKinds
  <2>2. \A d \in Calls : stage[d] # "holds"
    BY <2>1 DEF StageOf
  <2>3. ~nested[c]
    BY <1>2 DEF Publish, LockInv, NestedScope
  <2>4. stage' = [stage EXCEPT ![c] = "holds"] /\ stage[c] = "waits"
    BY <1>t, <1>2, <2>3 DEF Publish, Goto, StageOf, Holding
  <2> QED BY <2>2, <2>4 DEF Exclusive!Admit
<1>3. ASSUME NEW c \in Calls, PublishFails(c) PROVE [Exclusive!Next]_stage
  <2>1. ~nested[c]
    BY <1>3 DEF PublishFails, LockInv, NestedScope
  <2>2. CASE TimedOut(c)
    <3>1. stage' = [stage EXCEPT ![c] = "over"] /\ stage[c] = "waits"
      BY <1>t, <1>3, <2>1, <2>2 DEF PublishFails, Goto, StageOf, Holding
    <3> QED BY <3>1 DEF Exclusive!GiveUp
  <2>3. CASE ~TimedOut(c)
    <3>1. stage' = stage
      BY <1>t, <1>3, <2>1, <2>3 DEF PublishFails, Goto, StageOf, Holding
    <3> QED BY <3>1
  <2> QED BY <2>2, <2>3
<1>4. ASSUME NEW c \in Calls, Evaluate(c) \/ StealStale(c) PROVE stage' = stage
  <2>1. pc[c] \in Acquiring /\ pc'[c] \in Acquiring /\ UNCHANGED nested
    BY <1>t, <1>4 DEF Evaluate, ReadDir, ReadMeta, Probe, StatDir, Steal, KeepOff, Goto,
         StealStale, MakeMutex, StatMutex, NextTry, RemoveOldMutex, RemoveStale, RemoveOwnMutex
  <2>2. \A d \in Calls \ {c} : pc'[d] = pc[d]
    BY <1>t, <1>4 DEF Evaluate, ReadDir, ReadMeta, Probe, StatDir, Steal, KeepOff, Goto,
         StealStale, MakeMutex, StatMutex, NextTry, RemoveOldMutex, RemoveStale, RemoveOwnMutex
  <2>3. StageOf(c)' = StageOf(c)
    BY <2>1 DEF StageOf, Holding
  <2> QED BY <2>1, <2>2, <2>3, SameStage
<1>5. ASSUME NEW c \in Calls,
             \/ LoadFile(c) \/ SaveFile(c)
             \/ LeaveFn(c) /\ nested[c]
             \/ CheckNonce(c) /\ slot \notin (Calls \cup {"orphan"}) \ {c}
      PROVE  stage' = stage
  <2>1. /\ pc[c] \in Active \cup Releasing
        /\ pc'[c] \in Active \cup Releasing \/ nested[c]
        /\ UNCHANGED nested
    BY <1>t, <1>5 DEF LoadFile, SaveFile, LeaveFn, CheckNonce, Goto
  <2>2. \A d \in Calls \ {c} : pc'[d] = pc[d]
    BY <1>t, <1>5 DEF LoadFile, SaveFile, LeaveFn, CheckNonce, Goto
  <2>3. StageOf(c)' = StageOf(c)
    BY <2>1 DEF StageOf, Holding
  <2> QED BY <2>1, <2>2, <2>3, SameStage
<1>6. ASSUME NEW c \in Calls, LeaveFn(c), ~nested[c] PROVE stage' = stage
  <2>1. \A d \in Calls \ {c} : pc'[d] = pc[d]
    BY <1>t, <1>6 DEF LeaveFn, Goto
  <2>2. StageOf(c)' = StageOf(c) /\ UNCHANGED nested
    BY <1>t, <1>6 DEF LeaveFn, Goto, StageOf, Holding
  <2> QED BY <2>1, <2>2, SameStage
<1>7. ASSUME NEW c \in Calls, DiscardOwn(c) \/ (CheckNonce(c) /\ pc'[c] = "done")
      PROVE  [Exclusive!Next]_stage
  <2>1. ~nested[c]
    BY <1>7 DEF DiscardOwn, CheckNonce, LockInv, NestedScope
  <2>2. stage' = [stage EXCEPT ![c] = "over"] /\ stage[c] = "holds"
    BY <1>t, <1>7, <2>1 DEF DiscardOwn, CheckNonce, Goto, StageOf, Holding
  <2> QED BY <2>2 DEF Exclusive!Leave
<1>8. ASSUME NEW p \in Procs, Die(p) PROVE [Exclusive!Next]_stage
  <2> DEFINE R == {c \in Calls : ProcOf[c] = p}
  <2>1. ASSUME NEW c \in R PROVE StageOf(c)' = "over"
    <3>1. pc'[c] \in Ended \cup {"killed"} /\ ~nested'[c]
      BY <1>t, <1>8 DEF Die, Lose
    <3> QED BY <3>1 DEF StageOf, Holding
  <2>2. ASSUME NEW c \in Calls, c \notin R PROVE StageOf(c)' = StageOf(c)
    BY <1>t, <1>8, <2>2 DEF Die, Lose, StageOf, Holding
  <2>3. stage' = [c \in Calls |-> IF c \in R THEN "over" ELSE stage[c]]
    BY <2>1, <2>2
  <2> QED BY <2>3 DEF Exclusive!End
<1>9. CASE UNCHANGED <<pc, nested>>
  BY <1>9 DEF StageOf, Holding
<1>10. ASSUME NEW c \in Calls, CheckNonce(c)
       PROVE  pc'[c] = "done" \/ slot \notin (Calls \cup {"orphan"}) \ {c}
  BY <1>t, <1>10 DEF CheckNonce, Goto
<1>13. ASSUME NEW c \in Calls, FsError(c) PROVE [Exclusive!Next]_stage
  <2>1. ~nested[c]
    BY <1>13 DEF FsError, LockInv, NestedScope
  <2>2. stage' = [stage EXCEPT ![c] = "over"] /\ stage[c] = "waits"
    BY <1>t, <1>13, <2>1 DEF FsError, Goto, StageOf, Holding
  <2> QED BY <2>2 DEF Exclusive!GiveUp
<1> HIDE DEF Acquiring, Active, Releasing, Ended, Exclusive!Next, Exclusive!Step
<1>11. ASSUME NEW c \in Calls, CallStep(c) PROVE [Exclusive!Next]_stage
  BY <1>1, <1>2, <1>3, <1>4, <1>5, <1>6, <1>7, <1>10, <1>11 DEF CallStep, RunFn, Release
<1>12. [Exclusive!Next]_stage
  BY <1>8, <1>9, <1>11, <1>13 DEF Next, vars, DeadlinePasses, SlotAges, MutexGetsOld, Finished
<1> QED BY <1>12

\* What ConfigCommands and Credentials take the lock for: asked for, had by one
\* call at a time, given up at a deadline, free again when its holder is done or
\* gone.  ConfigLock, with its mutex, its stealers and its crashes, is that lock in
\* every behaviour without a race.
THEOREM LockIsExclusive == Spec /\ Unraced => Exclusive!Spec
<1>1. Init => Exclusive!Init
  BY DEF Init, Exclusive!Init, StageOf
<1>2. LockInv /\ [Next]_vars => [Exclusive!Next]_[c \in Calls |-> StageOf(c)]
  BY StageStep
<1> QED BY <1>1, <1>2, LockInvariant, PTL DEF Spec, Exclusive!Spec
=============================================================================
