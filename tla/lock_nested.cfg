SPECIFICATION FairSpec
CONSTANTS
  a = a  b = b  c = c  d = d  p = p  q = q  r = r  none = none
  NoCall = none
  Calls <- Calls3
  Procs <- Procs2
  ProcOf <- ProcOfShared
  OuterOf <- OuterOfC
  StealAttempts = 2
  InitSlots <- AnySlot
  InitMutexes <- AnyMutex
  Deadlines = TRUE
  MutexAges = "none"
  PromptProbe = TRUE
INVARIANTS MutualExclusion
PROPERTIES NoLostUpdate EventuallyEnds
