SPECIFICATION FairSpec
CONSTANTS
  a = a  b = b  c = c  d = d  p = p  q = q  r = r  none = none
  NoCall = none
  Calls <- Calls3
  Procs <- Procs3
  ProcOf <- ProcOfSeparate
  OuterOf <- OuterNone
  StealAttempts = 1
  InitSlots <- AnySlot
  InitMutexes <- AnyMutex
  Deadlines = FALSE
  MutexAges = "abandoned"
  PromptProbe = TRUE
PROPERTIES EventuallyAdmitted
