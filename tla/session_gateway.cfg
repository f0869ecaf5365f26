SPECIFICATION FairSpec
CONSTANTS
  c1 = c1  c2 = c2
  Calls <- TwoCalls
  MaxClients = 2
  AllowRestart = FALSE
  TokenEvents = TRUE
INVARIANTS OneConnection PhaseInSync
PROPERTIES KeepsPromise SelfHeals DisposeCleansUp
