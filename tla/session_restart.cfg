SPECIFICATION FairSpec
CONSTANTS
  c1 = c1  c2 = c2
  Calls <- OneCall
  MaxClients = 2
  AllowRestart = TRUE
  TokenEvents = FALSE
PROPERTIES StaysDisposed StaleAttemptIsHarmless CallsReturn
