SPECIFICATION FairSpec
CONSTANTS
  c1 = c1  c2 = c2  op = op  stream = stream
  Commands <- TwoCommands
  Flows <- TwoFlows
  Scoped <- OneScoped
  MaxSerial = 3
INVARIANTS SuccessPageIsTrue LogoutSticks LoginNotClobbered
PROPERTIES AddIsAtomic LoginEnds
CHECK_DEADLOCK FALSE
