SPECIFICATION FairSpec
CONSTANTS
  i1 = i1  i2 = i2  q = q  e = e  g = g
  Requests <- FiveRequests
  KindOf <- FiveKinds
INVARIANTS NoSessionOutlivesDone DrainedFirst
PROPERTIES StopEnds
CHECK_DEADLOCK FALSE
