SPECIFICATION RunSpec
CONSTANTS
  d = d  c1 = c1
  Runs <- DescribeAndCall
  Describes <- OneDescribe
  Files <- EveryFile
  MaxTries = 2
INVARIANTS CleanedLast AnswerNotLost DescribedIsCallable CancelReaches ExitTellsWhatRan
PROPERTIES RunsEnd
CHECK_DEADLOCK FALSE
