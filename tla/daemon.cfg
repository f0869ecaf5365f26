SPECIFICATION Spec
CONSTANTS
  d1 = d1  r1 = r1  s1 = s1  old = old
  Detaches <- OneDetach
  Runs <- OneRun
  Stops <- OneStop
  Old = old
  MaxEdits = 1
  Mortal <- OldOnly
INVARIANTS RecordNamesBound CleanExit NoChildLeft
PROPERTIES HandleServesConfig
