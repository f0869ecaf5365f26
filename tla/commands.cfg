SPECIFICATION MCSpec
CONSTANTS
  c1 = c1  c2 = c2  nameA = nameA  nameB = nameB
  Missing = Missing  Torn = Torn  Absent = Absent
  Installers <- TwoCommands
  Names <- TwoNames
  MaxVersion = 1
SYMMETRY Symmetry
INVARIANTS NoDanglingEntry
PROPERTIES CollisionsAreTyped NoEntryLost OnlyRestoreLoses
CHECK_DEADLOCK FALSE
