SPECIFICATION Spec
CONSTANTS
  File = {f1, f2}
  WellFormed = {rule, cut}
  Broken = {broken}
  Absent = absent
  MaxEdits = 2
  MaxEvents = 2
INVARIANTS
  TypeOK
  StaleOnlyIfWritten
  LaterScrapeCovers
PROPERTY HalvesEndTogether
CHECK_DEADLOCK FALSE
