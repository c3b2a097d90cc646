SPECIFICATION Spec
CONSTANTS
  Event = {e1, e2, e3, e4}
  Collector = {telemetry, fim}
  Main = main
  BatchSize = 2
  MaxFaults = 2
SYMMETRY Symmetry
INVARIANTS
  TypeOK
  Accounting
  AckedWasDelivered
  DuplicatesNeedFaults
  OverfullOnlyAfterFailure
  EveryEventOnce
PROPERTY Implements
CHECK_DEADLOCK FALSE
