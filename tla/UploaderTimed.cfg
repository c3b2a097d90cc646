SPECIFICATION TimedFairSpec
CONSTANTS
  Event = {e1, e2, e3}
  Collector = {telemetry}
  Main = main
  BatchSize = 3
  MaxFaults = 1
  Timeout = 2
  FlushInterval = 3
INVARIANT HeldBounded
PROPERTIES
  EverySentIsSettled
  UploaderStops
CHECK_DEADLOCK FALSE
