SPECIFICATION Spec
CONSTANTS
  Workers = 3
  BatchSize = 1
  QueueCap = 1
  Configs = {{}, {"telemetry"}, {"fim"}, {"procmon"}, {"telemetry", "fim"}, {"telemetry", "procmon"}, {"fim", "procmon"}, {"telemetry", "fim", "procmon"}}
INVARIANTS
  TypeOK
  StopsLast
  JoinHangs
PROPERTIES
  NeverStarved
  AllServicesStart
  TelemetryKeepsSampling
  CtrlCNoticed
CHECK_DEADLOCK FALSE
