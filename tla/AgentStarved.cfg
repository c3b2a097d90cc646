SPECIFICATION Spec
CONSTANTS
  Workers = 2
  BatchSize = 1
  QueueCap = 1
  Configs = {{}, {"telemetry"}, {"fim"}, {"procmon"}, {"telemetry", "fim"}, {"telemetry", "procmon"}, {"fim", "procmon"}, {"telemetry", "fim", "procmon"}}
PROPERTY AllServicesStart
CHECK_DEADLOCK FALSE
