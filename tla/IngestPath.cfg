SPECIFICATION IngestSpec
CONSTANTS
  Event = {e1, e2}
  Collector = {c1}
  Main = Main
  BatchSize = 2
  MaxFaults = 2
  MaxTokens = 2
  MaxRetries = 1
  MaxSlips = 2
INVARIANT CounterFollows
PROPERTY SettledOrRefused
CHECK_DEADLOCK FALSE
