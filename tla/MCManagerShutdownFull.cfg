SPECIFICATION ShutdownFairSpec
CONSTANTS
  WorkerCount = 1
  ResultChanSize = 1
  MaxPingRetries = 0
  MaxMatches = 1
  MaxFaults = 1
PROPERTY ShutdownStopsLoops
CHECK_DEADLOCK FALSE
