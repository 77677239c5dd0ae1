SPECIFICATION ShutdownFairSpec
CONSTANTS
  WorkerCount = 1
  ResultChanSize = 1
  MaxPingRetries = 0
  MaxMatches = 1
  MaxFaults = 0
PROPERTY FailedStartEndsRun
CHECK_DEADLOCK FALSE
