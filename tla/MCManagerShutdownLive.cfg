SPECIFICATION ShutdownFairSpec
CONSTANTS
  WorkerCount = 1
  ResultChanSize = 1
  MaxPingRetries = 0
  MaxMatches = 1
  MaxFaults = 1
INVARIANT ClosedAfterMatchmaker
PROPERTIES SignalEndsRun WindsDown
CHECK_DEADLOCK FALSE
