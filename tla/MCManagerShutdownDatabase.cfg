SPECIFICATION ShutdownSpec
CONSTANTS
  WorkerCount = 1
  ResultChanSize = 1
  MaxPingRetries = 0
  MaxMatches = 1
  MaxFaults = 0
PROPERTY DatabaseTiedToSaveLoop
CHECK_DEADLOCK FALSE
