SPECIFICATION Spec
CONSTANTS
  WorkerCount = 2
  ResultChanSize = 1
  MaxPingRetries = 0
  MaxMatches = 2
  MaxFaults = 1
INVARIANTS ExclusiveWorkers ConsumedMatchReleased NoLostWakeup
PROPERTY ImplementsMatchDispatch
