SPECIFICATION FairSpec
CONSTANTS
  WorkerCount = 1
  ResultChanSize = 1
  MaxPingRetries = 0
  MaxMatches = 1
  MaxFaults = 2
INVARIANT NoMatchForgotten
PROPERTIES MuReleased ReportSaved RestartEnds
