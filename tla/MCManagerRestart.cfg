SPECIFICATION FairSpec
CONSTANTS
  WorkerCount = 2
  ResultChanSize = 2
  User = {u1, u2}
  MaxMatches = 2
  MaxLives = 3
  MaxFaults = 2
INVARIANTS FreshStart NoZombies ReplayRepairs HeldIsUnsettled
PROPERTY ServesAgain
CHECK_DEADLOCK FALSE
